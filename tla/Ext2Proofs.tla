----------------------------- MODULE Ext2Proofs -----------------------------
(***************************************************************************)
(* For every geometry, every set of names and every content: the driver    *)
(* keeps the types of the disk and of its variables, the loops of write    *)
(* stay inside the inode's pointers, the indirect table and the caller's   *)
(* buffer, and the records of a directory block tile it.                   *)
(***************************************************************************)
EXTENDS Ext2, SequenceTheorems, WellFoundedInduction, TLAPS

(* The types alone are not inductive: what StoreDirect and StorePointer write
   is a chunk only because the index is inside the content.                 *)
Inv == TypeOK /\ IndicesInBounds

-----------------------------------------------------------------------------
(* The layout.                                                              *)

(* Numbers of the layout that the proofs refer to.                          *)
LEMMA LayoutFacts ==
  /\ 0 \in Blocks /\ ROOT_DIR_BLOCK_LBA \in Blocks /\ ROOT_INODE_NO \in Inodes
  /\ NDirect \in Nat /\ NDirect > 0 /\ NIndirect \in Nat /\ BLOCK_SIZE \in Nat
  /\ "." \in Names \cup Dots /\ ".." \in Names \cup Dots
  BY LayoutAssumption
  DEF Blocks, Inodes, ROOT_DIR_BLOCK_LBA, INODE_TABLE_LBA, ROOT_INODE_NO, Dots

(* The length of a record is a number, 12 for the dots.                     *)
LEMMA RecLenType ==
  /\ \A name \in Names \cup Dots : RecLen(name) \in Nat
  /\ RecLen(".") = 12 /\ RecLen("..") = 12
  <1>1. \A n \in Nat : get_entry_record_len(n) \in Nat
    BY DEF get_entry_record_len
  <1>2. \A name \in Names \cup Dots : NameLen[name] \in Nat
    BY LayoutAssumption
  <1>3. get_entry_record_len(1) = 12 /\ get_entry_record_len(2) = 12
    BY DEF get_entry_record_len
  <1>. QED  BY <1>1, <1>2, <1>3, LayoutAssumption DEF RecLen

(* A cleared inode is an inode, the root's too.                             *)
LEMMA InodeTypes == ZeroInode \in Inode /\ RootInode \in Inode
  <1>1. [i \in 0 .. NDirect |-> 0] \in [0 .. NDirect -> Blocks]
    BY LayoutFacts
  <1>2. ZeroInode \in Inode
    BY <1>1 DEF ZeroInode, Inode
  <1>3. [ZeroInode.block EXCEPT ![0] = ROOT_DIR_BLOCK_LBA] \in [0 .. NDirect -> Blocks]
    BY <1>1, LayoutFacts DEF ZeroInode
  <1>. QED  BY <1>2, <1>3 DEF RootInode, Inode

(* The first block of a directory holds entries.                            *)
LEMMA DotsType ==
  ASSUME NEW self \in Inodes \cup {0}, NEW parent \in Inodes \cup {0}
  PROVE  DotEntries(self, parent) \in Seq(Entry)
  <1>1. BLOCK_SIZE - 12 \in Nat
    BY LayoutAssumption
  <1>2. /\ NewEntry(self, ".", "dir", RecLen(".")) \in Entry
        /\ NewEntry(parent, "..", "dir", BLOCK_SIZE - RecLen(".")) \in Entry
    BY <1>1, RecLenType, LayoutFacts DEF NewEntry, Entry
  <1>. QED  BY <1>2 DEF DotEntries

(* A block of the disk has a content, whatever is written.                  *)
LEMMA ContentTypes ==
  /\ Stale \in Content
  /\ \A ents \in Seq(Entry) : DirBlock(ents) \in Content
  /\ \A c \in Chunks : DataBlock(c) \in Content
  /\ \A p \in [0 .. NIndirect - 1 -> Blocks] : TableBlock(p) \in Content
  BY DEF Content, Stale, DirBlock, DataBlock, TableBlock

(* What a block of a kind holds.                                            *)
LEMMA ContentParts ==
  ASSUME NEW x \in Content
  PROVE  /\ x.kind = "dir" => x.ents \in Seq(Entry)
         /\ x.kind = "table" => x.ptr \in [0 .. NIndirect - 1 -> Blocks]
  BY DEF Content, Stale

(* Splitting a record with room gives records.                              *)
LEMMA InsertType ==
  ASSUME NEW ents \in Seq(Entry), NEW k \in DOMAIN ents,
         NEW ino \in Inodes \cup {0}, NEW name \in Names \cup Dots,
         NEW type \in {"file", "dir"}, HasRoom(ents, k, name)
  PROVE  InsertEntry(ents, k, ino, name, type) \in Seq(Entry)
  <1>1. ents[k] \in Entry /\ k \in 1 .. Len(ents) /\ Len(ents) \in Nat
    OBVIOUS
  <1>2. /\ ents[k].name \in Names \cup Dots /\ ents[k].rec_len \in Nat
    BY <1>1 DEF Entry
  <1>3. RecLen(ents[k].name) \in Nat /\ RecLen(name) \in Nat
    BY <1>2, RecLenType
  <1>4. ents[k].rec_len - RecLen(ents[k].name) \in Nat
    BY <1>2, <1>3 DEF HasRoom
  <1>5. [ents[k] EXCEPT !.rec_len = RecLen(ents[k].name)] \in Entry
    BY <1>1, <1>3 DEF Entry
  <1>6. NewEntry(ino, name, type, ents[k].rec_len - RecLen(ents[k].name)) \in Entry
    BY <1>4 DEF NewEntry, Entry
  <1>7. SubSeq(ents, 1, k - 1) \in Seq(Entry) /\ SubSeq(ents, k + 1, Len(ents)) \in Seq(Entry)
    BY <1>1, SubSeqProperties
  <1>. DEFINE two == << [ents[k] EXCEPT !.rec_len = RecLen(ents[k].name)],
          NewEntry(ino, name, type, ents[k].rec_len - RecLen(ents[k].name)) >>
  <1>8. two \in Seq(Entry)
    BY <1>5, <1>6
  <1>. HIDE DEF two
  <1>9. SubSeq(ents, 1, k - 1) \o two \o SubSeq(ents, k + 1, Len(ents)) \in Seq(Entry)
    BY <1>7, <1>8, ConcatProperties
  <1>. QED  BY <1>9 DEF InsertEntry, two

(* Removing a record leaves records.                                        *)
LEMMA RemoveType ==
  ASSUME NEW ents \in Seq(Entry), NEW k \in DOMAIN ents
  PROVE  RemoveEntry(ents, k) \in Seq(Entry)
  <1>1. Len(ents) \in Nat /\ k \in 1 .. Len(ents)
    OBVIOUS
  <1>2. CASE k = 1
    <2>1. ents[1] \in Entry
      BY <1>1, <1>2
    <2>2. [ents[1] EXCEPT !.inode = 0] \in Entry
      BY <2>1 DEF Entry
    <2>3. [ents EXCEPT ![1].inode = 0] = [ents EXCEPT ![1] = [ents[1] EXCEPT !.inode = 0]]
      OBVIOUS
    <2>. QED  BY <2>2, <2>3, <1>2, ExceptSeq DEF RemoveEntry
  <1>3. CASE k # 1
    <2>. DEFINE e(i) == IF i < k - 1 THEN ents[i]
                        ELSE IF i = k - 1
                             THEN [ents[i] EXCEPT !.rec_len = @ + ents[k].rec_len]
                             ELSE ents[i + 1]
    <2>1. ASSUME NEW i \in 1 .. Len(ents) - 1
          PROVE  e(i) \in Entry
      <3>1. ents[i] \in Entry /\ ents[i + 1] \in Entry /\ ents[k] \in Entry
        BY <1>1
      <3>2. ents[i].rec_len + ents[k].rec_len \in Nat
        BY <3>1 DEF Entry
      <3>3. [ents[i] EXCEPT !.rec_len = ents[i].rec_len + ents[k].rec_len] \in Entry
        BY <3>1, <3>2 DEF Entry
      <3>. QED  BY <3>1, <3>3
    <2>. HIDE DEF e
    <2>2. Len(ents) - 1 \in Nat
      BY <1>1
    <2>3. [i \in 1 .. Len(ents) - 1 |-> e(i)] \in Seq(Entry)
      BY <2>1, <2>2, IsASeq
    <2>. QED  BY <1>3, <2>3 DEF RemoveEntry, e
  <1>. QED  BY <1>2, <1>3

-----------------------------------------------------------------------------
(* Reading the disk.                                                        *)

(* The records of a block are entries, the pointers of an inode are blocks. *)
LEMMA DiskParts ==
  ASSUME TypeOK
  PROVE  /\ \A b \in Blocks : Ents(b) \in Seq(Entry)
         /\ \A i \in Inodes : /\ inode_table[i] \in Inode
                              /\ inode_table[i].block \in [0 .. NDirect -> Blocks]
  <1>1. ASSUME NEW b \in Blocks PROVE Ents(b) \in Seq(Entry)
    <2>1. blk[b] \in Content
      BY DEF TypeOK
    <2>. QED  BY <2>1, ContentParts DEF Ents
  <1>. QED  BY <1>1 DEF TypeOK, Inode

(* A position of a directory is a record of one of its blocks.              *)
LEMMA SlotParts ==
  ASSUME TypeOK, NEW d, NEW s \in Slots(d)
  PROVE  /\ s[1] \in 0 .. NDirect - 1
         /\ s[2] \in DOMAIN Ents(inode_table[d].block[s[1]])
  BY DEF Slots, DirBlocks, DirEnts

(* The entry at a position names an inode or is marked unused.              *)
LEMMA AtType ==
  ASSUME TypeOK, NEW d \in Inodes, NEW s \in Slots(d)
  PROVE  At(d, s) \in Entry
  <1>1. s[1] \in 0 .. NDirect - 1 /\ s[2] \in DOMAIN Ents(inode_table[d].block[s[1]])
    BY SlotParts
  <1>2. inode_table[d].block[s[1]] \in Blocks
    BY <1>1, DiskParts, LayoutFacts
  <1>3. Ents(inode_table[d].block[s[1]]) \in Seq(Entry)
    BY <1>2, DiskParts
  <1>. QED  BY <1>1, <1>3 DEF At, DirEnts

(* The blocks delete is going to free are blocks.                           *)
LEMMA BlocksOfType ==
  ASSUME TypeOK, NEW node \in Inode
  PROVE  BlocksOf(node) \in Seq(Blocks)
  <1>1. node.block \in [0 .. NDirect -> Blocks]
    BY DEF Inode
  <1>. DEFINE ind == node.block[NDirect]
              ptr == IF blk[ind].kind = "table" THEN blk[ind].ptr ELSE NoPointers
  <1>2. ind \in Blocks
    BY <1>1, LayoutFacts
  <1>3. ptr \in [0 .. NIndirect - 1 -> Blocks]
    <2>1. blk[ind] \in Content
      BY <1>2 DEF TypeOK
    <2>2. NoPointers \in [0 .. NIndirect - 1 -> Blocks]
      BY LayoutFacts DEF NoPointers
    <2>. QED  BY <2>1, <2>2, ContentParts
  <1>. HIDE DEF ind, ptr
  <1>4. [i \in 1 .. NDirect |-> node.block[i - 1]] \in Seq(Blocks)
    BY <1>1, LayoutFacts, IsASeq
  <1>5. [i \in 1 .. NIndirect |-> ptr[i - 1]] \in Seq(Blocks)
    BY <1>3, LayoutFacts, IsASeq
  <1>6. <<ind>> \in Seq(Blocks)
    BY <1>2
  <1>7. [i \in 1 .. NIndirect |-> ptr[i - 1]] \o <<ind>> \in Seq(Blocks)
    BY <1>5, <1>6, ConcatProperties
  <1>8. <<>> \in Seq(Blocks)
    OBVIOUS
  <1>9. (IF ind = 0 THEN <<>> ELSE [i \in 1 .. NIndirect |-> ptr[i - 1]] \o <<ind>>)
          \in Seq(Blocks)
    BY <1>7, <1>8
  <1>10. BlocksOf(node) = [i \in 1 .. NDirect |-> node.block[i - 1]]
           \o (IF ind = 0 THEN <<>> ELSE [i \in 1 .. NIndirect |-> ptr[i - 1]] \o <<ind>>)
    BY DEF BlocksOf, ind, ptr
  <1>. QED  BY <1>4, <1>9, <1>10, ConcatProperties

-----------------------------------------------------------------------------
(* The parts of a state.                                                    *)

(* The blank and the fresh values have the types of the disk.               *)
LEMMA FreshTypes ==
  /\ BlankSuper \in Super /\ FreshSuper \in Super
  /\ BlankGroup \in Group /\ FreshGroup \in Group
  /\ FreshBlockBitmap \subseteq Blocks /\ FreshInodeBitmap \subseteq Inodes
  /\ BlankTable \in [Inodes -> Inode]
  /\ NoFrame \in Frame
  <1>1. TOTAL_BLOCKS \in Nat /\ TOTAL_INODES \in Nat /\ INITIAL_USED_BLOCKS \in Nat
    BY LayoutAssumption DEF TOTAL_BLOCKS, TOTAL_INODES, INITIAL_USED_BLOCKS
  <1>2. /\ BlankSuper \in Super /\ FreshSuper \in Super
        /\ BlankGroup \in Group /\ FreshGroup \in Group
    BY <1>1, LayoutAssumption
    DEF BlankSuper, FreshSuper, BlankGroup, FreshGroup, Super, Group
  <1>3. FreshBlockBitmap \subseteq Blocks /\ FreshInodeBitmap \subseteq Inodes
    BY LayoutAssumption
    DEF FreshBlockBitmap, FreshInodeBitmap, Blocks, Inodes, ROOT_DIR_BLOCK_LBA,
        INODE_TABLE_LBA
  <1>4. BlankTable \in [Inodes -> Inode]
    BY InodeTypes DEF BlankTable
  <1>5. NoPointers \in [0 .. NIndirect - 1 -> Blocks]
    BY LayoutFacts DEF NoPointers
  <1>6. NoFrame \in Frame
    BY <1>5, InodeTypes, LayoutFacts DEF NoFrame, Frame, Labels
  <1>. QED  BY <1>2, <1>3, <1>4, <1>6

(* The fields of the call in progress.                                      *)
LEMMA FrameParts ==
  ASSUME TypeOK
  PROVE  /\ fr.parent \in Inodes \cup {0} /\ fr.name \in Names \cup Dots
         /\ fr.dir \in BOOLEAN /\ fr.content \in Seq(Chunks)
         /\ fr.inum \in Inodes \cup {0} /\ fr.node \in Inode /\ fr.n \in Nat
         /\ fr.ptr \in [0 .. NIndirect - 1 -> Blocks] /\ fr.got \in Blocks
         /\ fr.back \in Labels /\ fr.todo \in Seq(Blocks)
         /\ fr.node.mode \in {"none", "file", "dir"} /\ fr.node.size \in Nat
         /\ fr.node.block \in [0 .. NDirect -> Blocks]
  BY DEF TypeOK, Frame, Inode

(* Both the blank disk and the one the inserter leaves satisfy the invariant. *)
LEMMA InitInv == Init => Inv
  <1>. SUFFICES ASSUME Init PROVE Inv
    OBVIOUS
  <1>. USE DEF Init
  <1>1. signature \in BOOLEAN
    BY Ext2Assumption
  <1>2. superblock \in Super /\ bgdt \in Group /\ sb \in Super /\ bgd \in Group
    BY FreshTypes
  <1>3. block_bitmap \subseteq Blocks /\ inode_bitmap \subseteq Inodes
    BY FreshTypes
  <1>4. inode_table \in [Inodes -> Inode]
    BY FreshTypes, InodeTypes
  <1>5. blk \in [Blocks -> Content]
    <2>1. DirBlock(DotEntries(ROOT_INODE_NO, ROOT_INODE_NO)) \in Content
      BY DotsType, LayoutFacts, ContentTypes
    <2>. QED  BY <2>1, ContentTypes
  <1>6. initialized \in BOOLEAN /\ pc \in Labels /\ fr \in Frame
    BY FreshTypes DEF Labels
  <1>7. ret \in Codes \cup {NoCode} /\ crashes \in 0 .. MaxCrashes
    BY Ext2Assumption DEF Codes, NoCode
  <1>. HIDE DEF Init
  <1>9. TypeOK
    BY <1>1, <1>2, <1>3, <1>4, <1>5, <1>6, <1>7 DEF TypeOK
  <1>8. IndicesInBounds
    BY DEF Init, IndicesInBounds, Reaching
  <1>. QED  BY <1>8, <1>9 DEF Inv

-----------------------------------------------------------------------------
(* The steps.                                                               *)

(* What IndicesInBounds says of a label.                                    *)
Fits(label) ==
  /\ label = "store_direct" => fr.n < Len(fr.content) /\ fr.n < NDirect
  /\ label = "pointer" => fr.n >= NDirect
  /\ label = "store_pointer" => /\ fr.n < Len(fr.content)
                                /\ fr.n - NDirect \in 0 .. NIndirect - 1

Loops == {"store_direct", "pointer", "store_pointer"}
Meta == {"superblock", "bgdt"}

(* A step to a label outside the loops and the writes of the counters keeps
   the bounds, and so does one to a label that fits.                        *)
LEMMA BoundsAt ==
  ASSUME \/ pc' \notin Loops \cup Meta
         \/ pc' \notin Meta /\ Fits(pc)'
         \/ pc' \in Meta /\ Fits(fr.back)'
  PROVE  IndicesInBounds'
  BY DEF IndicesInBounds, Reaching, Fits, Loops, Meta

(* Where the call is, or goes on to, fits.                                  *)
LEMMA BoundsFit ==
  ASSUME IndicesInBounds
  PROVE  Fits(pc) /\ (pc \in Meta => Fits(fr.back))
  BY DEF IndicesInBounds, Reaching, Fits, Meta

(* Counting keeps the types of the cached superblock and descriptor.        *)
LEMMA CountTypes ==
  ASSUME TypeOK, NEW by \in Int, CountBlocks(by) \/ CountInodes(by)
  PROVE  sb' \in Super /\ bgd' \in Group /\ initialized' \in BOOLEAN
  <1>1. initialized' \in BOOLEAN
    BY DEF CountBlocks, CountInodes, TypeOK
  <1>2. CASE CountBlocks(by)
    BY <1>1, <1>2 DEF CountBlocks, TypeOK, Super, Group
  <1>3. CASE CountInodes(by)
    BY <1>1, <1>3 DEF CountInodes, TypeOK, Super, Group
  <1>. QED  BY <1>2, <1>3

(* A call that returns keeps the invariant if the disk and the driver's
   variables keep their types.                                              *)
LEMMA ReturnInv ==
  ASSUME Inv, NEW code \in Codes, Return(code), blk' \in [Blocks -> Content],
         UNCHANGED <<signature, superblock, bgdt, block_bitmap, inode_bitmap,
                     inode_table, mem, crashes>>
  PROVE  Inv'
  <1>1. pc' \in Labels /\ fr' \in Frame /\ ret' \in Codes \cup {NoCode}
    BY FreshTypes DEF Return, Labels
  <1>2. TypeOK'
    BY <1>1 DEF Inv, TypeOK, mem
  <1>3. IndicesInBounds'
    BY BoundsAt DEF Return, Loops, Meta
  <1>. QED  BY <1>2, <1>3 DEF Inv

(* allocate_block keeps the invariant if both places it may go on at fit.   *)
LEMMA AllocateBlockInv ==
  ASSUME Inv, NEW ok \in Labels \ Meta, NEW full \in Labels \ Meta,
         Fits(ok), Fits(full), allocate_block(ok, full), UNCHANGED crashes
  PROVE  Inv'
  <1>1. CASE NoBlock /\ Goto(full) /\ UNCHANGED <<disk, mem, fr>>
    <2>1. TypeOK'
      BY <1>1 DEF Inv, TypeOK, Goto, disk, mem
    <2>2. Fits(pc)' /\ pc' \notin Meta
      BY <1>1 DEF Goto, Fits
    <2>. QED  BY <2>1, <2>2, BoundsAt DEF Inv
  <1>2. CASE ~(NoBlock /\ Goto(full) /\ UNCHANGED <<disk, mem, fr>>)
    <2>1. PICK b \in FreeBlocks :
            /\ block_bitmap' = block_bitmap \cup {b}
            /\ CountBlocks(-1)
            /\ fr' = [fr EXCEPT !.got = b, !.back = IF b = 0 THEN full ELSE ok]
            /\ Goto("superblock")
            /\ UNCHANGED <<signature, superblock, bgdt, inode_bitmap,
                           inode_table, blk>>
      BY <1>2 DEF allocate_block
    <2>2. b \in Blocks
      BY DEF FreeBlocks
    <2>3. block_bitmap' \subseteq Blocks
      BY <2>1, <2>2 DEF Inv, TypeOK
    <2>4. sb' \in Super /\ bgd' \in Group /\ initialized' \in BOOLEAN
      BY <2>1, CountTypes DEF Inv
    <2>5. fr' \in Frame
      <3>1. (IF b = 0 THEN full ELSE ok) \in Labels
        OBVIOUS
      <3>. QED  BY <2>1, <2>2, <3>1 DEF Inv, TypeOK, Frame
    <2>6. pc' \in Labels /\ ret' = ret
      BY <2>1 DEF Goto, Labels
    <2>7. TypeOK'
      BY <2>1, <2>3, <2>4, <2>5, <2>6 DEF Inv, TypeOK
    <2>8. /\ fr'.back \in {ok, full} /\ fr'.n = fr.n /\ fr'.content = fr.content
      BY <2>1 DEF Inv, TypeOK, Frame
    <2>9. Fits(fr.back)' /\ pc' \in Meta
      BY <2>1, <2>8 DEF Goto, Meta, Fits
    <2>. QED  BY <2>7, <2>9, BoundsAt DEF Inv
  <1>. QED  BY <1>1, <1>2

(* The writes of the counters, and booting, keep the invariant.             *)
LEMMA BootInv ==
  ASSUME Inv, WriteSuperblock \/ WriteBgdt \/ Boot \/ Mkfs
  PROVE  Inv'
  <1>1. CASE WriteSuperblock
    <2>1. TypeOK'
      BY <1>1 DEF WriteSuperblock, Goto, Inv, TypeOK, mem, Labels
    <2>2. Fits(fr.back)' /\ pc' \in Meta
      BY <1>1, BoundsFit DEF WriteSuperblock, Goto, Inv, Fits, Meta
    <2>. QED  BY <2>1, <2>2, BoundsAt DEF Inv
  <1>2. CASE WriteBgdt
    <2>1. fr.back \in Labels
      BY FrameParts DEF Inv
    <2>2. TypeOK'
      BY <1>2, <2>1 DEF WriteBgdt, Goto, Inv, TypeOK, mem
    <2>3. Fits(fr.back)' /\ Fits(pc)'
      BY <1>2, BoundsFit DEF WriteBgdt, Goto, Inv, Fits, Meta
    <2>. QED  BY <2>2, <2>3, BoundsAt DEF Inv
  <1>3. CASE Boot
    <2>1. superblock.magic \in BOOLEAN
      BY DEF Inv, TypeOK, Super
    <2>2. /\ sb' \in Super /\ bgd' \in Group /\ initialized' \in BOOLEAN
          /\ signature' \in BOOLEAN
      BY <1>3, <2>1 DEF Boot, Inv, TypeOK, mem
    <2>3. TypeOK'
      BY <1>3, <2>2 DEF Boot, Goto, Inv, TypeOK, Labels
    <2>4. pc' \notin Loops \cup Meta
      BY <1>3 DEF Boot, Goto, Loops, Meta
    <2>. QED  BY <2>3, <2>4, BoundsAt DEF Inv
  <1>4. CASE Mkfs
    <2>. USE DEF Inv, TypeOK, Goto, Labels, mem
    <2>1. CASE MkfsSuperblock
      BY <2>1, FreshTypes, BoundsAt DEF MkfsSuperblock, Loops, Meta
    <2>2. CASE MkfsBgdt
      BY <2>2, FreshTypes, BoundsAt DEF MkfsBgdt, Loops, Meta
    <2>3. CASE MkfsBlockBitmap
      BY <2>3, FreshTypes, BoundsAt DEF MkfsBlockBitmap, Loops, Meta
    <2>4. CASE MkfsInodeBitmap
      BY <2>4, FreshTypes, BoundsAt DEF MkfsInodeBitmap, Loops, Meta
    <2>5. CASE MkfsTable
      BY <2>5, FreshTypes, BoundsAt DEF MkfsTable, Loops, Meta
    <2>6. CASE MkfsRoot
      BY <2>6, InodeTypes, BoundsAt DEF MkfsRoot, Loops, Meta
    <2>7. CASE MkfsRootDir
      <3>1. DirBlock(DotEntries(ROOT_INODE_NO, ROOT_INODE_NO)) \in Content
        BY DotsType, LayoutFacts, ContentTypes
      <3>2. blk' \in [Blocks -> Content]
        BY <2>7, <3>1 DEF MkfsRootDir
      <3>. QED  BY <2>7, <3>2, BoundsAt DEF MkfsRootDir, Loops, Meta
    <2>. QED  BY <1>4, <2>1, <2>2, <2>3, <2>4, <2>5, <2>6, <2>7 DEF Mkfs
  <1>. QED  BY <1>1, <1>2, <1>3, <1>4

(* A request has the type of the locals.                                    *)
LEMMA RequestType ==
  ASSUME NEW op \in {"write", "delete"}, NEW parent \in Inodes \cup {0},
         NEW name \in Names \cup Dots, NEW dir \in BOOLEAN,
         NEW content \in Seq(Chunks)
  PROVE  /\ Request(op, parent, name, dir, content) \in Frame
         /\ Request(op, parent, name, dir, content).op = op
  <1>1. NoFrame \in Frame
    BY FreshTypes
  <1>. QED  BY <1>1 DEF Request, Frame

(* Calls, and the loss of memory, keep the invariant.                       *)
LEMMA CallInv ==
  ASSUME Inv, CallWrite \/ CallDelete \/ Crash
  PROVE  Inv'
  <1>1. ASSUME NEW frame \in Frame, frame.op \in {"write", "delete"}, Call(frame)
        PROVE  Inv'
    <2>1. pc' \in Labels /\ fr' \in Frame /\ ret' \in Codes \cup {NoCode}
      BY <1>1 DEF Call, Labels
    <2>2. TypeOK'
      BY <1>1, <2>1 DEF Call, Inv, TypeOK, disk, mem
    <2>3. pc' \notin Loops \cup Meta
      BY <1>1 DEF Call, Loops, Meta
    <2>. QED  BY <2>2, <2>3, BoundsAt DEF Inv
  <1>2. LinkedDirs \cup {0} \subseteq Inodes \cup {0}
    BY DEF LinkedDirs
  <1>3. <<>> \in Seq(Chunks) /\ Contents \subseteq Seq(Chunks) /\ DeleteNames \subseteq Names \cup Dots
    BY Ext2Assumption
  <1>4. CASE CallWrite
    <2>1. PICK parent \in LinkedDirs \cup {0}, name \in Names :
            \/ \E c \in Contents : Call(Request("write", parent, name, FALSE, c))
            \/ Call(Request("write", parent, name, TRUE, <<>>))
      BY <1>4 DEF CallWrite
    <2>2. CASE \E c \in Contents : Call(Request("write", parent, name, FALSE, c))
      <3>1. PICK c \in Contents : Call(Request("write", parent, name, FALSE, c))
        BY <2>2
      <3>2. c \in Seq(Chunks) /\ parent \in Inodes \cup {0} /\ name \in Names \cup Dots
        BY <1>2, <1>3
      <3>3. /\ Request("write", parent, name, FALSE, c) \in Frame
            /\ Request("write", parent, name, FALSE, c).op = "write"
        BY <3>2, RequestType
      <3>. QED  BY <3>1, <3>3, <1>1
    <2>3. CASE Call(Request("write", parent, name, TRUE, <<>>))
      <3>1. /\ Request("write", parent, name, TRUE, <<>>) \in Frame
            /\ Request("write", parent, name, TRUE, <<>>).op = "write"
        BY <1>2, <1>3, RequestType
      <3>. QED  BY <2>3, <3>1, <1>1
    <2>. QED  BY <2>1, <2>2, <2>3
  <1>5. CASE CallDelete
    <2>1. PICK parent \in LinkedDirs \cup {0}, name \in DeleteNames, dir \in BOOLEAN :
            Call(Request("delete", parent, name, dir, <<>>))
      BY <1>5 DEF CallDelete
    <2>2. /\ Request("delete", parent, name, dir, <<>>) \in Frame
          /\ Request("delete", parent, name, dir, <<>>).op = "delete"
      BY <1>2, <1>3, RequestType
    <2>. QED  BY <2>1, <2>2, <1>1
  <1>6. CASE Crash
    <2>1. crashes' \in 0 .. MaxCrashes
      BY <1>6, Ext2Assumption DEF Crash, Inv, TypeOK
    <2>2. pc' \in Labels /\ ret' \in Codes \cup {NoCode}
      BY <1>6 DEF Crash, Labels
    <2>3. initialized' \in BOOLEAN /\ sb' \in Super /\ bgd' \in Group /\ fr' \in Frame
      BY <1>6, FreshTypes DEF Crash
    <2>4. TypeOK'
      BY <1>6, <2>1, <2>2, <2>3 DEF Crash, Inv, TypeOK, disk
    <2>5. pc' \notin Loops \cup Meta
      BY <1>6 DEF Crash, Loops, Meta
    <2>. QED  BY <2>4, <2>5, BoundsAt DEF Inv
  <1>. QED  BY <1>4, <1>5, <1>6

(* The building of a file or directory up to its inode keeps the invariant. *)
LEMMA BuildInv ==
  ASSUME Inv, \/ WriteRefused \/ AllocateNode \/ DirectBlock \/ StoreDirect
              \/ IndirectBlock \/ IndirectTable \/ PointerBlock \/ StorePointer
              \/ WriteTable \/ DirectoryBlock \/ WriteDots \/ WriteInode
  PROVE  Inv'
  <1>0. TypeOK /\ IndicesInBounds
    BY DEF Inv
  <1>1. CASE WriteRefused
    <2>1. PICK code \in Codes : Return(code)
      BY <1>1 DEF WriteRefused, Codes
    <2>2. UNCHANGED <<disk, mem, crashes>>
      BY <1>1 DEF WriteRefused
    <2>3. blk' \in [Blocks -> Content]
      BY <1>0, <2>2 DEF TypeOK, disk
    <2>. QED  BY <2>1, <2>2, <2>3, ReturnInv DEF disk
  <1>2. CASE AllocateNode
    <2>1. PICK i \in FreeInodes :
            /\ inode_bitmap' = inode_bitmap \cup {i}
            /\ fr' = [fr EXCEPT
                   !.inum = i,
                   !.node.mode = IF fr.dir THEN "dir" ELSE "file",
                   !.node.size = IF fr.dir THEN 0 ELSE Len(fr.content),
                   !.back = IF fr.dir THEN "dir" ELSE "direct"]
      BY <1>2 DEF AllocateNode
    <2>2. i \in Inodes /\ inode_bitmap' \subseteq Inodes
      BY <1>0, <2>1 DEF FreeInodes, TypeOK
    <2>3. fr' \in Frame
      <3>1. /\ (IF fr.dir THEN 0 ELSE Len(fr.content)) \in Nat
            /\ (IF fr.dir THEN "dir" ELSE "direct") \in Labels
            /\ (IF fr.dir THEN "dir" ELSE "file") \in {"none", "file", "dir"}
        BY <1>0, FrameParts DEF Labels
      <3>2. [fr.node EXCEPT !.mode = IF fr.dir THEN "dir" ELSE "file",
                            !.size = IF fr.dir THEN 0 ELSE Len(fr.content)] \in Inode
        BY <1>0, <3>1, FrameParts DEF Inode
      <3>. QED  BY <1>0, <2>1, <2>2, <3>1, <3>2 DEF TypeOK, Frame
    <2>4. sb' \in Super /\ bgd' \in Group /\ initialized' \in BOOLEAN
      <3>1. CountInodes(-1)
        BY <1>2 DEF AllocateNode
      <3>. QED  BY <1>0, <3>1, CountTypes
    <2>5. TypeOK'
      BY <1>0, <1>2, <2>2, <2>3, <2>4 DEF AllocateNode, Goto, TypeOK, Labels
    <2>6. fr'.back \in {"dir", "direct"}
      BY <1>0, <2>1 DEF TypeOK, Frame
    <2>7. pc' \in Meta /\ Fits(fr.back)'
      BY <1>2, <2>6 DEF AllocateNode, Goto, Meta, Fits
    <2>. QED  BY <2>5, <2>7, BoundsAt DEF Inv
  <1>3. CASE DirectBlock
    <2>1. CASE fr.n < Len(fr.content) /\ fr.n < NDirect
      BY <1>3, <2>1, AllocateBlockInv DEF DirectBlock, Fits, Labels, Meta
    <2>2. CASE ~(fr.n < Len(fr.content) /\ fr.n < NDirect)
      <3>1. TypeOK'
        BY <1>0, <1>3, <2>2 DEF DirectBlock, Goto, TypeOK, disk, mem, Labels
      <3>. QED  BY <1>3, <2>2, <3>1, BoundsAt DEF DirectBlock, Goto, Loops, Meta, Inv
    <2>. QED  BY <2>1, <2>2
  <1>4. CASE StoreDirect
    <2>1. pc = "store_direct"
      BY <1>4 DEF StoreDirect
    <2>2. fr.n < Len(fr.content) /\ fr.n \in Nat /\ fr.content \in Seq(Chunks)
      BY <1>0, <2>1, FrameParts, BoundsFit DEF Fits
    <2>3. fr.content[fr.n + 1] \in Chunks
      BY <2>2
    <2>4. blk' \in [Blocks -> Content]
      BY <1>0, <1>4, <2>3, ContentTypes DEF StoreDirect, TypeOK
    <2>5. fr' \in Frame
      <3>1. [fr.node EXCEPT !.block[fr.n] = fr.got] \in Inode
        BY <1>0, FrameParts DEF Inode
      <3>2. fr.n + 1 \in Nat
        BY <2>2
      <3>3. fr' = [fr EXCEPT !.node.block[fr.n] = fr.got, !.n = @ + 1]
        BY <1>4 DEF StoreDirect
      <3>. QED  BY <1>0, <3>1, <3>2, <3>3 DEF TypeOK, Frame
    <2>6. TypeOK'
      BY <1>0, <1>4, <2>4, <2>5 DEF StoreDirect, Goto, TypeOK, mem, Labels
    <2>7. pc' \notin Loops \cup Meta
      BY <1>4 DEF StoreDirect, Goto, Loops, Meta
    <2>. QED  BY <2>6, <2>7, BoundsAt DEF Inv
  <1>5. CASE IndirectBlock
    <2>1. CASE Len(fr.content) > NDirect
      BY <1>5, <2>1, AllocateBlockInv DEF IndirectBlock, Fits, Labels, Meta
    <2>2. CASE ~(Len(fr.content) > NDirect)
      <3>1. TypeOK'
        BY <1>0, <1>5, <2>2 DEF IndirectBlock, Goto, TypeOK, disk, mem, Labels
      <3>. QED  BY <1>5, <2>2, <3>1, BoundsAt DEF IndirectBlock, Goto, Loops, Meta, Inv
    <2>. QED  BY <2>1, <2>2
  <1>6. CASE IndirectTable
    <2>1. fr' = [fr EXCEPT !.node.block[NDirect] = fr.got, !.n = NDirect]
      BY <1>6 DEF IndirectTable
    <2>2. [fr.node EXCEPT !.block[NDirect] = fr.got] \in Inode
      BY <1>0, FrameParts DEF Inode
    <2>3. fr' \in Frame /\ fr'.n = NDirect
      BY <1>0, <2>1, <2>2, LayoutFacts DEF TypeOK, Frame
    <2>4. TypeOK'
      BY <1>0, <1>6, <2>3 DEF IndirectTable, Goto, TypeOK, disk, mem, Labels
    <2>5. pc' \notin Meta /\ Fits(pc)'
      BY <1>6, <2>3, LayoutFacts DEF IndirectTable, Goto, Meta, Fits
    <2>. QED  BY <2>4, <2>5, BoundsAt DEF Inv
  <1>7. CASE PointerBlock
    <2>1. fr.n >= NDirect /\ fr.n \in Nat
      BY <1>0, <1>7, BoundsFit, FrameParts DEF PointerBlock, Fits
    <2>2. CASE fr.n < Len(fr.content) /\ fr.n - NDirect < NIndirect
      <3>1. fr.n - NDirect \in 0 .. NIndirect - 1
        BY <2>1, <2>2, LayoutFacts
      <3>2. Fits("store_pointer") /\ Fits("write_table")
        BY <2>2, <3>1 DEF Fits
      <3>. QED  BY <1>7, <2>2, <3>2, AllocateBlockInv DEF PointerBlock, Labels, Meta
    <2>3. CASE ~(fr.n < Len(fr.content) /\ fr.n - NDirect < NIndirect)
      <3>1. TypeOK'
        BY <1>0, <1>7, <2>3 DEF PointerBlock, Goto, TypeOK, disk, mem, Labels
      <3>. QED  BY <1>7, <2>3, <3>1, BoundsAt DEF PointerBlock, Goto, Loops, Meta, Inv
    <2>. QED  BY <2>2, <2>3
  <1>8. CASE StorePointer
    <2>1. pc = "store_pointer"
      BY <1>8 DEF StorePointer
    <2>2. /\ fr.n < Len(fr.content) /\ fr.n \in Nat /\ fr.content \in Seq(Chunks)
          /\ fr.n - NDirect \in 0 .. NIndirect - 1
      BY <1>0, <2>1, FrameParts, BoundsFit DEF Fits
    <2>3. fr.content[fr.n + 1] \in Chunks
      BY <2>2
    <2>4. blk' \in [Blocks -> Content]
      BY <1>0, <1>8, <2>3, ContentTypes DEF StorePointer, TypeOK
    <2>5. fr' = [fr EXCEPT !.ptr[fr.n - NDirect] = fr.got, !.n = @ + 1]
      BY <1>8 DEF StorePointer
    <2>6. [fr.ptr EXCEPT ![fr.n - NDirect] = fr.got] \in [0 .. NIndirect - 1 -> Blocks]
      BY <1>0, FrameParts
    <2>7. fr' \in Frame /\ fr'.n = fr.n + 1
      <3>1. fr \in Frame /\ fr.n + 1 \in Nat
        BY <1>0, <2>2 DEF TypeOK
      <3>2. fr' = [fr EXCEPT !.ptr = [fr.ptr EXCEPT ![fr.n - NDirect] = fr.got],
                             !.n = fr.n + 1]
        BY <2>5
      <3>. QED  BY <2>6, <3>1, <3>2 DEF Frame
    <2>8. TypeOK'
      BY <1>0, <1>8, <2>4, <2>7 DEF StorePointer, Goto, TypeOK, mem, Labels
    <2>9. pc' \notin Meta /\ Fits(pc)'
      BY <1>8, <2>2, <2>7, LayoutFacts DEF StorePointer, Goto, Meta, Fits
    <2>. QED  BY <2>8, <2>9, BoundsAt DEF Inv
  <1>9. CASE WriteTable
    <2>0. TableBlock(fr.ptr) \in Content
      BY <1>0, FrameParts, ContentTypes
    <2>1. blk' \in [Blocks -> Content]
      BY <1>0, <1>9, <2>0 DEF WriteTable, TypeOK
    <2>2. TypeOK'
      BY <1>0, <1>9, <2>1 DEF WriteTable, Goto, TypeOK, mem, Labels
    <2>. QED  BY <1>9, <2>2, BoundsAt DEF WriteTable, Goto, Loops, Meta, Inv
  <1>10. CASE DirectoryBlock
    BY <1>10, AllocateBlockInv DEF DirectoryBlock, Fits, Labels, Meta
  <1>11. CASE WriteDots
    <2>1. DirBlock(DotEntries(fr.inum, fr.parent)) \in Content
      BY <1>0, FrameParts, DotsType, ContentTypes
    <2>2. blk' \in [Blocks -> Content]
      BY <1>0, <1>11, <2>1 DEF WriteDots, TypeOK
    <2>3. fr' = [fr EXCEPT !.node.block[0] = fr.got, !.node.size = 1]
      BY <1>11 DEF WriteDots
    <2>4. [fr.node EXCEPT !.block[0] = fr.got, !.size = 1] \in Inode
      BY <1>0, FrameParts DEF Inode
    <2>5. fr' \in Frame
      BY <1>0, <2>3, <2>4 DEF TypeOK, Frame
    <2>6. TypeOK'
      BY <1>0, <1>11, <2>2, <2>5 DEF WriteDots, Goto, TypeOK, mem, Labels
    <2>. QED  BY <1>11, <2>6, BoundsAt DEF WriteDots, Goto, Loops, Meta, Inv
  <1>12. CASE WriteInode
    <2>1. inode_table' \in [Inodes -> Inode]
      BY <1>0, <1>12, FrameParts DEF WriteInode, TypeOK
    <2>2. TypeOK'
      BY <1>0, <1>12, <2>1 DEF WriteInode, Goto, TypeOK, mem, Labels
    <2>. QED  BY <1>12, <2>2, BoundsAt DEF WriteInode, Goto, Loops, Meta, Inv
  <1>. QED  BY <1>1, <1>2, <1>3, <1>4, <1>5, <1>6, <1>7, <1>8, <1>9, <1>10,
               <1>11, <1>12

(* Naming the new inode keeps the invariant, and so does running out of room. *)
LEMMA EntryInv ==
  ASSUME Inv, AddEntry \/ GrowDirectory \/ GrowInode \/ GrowBlock \/ NoEntry
  PROVE  Inv'
  <1>0. TypeOK /\ FrType \in {"file", "dir"} /\ blk \in [Blocks -> Content]
    BY DEF Inv, FrType, TypeOK
  <1>1. CASE AddEntry
    <2>1. PICK s \in First(Rooms(fr.parent, fr.name)) :
            blk' = [blk EXCEPT ![inode_table[fr.parent].block[s[1]]] =
                      DirBlock(InsertEntry(Ents(inode_table[fr.parent].block[s[1]]),
                                           s[2], fr.inum, fr.name, FrType))]
      BY <1>1 DEF AddEntry
    <2>. DEFINE b == inode_table[fr.parent].block[s[1]]
    <2>2. s \in Slots(fr.parent) /\ HasRoom(Ents(b), s[2], fr.name)
      BY DEF First, Rooms, DirEnts
    <2>3. s[2] \in DOMAIN Ents(b)
      BY <1>0, <2>2, SlotParts
    <2>4. blk' \in [Blocks -> Content]
      <3>. HIDE DEF b
      <3>1. CASE b \in Blocks
        <4>1. Ents(b) \in Seq(Entry)
          BY <1>0, <3>1, DiskParts
        <4>2. fr.inum \in Inodes \cup {0} /\ fr.name \in Names \cup Dots
          BY <1>0, FrameParts
        <4>3. InsertEntry(Ents(b), s[2], fr.inum, fr.name, FrType) \in Seq(Entry)
          BY <1>0, <2>2, <2>3, <4>1, <4>2, InsertType
        <4>4. DirBlock(InsertEntry(Ents(b), s[2], fr.inum, fr.name, FrType)) \in Content
          BY <4>3, ContentTypes
        <4>. QED  BY <1>0, <2>1, <4>4 DEF b
      <3>2. CASE b \notin Blocks
        BY <1>0, <2>1, <3>2 DEF b
      <3>. QED  BY <3>1, <3>2
    <2>. QED  BY <1>1, <2>4, ReturnInv DEF AddEntry, Codes
  <1>2. CASE GrowDirectory
    BY <1>2, AllocateBlockInv DEF GrowDirectory, Fits, Labels, Meta
  <1>3. CASE GrowInode
    <2>. DEFINE c == Cardinality(DirBlocks(fr.parent))
    <2>1. inode_table' = [inode_table EXCEPT ![fr.parent].block[c] = fr.got,
                                             ![fr.parent].size = @ + 1]
      BY <1>3 DEF GrowInode
    <2>. HIDE DEF c
    <2>2. inode_table' \in [Inodes -> Inode]
      <3>1. CASE fr.parent \in Inodes
        <4>. DEFINE node == inode_table[fr.parent]
        <4>1. node \in Inode /\ fr.got \in Blocks
          BY <1>0, <3>1, DiskParts, FrameParts
        <4>2. [node EXCEPT !.block[c] = fr.got, !.size = @ + 1] \in Inode
          <5>0. node.size \in Nat /\ node.block \in [0 .. NDirect -> Blocks]
            BY <4>1 DEF Inode
          <5>. HIDE DEF node
          <5>1. node.size + 1 \in Nat
            BY <5>0
          <5>2. [node.block EXCEPT ![c] = fr.got] \in [0 .. NDirect -> Blocks]
            BY <4>1, <5>0, Zenon
          <5>3. [node EXCEPT !.block[c] = fr.got, !.size = @ + 1]
                  = [node EXCEPT !.block = [node.block EXCEPT ![c] = fr.got],
                                 !.size = node.size + 1]
            OBVIOUS
          <5>. QED  BY <4>1, <5>1, <5>2, <5>3 DEF Inode
        <4>3. inode_table' =
                [inode_table EXCEPT ![fr.parent] =
                   [node EXCEPT !.block[c] = fr.got, !.size = @ + 1]]
          BY <1>0, <2>1, <3>1 DEF TypeOK
        <4>. QED  BY <1>0, <4>2, <4>3 DEF TypeOK
      <3>2. CASE fr.parent \notin Inodes
        <4>1. inode_table' = inode_table
          BY <1>0, <2>1, <3>2 DEF TypeOK
        <4>. QED  BY <1>0, <4>1 DEF TypeOK
      <3>. QED  BY <3>1, <3>2
    <2>3. TypeOK'
      BY <1>0, <1>3, <2>2 DEF GrowInode, Goto, TypeOK, mem, Labels
    <2>. QED  BY <1>3, <2>3, BoundsAt DEF GrowInode, Goto, Loops, Meta, Inv
  <1>4. CASE GrowBlock
    <2>. DEFINE ents == <<NewEntry(fr.inum, fr.name, FrType, BLOCK_SIZE)>>
    <2>1. ents \in Seq(Entry)
      <3>1. NewEntry(fr.inum, fr.name, FrType, BLOCK_SIZE) \in Entry
        BY <1>0, FrameParts, LayoutFacts DEF NewEntry, Entry
      <3>. QED  BY <3>1
    <2>2. blk' = [blk EXCEPT ![fr.got] = DirBlock(ents)]
      BY <1>4 DEF GrowBlock
    <2>. HIDE DEF ents
    <2>3. blk' \in [Blocks -> Content]
      BY <1>0, <2>1, <2>2, ContentTypes
    <2>. QED  BY <1>4, <2>3, ReturnInv DEF GrowBlock, Codes
  <1>5. CASE NoEntry
    BY <1>0, <1>5, ReturnInv DEF NoEntry, Codes, disk
  <1>. QED  BY <1>1, <1>2, <1>3, <1>4, <1>5

(* delete keeps the invariant.                                              *)
LEMMA DeleteInv ==
  ASSUME Inv, Delete
  PROVE  Inv'
  <1>0. TypeOK /\ blk \in [Blocks -> Content]
    BY DEF Inv, TypeOK
  <1>1. CASE DeleteRefused
    <2>1. PICK code \in Codes : Return(code)
      BY <1>1 DEF DeleteRefused, Codes
    <2>2. UNCHANGED <<disk, mem, crashes>>
      BY <1>1 DEF DeleteRefused
    <2>. QED  BY <1>0, <2>1, <2>2, ReturnInv DEF disk
  <1>2. CASE Unlink
    <2>1. PICK s \in First(find_entry_in_dir(fr.parent, fr.name)) :
            /\ blk' = [blk EXCEPT ![inode_table[fr.parent].block[s[1]]] =
                 DirBlock(RemoveEntry(Ents(inode_table[fr.parent].block[s[1]]), s[2]))]
            /\ fr' = [fr EXCEPT !.inum = Target(s),
                                !.todo = BlocksOf(inode_table[Target(s)])]
      BY <1>2 DEF Unlink
    <2>. DEFINE b == inode_table[fr.parent].block[s[1]]
    <2>2. fr.parent \in Inodes
      BY <1>0, <1>2, FrameParts DEF Unlink
    <2>3. s \in Slots(fr.parent) /\ At(fr.parent, s).inode # 0
      BY DEF First, find_entry_in_dir
    <2>4. Target(s) \in Inodes
      <3>1. At(fr.parent, s) \in Entry
        BY <1>0, <2>2, <2>3, AtType
      <3>. QED  BY <2>3, <3>1 DEF Target, Entry
    <2>5. blk' \in [Blocks -> Content]
      <3>1. s[1] \in 0 .. NDirect - 1 /\ s[2] \in DOMAIN Ents(b)
        BY <1>0, <2>3, SlotParts
      <3>2. b \in Blocks
        BY <1>0, <2>2, <3>1, DiskParts, LayoutFacts
      <3>3. Ents(b) \in Seq(Entry)
        BY <1>0, <3>2, DiskParts
      <3>. HIDE DEF b
      <3>4. DirBlock(RemoveEntry(Ents(b), s[2])) \in Content
        BY <3>1, <3>3, RemoveType, ContentTypes
      <3>. QED  BY <1>0, <2>1, <3>4 DEF b
    <2>6. fr' \in Frame
      <3>1. BlocksOf(inode_table[Target(s)]) \in Seq(Blocks)
        BY <1>0, <2>4, DiskParts, BlocksOfType
      <3>. QED  BY <1>0, <2>1, <2>4, <3>1 DEF TypeOK, Frame
    <2>7. TypeOK'
      BY <1>0, <1>2, <2>5, <2>6 DEF Unlink, Goto, TypeOK, mem, Labels
    <2>. QED  BY <1>2, <2>7, BoundsAt DEF Unlink, Goto, Loops, Meta, Inv
  <1>3. CASE FreeBlock
    <2>1. fr.todo \in Seq(Blocks) /\ fr.todo # <<>>
      BY <1>0, <1>3, FrameParts DEF FreeBlock
    <2>2. Head(fr.todo) \in Blocks /\ Tail(fr.todo) \in Seq(Blocks)
      BY <2>1
    <2>3. CASE Head(fr.todo) # 0 /\ Head(fr.todo) \in block_bitmap
      <3>1. /\ block_bitmap' = block_bitmap \ {Head(fr.todo)}
            /\ blk' = [blk EXCEPT ![Head(fr.todo)] = Stale]
            /\ fr' = [fr EXCEPT !.todo = Tail(@), !.back = "free"]
            /\ Goto("superblock")
        BY <1>3, <2>3 DEF FreeBlock
      <3>2. CountBlocks(1)
        BY <1>3, <2>3 DEF FreeBlock
      <3>3. sb' \in Super /\ bgd' \in Group /\ initialized' \in BOOLEAN
        BY <1>0, <3>2, CountTypes
      <3>4. blk' \in [Blocks -> Content] /\ block_bitmap' \subseteq Blocks
        BY <1>0, <3>1, ContentTypes DEF TypeOK
      <3>5. fr' \in Frame /\ fr'.back = "free"
        BY <1>0, <2>2, <3>1 DEF TypeOK, Frame, Labels
      <3>6. TypeOK'
        BY <1>0, <1>3, <3>1, <3>3, <3>4, <3>5 DEF FreeBlock, Goto, TypeOK, Labels
      <3>7. pc' \in Meta /\ Fits(fr.back)'
        BY <3>1, <3>5 DEF Goto, Meta, Fits
      <3>. QED  BY <3>6, <3>7, BoundsAt DEF Inv
    <2>4. CASE ~(Head(fr.todo) # 0 /\ Head(fr.todo) \in block_bitmap)
      <3>1. /\ fr' = [fr EXCEPT !.todo = Tail(@)]
            /\ UNCHANGED <<block_bitmap, blk, mem, pc, ret>>
        BY <1>3, <2>4 DEF FreeBlock
      <3>2. fr' \in Frame
        BY <1>0, <2>2, <3>1 DEF TypeOK, Frame
      <3>3. TypeOK'
        BY <1>0, <1>3, <3>1, <3>2 DEF FreeBlock, TypeOK, mem
      <3>4. pc' \notin Loops \cup Meta
        BY <1>3, <3>1 DEF FreeBlock, Loops, Meta
      <3>. QED  BY <3>3, <3>4, BoundsAt DEF Inv
    <2>. QED  BY <2>3, <2>4
  <1>4. CASE ClearInode
    <2>1. inode_table' \in [Inodes -> Inode]
      BY <1>0, <1>4, InodeTypes DEF ClearInode, TypeOK
    <2>2. TypeOK'
      BY <1>0, <1>4, <2>1 DEF ClearInode, Goto, TypeOK, mem, Labels
    <2>. QED  BY <1>4, <2>2, BoundsAt DEF ClearInode, Goto, Loops, Meta, Inv
  <1>5. CASE ClearNode
    <2>1. CountInodes(1)
      BY <1>5 DEF ClearNode
    <2>2. sb' \in Super /\ bgd' \in Group /\ initialized' \in BOOLEAN
      BY <1>0, <2>1, CountTypes
    <2>3. fr' \in Frame /\ fr'.back = "done"
      BY <1>0, <1>5 DEF ClearNode, TypeOK, Frame, Labels
    <2>4. TypeOK'
      BY <1>0, <1>5, <2>2, <2>3 DEF ClearNode, Goto, TypeOK, Labels
    <2>5. pc' \in Meta /\ Fits(fr.back)'
      BY <1>5, <2>3 DEF ClearNode, Goto, Meta, Fits
    <2>. QED  BY <2>4, <2>5, BoundsAt DEF Inv
  <1>6. CASE DeleteDone
    BY <1>0, <1>6, ReturnInv DEF DeleteDone, Codes, disk
  <1>. QED  BY <1>1, <1>2, <1>3, <1>4, <1>5, <1>6 DEF Delete

-----------------------------------------------------------------------------
(* Every step keeps the invariant.                                          *)
LEMMA StepInv == Inv /\ [Next]_vars => Inv'
  <1>. SUFFICES ASSUME Inv, [Next]_vars PROVE Inv'
    OBVIOUS
  <1>1. CASE Write
    BY <1>1, BuildInv, EntryInv DEF Write
  <1>2. CASE Step
    BY <1>1, <1>2, BootInv, DeleteInv DEF Step
  <1>3. CASE CallWrite \/ CallDelete \/ Crash
    BY <1>3, CallInv
  <1>4. CASE UNCHANGED vars
    BY <1>4 DEF Inv, TypeOK, IndicesInBounds, Reaching, vars, disk, mem
  <1>. QED  BY <1>2, <1>3, <1>4 DEF Next

(* For every geometry, set of names and set of contents, and with power
   failures between any two block writes: the disk and the driver's variables
   keep their types, so every block and inode number the driver follows, every
   record it reads as a directory entry and every pointer it frees is one, and
   the loops of write stay inside i_block, the indirect table and the caller's
   buffer.                                                                  *)
THEOREM DriverStaysInBounds == Spec => [](TypeOK /\ IndicesInBounds)
  <1>1. Inv /\ [Next]_vars => Inv'
    BY StepInv
  <1>2. Inv <=> TypeOK /\ IndicesInBounds
    BY DEF Inv
  <1>. QED  BY <1>1, <1>2, InitInv, PTL DEF Spec

-----------------------------------------------------------------------------
(* Numbers: induction by sets, which the provers can instantiate.           *)

(* A set of natural numbers that is not empty has a least element.          *)
LEMMA LeastNat ==
  ASSUME NEW T \in SUBSET Nat, T # {}
  PROVE  \E x \in T : \A y \in T : x <= y
  <1>. DEFINE R == {ss \in Nat \X Nat : ss[1] < ss[2]}
  <1>1. IsWellFoundedOn(R, Nat)
    BY NatLessThanWellFounded, Zenon DEF OpToRel
  <1>2. PICK x \in T : \A y \in T : ~(<<y, x>> \in R)
    <2>. HIDE DEF R
    <2>. QED  BY <1>1, WFMin
  <1>3. ASSUME NEW y \in T PROVE x <= y
    <2>1. y \in Nat /\ x \in Nat
      OBVIOUS
    <2>2. <<y, x>> \in Nat \X Nat /\ <<y, x>>[1] = y /\ <<y, x>>[2] = x
      BY <2>1
    <2>3. y < x => <<y, x>> \in R
      BY <2>2
    <2>4. ~(y < x)
      BY <1>2, <2>3, Zenon
    <2>. QED  BY <2>1, <2>4
  <1>. QED  BY <1>3

(* Induction: a set that holds 0 and with every number the next one holds all
   of them.                                                                 *)
LEMMA SetInduction ==
  ASSUME NEW S, 0 \in S, \A n \in Nat : n \in S => n + 1 \in S
  PROVE  \A n \in Nat : n \in S
  <1>. SUFFICES ASSUME Nat \ S # {} PROVE FALSE
    OBVIOUS
  <1>1. PICK x \in Nat \ S : \A y \in Nat \ S : x <= y
    BY LeastNat
  <1>2. x # 0 /\ x - 1 \in Nat /\ x - 1 \notin Nat \ S
    BY <1>1
  <1>. QED  BY <1>2

(* A function can be iterated.                                              *)
LEMMA Iterate ==
  ASSUME NEW X, NEW x0 \in X, NEW F \in [X -> X]
  PROVE  \E g : g = [k \in Nat |-> IF k = 0 THEN x0 ELSE F[g[k - 1]]]
  <1>. DEFINE App(n) == {g \in [0 .. n -> X] :
                           g[0] = x0 /\ \A k \in 1 .. n : g[k] = F[g[k - 1]]}
  <1>1. \A n \in Nat : App(n) # {}
    <2>. DEFINE S == {n \in Nat : App(n) # {}}
    <2>1. 0 \in S
      <3>1. [i \in 0 .. 0 |-> x0] \in App(0)
        OBVIOUS
      <3>. QED  BY <3>1
    <2>2. ASSUME NEW n \in Nat, n \in S PROVE n + 1 \in S
      <3>1. PICK g \in App(n) : TRUE
        BY <2>2
      <3>. DEFINE h == [i \in 0 .. n + 1 |-> IF i <= n THEN g[i] ELSE F[g[n]]]
      <3>2. \A i \in 0 .. n : g[i] \in X
        BY <3>1
      <3>3. F[g[n]] \in X
        BY <3>2
      <3>4. h \in [0 .. n + 1 -> X]
        BY <3>2, <3>3
      <3>5. h[0] = x0
        BY <3>1
      <3>6. ASSUME NEW k \in 1 .. n + 1 PROVE h[k] = F[h[k - 1]]
        <4>1. CASE k <= n
          BY <4>1, <3>1
        <4>2. CASE k = n + 1
          BY <4>2
        <4>. QED  BY <4>1, <4>2
      <3>7. h \in App(n + 1)
        BY <3>4, <3>5, <3>6
      <3>. QED  BY <3>7
    <2>. HIDE DEF S
    <2>3. \A n \in Nat : n \in S
      BY <2>1, <2>2, SetInduction
    <2>. QED  BY <2>3 DEF S
  <1>2. ASSUME NEW n \in Nat, NEW f \in App(n), NEW h \in App(n + 1)
        PROVE  f[n] = h[n]
    <2>. DEFINE S == {k \in Nat : k <= n => f[k] = h[k]}
    <2>1. 0 \in S
      OBVIOUS
    <2>2. ASSUME NEW k \in Nat, k \in S PROVE k + 1 \in S
      <3>1. CASE k + 1 <= n
        <4>1. f[k] = h[k]
          BY <2>2, <3>1
        <4>2. k + 1 \in 1 .. n /\ k + 1 \in 1 .. n + 1 /\ (k + 1) - 1 = k
          BY <3>1
        <4>3. f[k + 1] = F[f[k]] /\ h[k + 1] = F[h[k]]
          BY <4>2
        <4>. QED  BY <4>1, <4>3
      <3>. QED  BY <3>1
    <2>. HIDE DEF S
    <2>3. \A k \in Nat : k \in S
      BY <2>1, <2>2, SetInduction
    <2>. QED  BY <2>3 DEF S
  <1>. DEFINE c(n) == CHOOSE g : g \in App(n)
  <1>3. \A n \in Nat : c(n) \in App(n)
    <2>. HIDE DEF App
    <2>. QED  BY <1>1
  <1>. DEFINE r == [k \in Nat |-> c(k)[k]]
  <1>4. ASSUME NEW k \in Nat PROVE r[k] = IF k = 0 THEN x0 ELSE F[r[k - 1]]
    <2>. HIDE DEF c
    <2>1. r[k] = c(k)[k]
      OBVIOUS
    <2>2. CASE k = 0
      <3>1. c(0)[0] = x0
        BY <1>3
      <3>. QED  BY <2>1, <2>2, <3>1
    <2>3. CASE k # 0
      <3>1. k - 1 \in Nat /\ (k - 1) + 1 = k /\ k \in 1 .. k
        BY <2>3
      <3>2. c(k - 1) \in App(k - 1) /\ c(k) \in App(k)
        BY <1>3, <3>1
      <3>3. c(k - 1)[k - 1] = c(k)[k - 1]
        <4>. HIDE DEF App
        <4>1. c(k) \in App((k - 1) + 1)
          BY <3>1, <3>2
        <4>. QED  BY <1>2, <3>1, <3>2, <4>1
      <3>4. c(k)[k] = F[c(k)[k - 1]]
        BY <3>1, <3>2
      <3>. QED  BY <2>1, <2>3, <3>1, <3>3, <3>4
    <2>. QED  BY <2>2, <2>3
  <1>5. r = [k \in Nat |-> IF k = 0 THEN x0 ELSE F[r[k - 1]]]
    <2>1. r = [k \in Nat |-> r[k]]
      <3>. HIDE DEF c
      <3>. QED  OBVIOUS
    <2>. HIDE DEF r
    <2>. QED  BY <1>4, <2>1
  <1>. QED  BY <1>5

-----------------------------------------------------------------------------
(* The entries say the same, up to the length of the record.                *)
Alike(e, f) == e.inode = f.inode /\ e.name = f.name /\ e.type = f.type

(* What add_entry_to_dir makes of the records of a block: all stay, in their
   order, and the new one follows record k.                                 *)
Inserted(new, ents, k, ino, name, type) ==
  /\ Len(new) = Len(ents) + 1
  /\ DOMAIN new = 1 .. Len(ents) + 1
  /\ \A i \in 1 .. k - 1 : new[i] = ents[i]
  /\ Alike(new[k], ents[k])
  /\ new[k].rec_len = RecLen(ents[k].name)
  /\ new[k + 1] = NewEntry(ino, name, type, ents[k].rec_len - RecLen(ents[k].name))
  /\ \A i \in k + 2 .. Len(ents) + 1 : new[i] = ents[i - 1]

(* InsertEntry has that shape.                                              *)
LEMMA InsertShape ==
  ASSUME NEW ents \in Seq(Entry), NEW k \in DOMAIN ents,
         NEW ino \in Inodes \cup {0}, NEW name \in Names \cup Dots,
         NEW type \in {"file", "dir"}
  PROVE  Inserted(InsertEntry(ents, k, ino, name, type), ents, k, ino, name, type)
  <1>. DEFINE own == RecLen(ents[k].name)
              left == SubSeq(ents, 1, k - 1)
              x == [ents[k] EXCEPT !.rec_len = own]
              y == NewEntry(ino, name, type, ents[k].rec_len - own)
              two == <<x, y>>
              right == SubSeq(ents, k + 1, Len(ents))
  <1>1. Len(ents) \in Nat /\ k \in 1 .. Len(ents)
    OBVIOUS
  <1>2. left \in Seq(Entry) /\ Len(left) = k - 1 /\ \A i \in 1 .. k - 1 : left[i] = ents[i]
    BY <1>1, SubSeqProperties
  <1>3. /\ right \in Seq(Entry) /\ Len(right) = Len(ents) - k
        /\ \A i \in 1 .. Len(ents) - k : right[i] = ents[k + i]
    BY <1>1, SubSeqProperties
  <1>. DEFINE Any == Entry \cup {x, y}
  <1>4. InsertEntry(ents, k, ino, name, type) = left \o two \o right
    BY DEF InsertEntry
  <1>. HIDE DEF left, right, x, y
  <1>5. two \in Seq(Any) /\ Len(two) = 2 /\ two[1] = x /\ two[2] = y
    OBVIOUS
  <1>6. left \in Seq(Any) /\ right \in Seq(Any)
    BY <1>2, <1>3
  <1>. HIDE DEF two, Any
  <1>. DEFINE lt == left \o two
  <1>7. /\ lt \in Seq(Any) /\ Len(lt) = k + 1
        /\ \A i \in 1 .. k - 1 : lt[i] = ents[i]
        /\ lt[k] = x /\ lt[k + 1] = y
    <2>1. lt \in Seq(Any) /\ Len(lt) = Len(left) + Len(two)
      BY <1>5, <1>6, ConcatProperties
    <2>2. \A i \in 1 .. Len(left) + Len(two) :
            lt[i] = IF i <= Len(left) THEN left[i] ELSE two[i - Len(left)]
      BY <1>5, <1>6, ConcatProperties
    <2>3. Len(left) + Len(two) = k + 1
      BY <1>1, <1>2, <1>5
    <2>4. \A i \in 1 .. k - 1 : lt[i] = ents[i]
      BY <1>1, <1>2, <1>5, <2>2
    <2>5. /\ k - Len(left) = 1 /\ (k + 1) - Len(left) = 2
          /\ k \in 1 .. Len(left) + Len(two) /\ k + 1 \in 1 .. Len(left) + Len(two)
          /\ ~(k <= Len(left)) /\ ~(k + 1 <= Len(left))
      BY <1>1, <1>2, <2>3
    <2>. HIDE DEF lt
    <2>6. lt[k] = two[1] /\ lt[k + 1] = two[2]
      BY <2>2, <2>5
    <2>. QED  BY <1>5, <2>1, <2>3, <2>4, <2>6
  <1>. HIDE DEF lt
  <1>. DEFINE all == lt \o right
  <1>14. /\ all \in Seq(Any) /\ Len(all) = Len(lt) + Len(right)
         /\ \A i \in 1 .. Len(lt) + Len(right) :
              all[i] = IF i <= Len(lt) THEN lt[i] ELSE right[i - Len(lt)]
    BY <1>6, <1>7, ConcatProperties
  <1>15. Len(lt) + Len(right) = Len(ents) + 1
    BY <1>1, <1>3, <1>7
  <1>8. all \in Seq(Any) /\ Len(all) = Len(ents) + 1
    BY <1>14, <1>15
  <1>9. \A i \in 1 .. Len(ents) + 1 :
          all[i] = IF i <= k + 1 THEN lt[i] ELSE right[i - (k + 1)]
    BY <1>7, <1>14, <1>15
  <1>10. ASSUME NEW i \in k + 2 .. Len(ents) + 1 PROVE all[i] = ents[i - 1]
    <2>1. i - (k + 1) \in 1 .. Len(ents) - k /\ k + (i - (k + 1)) = i - 1
      BY <1>1
    <2>2. right[i - (k + 1)] = ents[i - 1]
      BY <1>3, <2>1
    <2>3. i \in 1 .. Len(ents) + 1 /\ ~(i <= k + 1)
      BY <1>1
    <2>. QED  BY <1>9, <2>2, <2>3
  <1>11. /\ \A i \in 1 .. k - 1 : all[i] = ents[i]
         /\ all[k] = x /\ all[k + 1] = y
    BY <1>1, <1>7, <1>9
  <1>12. InsertEntry(ents, k, ino, name, type) = all
    BY <1>4 DEF lt
  <1>13. DOMAIN all = 1 .. Len(ents) + 1
    BY <1>8
  <1>16. Alike(x, ents[k]) /\ x.rec_len = own
    <2>1. ents[k] \in Entry
      BY <1>1
    <2>. QED  BY <2>1 DEF x, Entry, Alike
  <1>. HIDE DEF all
  <1>17. Inserted(all, ents, k, ino, name, type)
    BY <1>8, <1>10, <1>11, <1>13, <1>16 DEF y, Inserted
  <1>. QED  BY <1>12, <1>17

(* What remove_entry_from_dir makes of them: the first is only marked unused,
   any other disappears.                                                    *)
LEMMA RemoveShape ==
  ASSUME NEW ents \in Seq(Entry), NEW k \in DOMAIN ents
  PROVE  LET new == RemoveEntry(ents, k)
         IN  IF k = 1
             THEN /\ DOMAIN new = 1 .. Len(ents)
                  /\ new[1].inode = 0 /\ new[1].name = ents[1].name
                  /\ new[1].type = ents[1].type /\ new[1].rec_len = ents[1].rec_len
                  /\ \A i \in 2 .. Len(ents) : new[i] = ents[i]
             ELSE /\ DOMAIN new = 1 .. Len(ents) - 1
                  /\ \A i \in 1 .. k - 2 : new[i] = ents[i]
                  /\ Alike(new[k - 1], ents[k - 1])
                  /\ new[k - 1].rec_len = ents[k - 1].rec_len + ents[k].rec_len
                  /\ \A i \in k .. Len(ents) - 1 : new[i] = ents[i + 1]
  <1>1. Len(ents) \in Nat /\ k \in 1 .. Len(ents)
    OBVIOUS
  <1>2. CASE k = 1
    <2>1. RemoveEntry(ents, k) = [ents EXCEPT ![1].inode = 0]
      BY <1>2 DEF RemoveEntry
    <2>2. ents[1] \in Entry
      BY <1>1, <1>2
    <2>3. /\ [ents[1] EXCEPT !.inode = 0].inode = 0
          /\ [ents[1] EXCEPT !.inode = 0].name = ents[1].name
          /\ [ents[1] EXCEPT !.inode = 0].type = ents[1].type
          /\ [ents[1] EXCEPT !.inode = 0].rec_len = ents[1].rec_len
      BY <2>2 DEF Entry
    <2>4. RemoveEntry(ents, k)[1] = [ents[1] EXCEPT !.inode = 0]
      BY <1>1, <1>2, <2>1
    <2>5. /\ DOMAIN RemoveEntry(ents, k) = 1 .. Len(ents)
          /\ \A i \in 2 .. Len(ents) : RemoveEntry(ents, k)[i] = ents[i]
      BY <1>1, <1>2, <2>1
    <2>. QED  BY <1>2, <2>3, <2>4, <2>5
  <1>3. CASE k # 1
    <2>. DEFINE e(i) == IF i < k - 1 THEN ents[i]
                        ELSE IF i = k - 1
                             THEN [ents[i] EXCEPT !.rec_len = @ + ents[k].rec_len]
                             ELSE ents[i + 1]
    <2>1. RemoveEntry(ents, k) = [i \in 1 .. Len(ents) - 1 |-> e(i)]
      BY <1>3 DEF RemoveEntry
    <2>2. DOMAIN RemoveEntry(ents, k) = 1 .. Len(ents) - 1
      BY <2>1
    <2>3. ASSUME NEW i \in 1 .. k - 2 PROVE RemoveEntry(ents, k)[i] = ents[i]
      BY <1>1, <2>1
    <2>4. RemoveEntry(ents, k)[k - 1] = [ents[k - 1] EXCEPT !.rec_len = @ + ents[k].rec_len]
      <3>1. k - 1 \in 1 .. Len(ents) - 1
        BY <1>1, <1>3
      <3>. QED  BY <2>1, <3>1
    <2>6. /\ Alike(RemoveEntry(ents, k)[k - 1], ents[k - 1])
          /\ RemoveEntry(ents, k)[k - 1].rec_len = ents[k - 1].rec_len + ents[k].rec_len
      <3>1. ents[k - 1] \in Entry
        BY <1>1, <1>3
      <3>. QED  BY <2>4, <3>1 DEF Alike, Entry
    <2>5. ASSUME NEW i \in k .. Len(ents) - 1 PROVE RemoveEntry(ents, k)[i] = ents[i + 1]
      BY <1>1, <2>1
    <2>. QED  BY <1>3, <2>2, <2>3, <2>5, <2>6
  <1>. QED  BY <1>2, <1>3

-----------------------------------------------------------------------------
(* The records tile a block: off[k] is where record k ends.                 *)
Tiles(ents) ==
  \E off \in [0 .. Len(ents) -> Nat] :
    /\ off[0] = 0 /\ off[Len(ents)] = BLOCK_SIZE
    /\ \A k \in 1 .. Len(ents) : /\ off[k] = off[k - 1] + ents[k].rec_len
                                 /\ ents[k].rec_len >= RecLen(ents[k].name)

(* The inductive form of RecordsTile: TLC computes the sum of the lengths by a
   recursive function, a proof is better off with the ends of the records.  *)
TileInv == \A b \in Blocks : blk[b].kind = "dir" => Tiles(blk[b].ents)

(* A record never needs more than a block.                                  *)
LEMMA RecLenFits == \A name \in Names \cup Dots : RecLen(name) <= BLOCK_SIZE
  <1>1. \A n \in Nat : get_entry_record_len(n) <= n + 11
    BY DEF get_entry_record_len
  <1>2. \A name \in Names : NameLen[name] \in Nat /\ NameLen[name] + 11 <= BLOCK_SIZE
    BY LayoutAssumption
  <1>3. BLOCK_SIZE \in Nat /\ BLOCK_SIZE >= 24
    BY LayoutAssumption
  <1>4. ASSUME NEW name \in Names PROVE RecLen(name) <= BLOCK_SIZE
    <2>1. NameLen[name] \in Nat /\ NameLen[name] + 11 <= BLOCK_SIZE
      BY <1>2
    <2>2. RecLen(name) <= NameLen[name] + 11
      BY <1>1, <2>1 DEF RecLen
    <2>3. RecLen(name) \in Nat
      BY RecLenType
    <2>. QED  BY <1>3, <2>1, <2>2, <2>3
  <1>. QED  BY <1>3, <1>4, RecLenType DEF Dots

(* "." and ".." share the block.                                            *)
LEMMA DotsTile == \A self, parent : Tiles(DotEntries(self, parent))
  <1>. SUFFICES ASSUME NEW self, NEW parent PROVE Tiles(DotEntries(self, parent))
    OBVIOUS
  <1>. DEFINE ents == DotEntries(self, parent)
              off == [i \in 0 .. 2 |-> IF i = 0 THEN 0 ELSE IF i = 1 THEN 12 ELSE BLOCK_SIZE]
  <1>1. BLOCK_SIZE \in Nat /\ BLOCK_SIZE >= 24
    BY LayoutAssumption
  <1>2. /\ Len(ents) = 2 /\ ents[1].rec_len = 12 /\ ents[2].rec_len = BLOCK_SIZE - 12
        /\ ents[1].name = "." /\ ents[2].name = ".."
    BY RecLenType DEF DotEntries, NewEntry
  <1>. HIDE DEF ents
  <1>3. off \in [0 .. 2 -> Nat] /\ off[0] = 0 /\ off[1] = 12 /\ off[2] = BLOCK_SIZE
    BY <1>1
  <1>. HIDE DEF off
  <1>4. ASSUME NEW k \in 1 .. 2
        PROVE  off[k] = off[k - 1] + ents[k].rec_len /\ ents[k].rec_len >= RecLen(ents[k].name)
    <2>1. k = 1 \/ k = 2
      OBVIOUS
    <2>2. CASE k = 1
      BY <1>2, <1>3, <2>2, RecLenType
    <2>3. CASE k = 2
      BY <1>1, <1>2, <1>3, <2>3, RecLenType
    <2>. QED  BY <2>1, <2>2, <2>3
  <1>5. Tiles(ents)
    BY <1>2, <1>3, <1>4 DEF Tiles
  <1>. QED  BY <1>5 DEF ents

(* One entry may have a block to itself.                                    *)
LEMMA SingleTiles ==
  ASSUME NEW ino, NEW name \in Names \cup Dots, NEW type
  PROVE  Tiles(<<NewEntry(ino, name, type, BLOCK_SIZE)>>)
  <1>. DEFINE ents == <<NewEntry(ino, name, type, BLOCK_SIZE)>>
              off == [i \in 0 .. 1 |-> IF i = 0 THEN 0 ELSE BLOCK_SIZE]
  <1>1. BLOCK_SIZE \in Nat
    BY LayoutAssumption
  <1>2. Len(ents) = 1 /\ ents[1].rec_len = BLOCK_SIZE /\ ents[1].name = name
    BY DEF NewEntry
  <1>. HIDE DEF ents
  <1>3. off \in [0 .. 1 -> Nat] /\ off[0] = 0 /\ off[1] = BLOCK_SIZE
    BY <1>1
  <1>. HIDE DEF off
  <1>4. ASSUME NEW k \in 1 .. 1
        PROVE  off[k] = off[k - 1] + ents[k].rec_len /\ ents[k].rec_len >= RecLen(ents[k].name)
    <2>1. k = 1 /\ RecLen(name) \in Nat /\ RecLen(name) <= BLOCK_SIZE
      BY RecLenFits, RecLenType
    <2>. QED  BY <1>1, <1>2, <1>3, <2>1
  <1>5. Tiles(ents)
    BY <1>2, <1>3, <1>4 DEF Tiles
  <1>. QED  BY <1>5 DEF ents

(* Splitting a record that has room keeps the tiling.                       *)
LEMMA InsertTiles ==
  ASSUME NEW ents \in Seq(Entry), NEW k \in DOMAIN ents,
         NEW ino \in Inodes \cup {0}, NEW name \in Names \cup Dots,
         NEW type \in {"file", "dir"}, HasRoom(ents, k, name), Tiles(ents)
  PROVE  Tiles(InsertEntry(ents, k, ino, name, type))
  <1>. DEFINE new == InsertEntry(ents, k, ino, name, type)
              own == RecLen(ents[k].name)
              n == Len(ents)
  <1>1. n \in Nat /\ k \in 1 .. n /\ \A i \in 1 .. n : ents[i] \in Entry
    OBVIOUS
  <1>2. /\ Len(new) = n + 1
        /\ \A i \in 1 .. k - 1 : new[i] = ents[i]
        /\ Alike(new[k], ents[k]) /\ new[k].rec_len = own
        /\ new[k + 1] = NewEntry(ino, name, type, ents[k].rec_len - own)
        /\ \A i \in k + 2 .. n + 1 : new[i] = ents[i - 1]
    <2>0. PICK w : w = new
      OBVIOUS
    <2>1. /\ Len(w) = n + 1
          /\ \A i \in 1 .. k - 1 : w[i] = ents[i]
          /\ Alike(w[k], ents[k]) /\ w[k].rec_len = own
          /\ w[k + 1] = NewEntry(ino, name, type, ents[k].rec_len - own)
          /\ \A i \in k + 2 .. n + 1 : w[i] = ents[i - 1]
      <3>1. Inserted(w, ents, k, ino, name, type)
        BY <2>0, InsertShape
      <3>. QED  BY <3>1 DEF Inserted
    <2>. QED  BY <2>0, <2>1
  <1>3. ents[k].rec_len \in Nat /\ own \in Nat /\ RecLen(name) \in Nat
    BY <1>1, RecLenType DEF Entry
  <1>4. ents[k].rec_len - own >= RecLen(name)
    BY <1>3 DEF HasRoom
  <1>5. new[k].rec_len = own /\ new[k].name = ents[k].name
    BY <1>2 DEF Alike
  <1>6. new[k + 1].rec_len = ents[k].rec_len - own /\ new[k + 1].name = name
    BY <1>2 DEF NewEntry
  <1>7. PICK off \in [0 .. n -> Nat] :
          /\ off[0] = 0 /\ off[n] = BLOCK_SIZE
          /\ \A i \in 1 .. n : /\ off[i] = off[i - 1] + ents[i].rec_len
                               /\ ents[i].rec_len >= RecLen(ents[i].name)
    BY DEF Tiles
  <1>. DEFINE noff == [i \in 0 .. n + 1 |->
                         IF i < k THEN off[i]
                         ELSE IF i = k THEN off[k - 1] + own ELSE off[i - 1]]
  <1>. HIDE DEF new, own, n
  <1>8. off[k - 1] \in Nat /\ off[k] \in Nat /\ off[k] = off[k - 1] + ents[k].rec_len
    BY <1>1, <1>7
  <1>9. noff \in [0 .. n + 1 -> Nat]
    <2>. SUFFICES ASSUME NEW i \in 0 .. n + 1
                  PROVE  (IF i < k THEN off[i]
                          ELSE IF i = k THEN off[k - 1] + own ELSE off[i - 1]) \in Nat
      OBVIOUS
    <2>1. i < k => i \in 0 .. n
      BY <1>1
    <2>2. i > k => i - 1 \in 0 .. n
      BY <1>1
    <2>3. off[k - 1] + own \in Nat
      BY <1>3, <1>8
    <2>. QED  BY <1>1, <1>7, <2>1, <2>2, <2>3
  <1>10. noff[0] = 0 /\ noff[n + 1] = BLOCK_SIZE
    <2>1. 0 \in 0 .. n + 1 /\ n + 1 \in 0 .. n + 1 /\ 0 < k /\ ~(n + 1 < k) /\ n + 1 # k /\ (n + 1) - 1 = n
      BY <1>1
    <2>. QED  BY <1>7, <2>1
  <1>11. ASSUME NEW i \in 1 .. n + 1
         PROVE  /\ noff[i] = noff[i - 1] + new[i].rec_len
                /\ new[i].rec_len >= RecLen(new[i].name)
    <2>0. i \in 0 .. n + 1 /\ i - 1 \in 0 .. n + 1
      BY <1>1
    <2>1. CASE i < k
      <3>1. noff[i] = off[i] /\ noff[i - 1] = off[i - 1] /\ i \in 1 .. n /\ i \in 1 .. k - 1
        BY <1>1, <2>0, <2>1
      <3>. QED  BY <1>2, <1>7, <3>1
    <2>2. CASE i = k
      <3>1. noff[i] = off[k - 1] + own /\ noff[i - 1] = off[k - 1]
        BY <1>1, <2>0, <2>2
      <3>2. own >= own
        BY <1>3
      <3>. QED  BY <1>5, <2>2, <3>1, <3>2 DEF own
    <2>3. CASE i = k + 1
      <3>1. noff[i] = off[k] /\ noff[i - 1] = off[k - 1] + own
        BY <1>1, <2>0, <2>3
      <3>2. off[k] = (off[k - 1] + own) + (ents[k].rec_len - own)
        BY <1>3, <1>8
      <3>. QED  BY <1>4, <1>6, <2>3, <3>1, <3>2
    <2>4. CASE i > k + 1
      <3>1. /\ noff[i] = off[i - 1] /\ noff[i - 1] = off[(i - 1) - 1]
            /\ i - 1 \in 1 .. n /\ i \in k + 2 .. n + 1
        BY <1>1, <2>0, <2>4
      <3>2. new[i] = ents[i - 1]
        BY <1>2, <3>1
      <3>. QED  BY <1>7, <3>1, <3>2
    <2>. QED  BY <1>1, <2>1, <2>2, <2>3, <2>4
  <1>. HIDE DEF noff
  <1>12. Tiles(new)
    BY <1>2, <1>9, <1>10, <1>11 DEF Tiles
  <1>. QED  BY <1>12 DEF new

(* Removing a record keeps the tiling: its predecessor takes its bytes.     *)
LEMMA RemoveTiles ==
  ASSUME NEW ents \in Seq(Entry), NEW k \in DOMAIN ents, Tiles(ents)
  PROVE  Tiles(RemoveEntry(ents, k))
  <1>. DEFINE new == RemoveEntry(ents, k)
              n == Len(ents)
  <1>0. n \in Nat /\ k \in 1 .. n
    OBVIOUS
  <1>1. n \in Nat /\ k \in 1 .. n /\ \A i \in 1 .. n : ents[i] \in Entry
    OBVIOUS
  <1>2. PICK off \in [0 .. n -> Nat] :
          /\ off[0] = 0 /\ off[n] = BLOCK_SIZE
          /\ \A i \in 1 .. n : /\ off[i] = off[i - 1] + ents[i].rec_len
                               /\ ents[i].rec_len >= RecLen(ents[i].name)
    BY DEF Tiles
  <1>3. new \in Seq(Entry)
    BY RemoveType
  <1>4. CASE k = 1
    <2>1. /\ DOMAIN new = 1 .. n
          /\ new[1].rec_len = ents[1].rec_len /\ new[1].name = ents[1].name
          /\ \A i \in 2 .. n : new[i] = ents[i]
      BY <1>4, RemoveShape
    <2>. HIDE DEF new, n
    <2>2. Len(new) = n
      BY <1>1, <1>3, <2>1
    <2>5. \A i \in 1 .. n : new[i].rec_len = ents[i].rec_len /\ new[i].name = ents[i].name
      <3>. SUFFICES ASSUME NEW i \in 1 .. n
                    PROVE  new[i].rec_len = ents[i].rec_len /\ new[i].name = ents[i].name
        OBVIOUS
      <3>1. i = 1 \/ i \in 2 .. n
        BY <1>1
      <3>. QED  BY <2>1, <3>1
    <2>. QED  BY <1>2, <2>2, <2>5 DEF Tiles, new
  <1>5. CASE k # 1
    <2>1. /\ DOMAIN new = 1 .. n - 1
          /\ \A i \in 1 .. k - 2 : new[i] = ents[i]
          /\ Alike(new[k - 1], ents[k - 1])
          /\ new[k - 1].rec_len = ents[k - 1].rec_len + ents[k].rec_len
          /\ \A i \in k .. n - 1 : new[i] = ents[i + 1]
      BY <1>5, RemoveShape
    <2>. DEFINE noff == [i \in 0 .. n - 1 |-> IF i < k - 1 THEN off[i] ELSE off[i + 1]]
    <2>. HIDE DEF new, n
    <2>2. Len(new) = n - 1
      BY <1>1, <1>3, <2>1
    <2>3. ents[k - 1] \in Entry /\ ents[k] \in Entry /\ k - 1 \in 1 .. n
      BY <1>1, <1>5
    <2>4. /\ new[k - 1].rec_len = ents[k - 1].rec_len + ents[k].rec_len
          /\ new[k - 1].name = ents[k - 1].name
          /\ ents[k - 1].rec_len \in Nat /\ ents[k].rec_len \in Nat
          /\ RecLen(ents[k - 1].name) \in Nat
      BY <2>1, <2>3, RecLenType DEF Entry, Alike
    <2>5. noff \in [0 .. n - 1 -> Nat]
      <3>. SUFFICES ASSUME NEW i \in 0 .. n - 1
                    PROVE  (IF i < k - 1 THEN off[i] ELSE off[i + 1]) \in Nat
        OBVIOUS
      <3>1. i \in 0 .. n /\ i + 1 \in 0 .. n
        BY <1>1
      <3>. QED  BY <1>2, <3>1
    <2>6. noff[0] = 0 /\ noff[n - 1] = BLOCK_SIZE
      <3>1. 0 \in 0 .. n - 1 /\ n - 1 \in 0 .. n - 1 /\ 0 < k - 1 /\ ~(n - 1 < k - 1) /\ (n - 1) + 1 = n
        BY <1>1, <1>5
      <3>. QED  BY <1>2, <3>1
    <2>7. ASSUME NEW i \in 1 .. n - 1
          PROVE  /\ noff[i] = noff[i - 1] + new[i].rec_len
                 /\ new[i].rec_len >= RecLen(new[i].name)
      <3>0. i \in 0 .. n - 1 /\ i - 1 \in 0 .. n - 1 /\ i \in 1 .. n /\ i + 1 \in 1 .. n
            /\ (i + 1) - 1 = i
        BY <1>1
      <3>1. CASE i < k - 1
        <4>1. noff[i] = off[i] /\ noff[i - 1] = off[i - 1] /\ i \in 1 .. k - 2
          BY <1>1, <3>0, <3>1
        <4>. QED  BY <1>2, <2>1, <3>0, <4>1
      <3>2. CASE i = k - 1
        <4>0. ~(i < k - 1) /\ i - 1 < k - 1 /\ i + 1 = k /\ i - 1 \in 0 .. n
          BY <1>0, <3>2
        <4>1. noff[i] = off[i + 1] /\ noff[i - 1] = off[i - 1]
          BY <3>0, <4>0
        <4>2. off[i + 1] = off[i] + ents[k].rec_len /\ off[i] = off[i - 1] + ents[i].rec_len
          BY <1>2, <3>0, <4>0
        <4>3. off[i - 1] \in Nat /\ ents[i].rec_len >= RecLen(ents[i].name)
          BY <1>2, <3>0, <4>0
        <4>. QED  BY <2>4, <3>2, <4>1, <4>2, <4>3
      <3>3. CASE i >= k
        <4>1. noff[i] = off[i + 1] /\ noff[i - 1] = off[i] /\ i \in k .. n - 1
          BY <1>1, <3>0, <3>3
        <4>2. new[i] = ents[i + 1]
          BY <2>1, <4>1
        <4>3. off[i + 1] = off[i] + ents[i + 1].rec_len /\ ents[i + 1].rec_len >= RecLen(ents[i + 1].name)
          BY <1>2, <3>0
        <4>. QED  BY <4>1, <4>2, <4>3
      <3>. QED  BY <1>1, <3>1, <3>2, <3>3
    <2>. HIDE DEF noff
    <2>. QED  BY <2>2, <2>5, <2>6, <2>7 DEF Tiles, new
  <1>. QED  BY <1>4, <1>5

(* The sum that RecordsTile computes is the end of the last record.         *)
LEMMA TilesSum ==
  ASSUME NEW ents \in Seq(Entry), Tiles(ents)
  PROVE  LET offset[k \in 0 .. Len(ents)] ==
               IF k = 0 THEN 0 ELSE offset[k - 1] + ents[k].rec_len
         IN  offset[Len(ents)] = BLOCK_SIZE
  <1>. DEFINE n == Len(ents)
              Eq(g) == g = [k \in 0 .. n |-> IF k = 0 THEN 0 ELSE g[k - 1] + ents[k].rec_len]
              sum == CHOOSE g : Eq(g)
  <1>0. n \in Nat
    OBVIOUS
  <1>1. PICK off \in [0 .. n -> Nat] :
          /\ off[0] = 0 /\ off[n] = BLOCK_SIZE
          /\ \A i \in 1 .. n : off[i] = off[i - 1] + ents[i].rec_len
    BY DEF Tiles
  <1>. HIDE DEF n
  <1>2. Eq(off)
    <2>1. ASSUME NEW k \in 0 .. n
          PROVE  off[k] = IF k = 0 THEN 0 ELSE off[k - 1] + ents[k].rec_len
      <3>1. k = 0 \/ k \in 1 .. n
        BY <1>0
      <3>. QED  BY <1>1, <3>1
    <2>. QED  BY <1>1, <2>1
  <1>3. Eq(sum)
    <2>. HIDE DEF Eq
    <2>. QED  BY <1>2
  <1>. HIDE DEF sum
  <1>4. \A k \in Nat : k <= n => sum[k] = off[k]
    <2>. DEFINE S == {k \in Nat : k <= n => sum[k] = off[k]}
    <2>1. 0 \in S
      <3>1. 0 \in 0 .. n
        BY <1>0
      <3>. QED  BY <1>1, <1>3, <3>1
    <2>2. ASSUME NEW k \in Nat, k \in S PROVE k + 1 \in S
      <3>1. CASE k + 1 <= n
        <4>1. k + 1 \in 0 .. n /\ k + 1 \in 1 .. n /\ k + 1 # 0 /\ (k + 1) - 1 = k /\ k <= n
          BY <1>0, <3>1
        <4>2. sum[k + 1] = sum[k] + ents[k + 1].rec_len
          BY <1>3, <4>1
        <4>3. off[k + 1] = off[k] + ents[k + 1].rec_len
          BY <1>1, <4>1
        <4>. QED  BY <2>2, <4>1, <4>2, <4>3
      <3>. QED  BY <3>1
    <2>. HIDE DEF S
    <2>3. \A k \in Nat : k \in S
      BY <2>1, <2>2, SetInduction
    <2>. QED  BY <2>3 DEF S
  <1>5. sum[n] = BLOCK_SIZE
    BY <1>0, <1>1, <1>4
  <1>. QED  BY <1>5, Zenon DEF sum, n

(* The existential form is what RecordsTile says.                           *)
LEMMA TilesEnough == TypeOK /\ TileInv => RecordsTile
  <1>. SUFFICES ASSUME TypeOK, TileInv, NEW b \in Blocks, blk[b].kind = "dir"
                PROVE  LET ents == blk[b].ents
                           offset[k \in 0 .. Len(ents)] ==
                             IF k = 0 THEN 0 ELSE offset[k - 1] + ents[k].rec_len
                       IN  /\ offset[Len(ents)] = BLOCK_SIZE
                           /\ \A k \in DOMAIN ents : ents[k].rec_len >= RecLen(ents[k].name)
    BY Zenon DEF RecordsTile
  <1>1. blk[b].ents \in Seq(Entry)
    BY ContentParts DEF TypeOK
  <1>2. Tiles(blk[b].ents)
    BY DEF TileInv
  <1>. DEFINE ents == blk[b].ents
  <1>. HIDE DEF ents
  <1>3. ents \in Seq(Entry) /\ Tiles(ents)
    BY <1>1, <1>2 DEF ents
  <1>4. \A k \in DOMAIN ents : ents[k].rec_len >= RecLen(ents[k].name)
    BY <1>3 DEF Tiles
  <1>. QED  BY <1>3, <1>4, TilesSum, Zenon DEF ents

(* Writing a block keeps the invariant if what is written tiles it.         *)
LEMMA PutTiles ==
  ASSUME TypeOK, TileInv, NEW b, NEW c, blk' = [blk EXCEPT ![b] = c],
         c.kind = "dir" => Tiles(c.ents)
  PROVE  TileInv'
  <1>. SUFFICES ASSUME NEW x \in Blocks, blk'[x].kind = "dir"
                PROVE  Tiles(blk'[x].ents)
    BY DEF TileInv, Tiles
  <1>1. blk'[x] = IF x = b THEN c ELSE blk[x]
    BY DEF TypeOK
  <1>. QED  BY <1>1 DEF TileInv

(* The blank disk has no directory block, the formatted one has the root's.  *)
LEMMA TileInit == Init => TileInv
  <1>. SUFFICES ASSUME Init, NEW b \in Blocks, blk[b].kind = "dir"
                PROVE  Tiles(blk[b].ents)
    BY DEF TileInv
  <1>1. blk[b] = Stale \/ blk[b] = DirBlock(DotEntries(ROOT_INODE_NO, ROOT_INODE_NO))
    BY DEF Init
  <1>2. Stale.kind # "dir" /\ \A e : DirBlock(e).ents = e
    BY DEF Stale, DirBlock
  <1>. QED  BY <1>1, <1>2, DotsTile

(* Every step keeps the tiling.                                             *)
LEMMA TileStep == Inv /\ TileInv /\ [Next]_vars => TileInv'
  <1>. SUFFICES ASSUME Inv, TileInv, [Next]_vars PROVE TileInv'
    OBVIOUS
  <1>0. TypeOK /\ FrType \in {"file", "dir"}
    BY DEF Inv, FrType
  <1>1. ASSUME UNCHANGED blk PROVE TileInv'
    BY <1>1 DEF TileInv
  <1>2. ASSUME NEW b, NEW ents, Tiles(ents), blk' = [blk EXCEPT ![b] = DirBlock(ents)]
        PROVE  TileInv'
    <2>1. DirBlock(ents).ents = ents
      BY DEF DirBlock
    <2>2. DirBlock(ents).kind = "dir" => Tiles(DirBlock(ents).ents)
      BY <1>2, <2>1
    <2>. QED  BY <1>0, <1>2, <2>2, PutTiles
  <1>3. ASSUME NEW b, NEW c, blk' = [blk EXCEPT ![b] = c], c.kind # "dir"
        PROVE  TileInv'
    BY <1>0, <1>3, PutTiles
  <1>4. CASE AddEntry
    <2>1. PICK s \in First(Rooms(fr.parent, fr.name)) :
            blk' = [blk EXCEPT ![inode_table[fr.parent].block[s[1]]] =
                      DirBlock(InsertEntry(Ents(inode_table[fr.parent].block[s[1]]),
                                           s[2], fr.inum, fr.name, FrType))]
      BY <1>4 DEF AddEntry
    <2>. DEFINE b == inode_table[fr.parent].block[s[1]]
    <2>2. s \in Slots(fr.parent) /\ HasRoom(Ents(b), s[2], fr.name)
      BY DEF First, Rooms, DirEnts
    <2>3. s[2] \in DOMAIN Ents(b)
      BY <1>0, <2>2, SlotParts
    <2>. HIDE DEF b
    <2>4. CASE b \in Blocks
      <3>1. Ents(b) \in Seq(Entry) /\ blk[b].kind = "dir" /\ Ents(b) = blk[b].ents
        BY <1>0, <2>3, <2>4, DiskParts DEF Ents
      <3>2. Tiles(Ents(b))
        BY <2>4, <3>1 DEF TileInv
      <3>3. fr.inum \in Inodes \cup {0} /\ fr.name \in Names \cup Dots
        BY <1>0, FrameParts
      <3>4. Tiles(InsertEntry(Ents(b), s[2], fr.inum, fr.name, FrType))
        BY <1>0, <2>2, <2>3, <3>1, <3>2, <3>3, InsertTiles
      <3>. QED  BY <1>2, <2>1, <3>4 DEF b
    <2>5. CASE b \notin Blocks
      <3>1. blk' = blk
        BY <1>0, <2>1, <2>5 DEF b, TypeOK
      <3>. QED  BY <1>1, <3>1
    <2>. QED  BY <2>4, <2>5
  <1>5. CASE Unlink
    <2>1. PICK s \in First(find_entry_in_dir(fr.parent, fr.name)) :
            blk' = [blk EXCEPT ![inode_table[fr.parent].block[s[1]]] =
                 DirBlock(RemoveEntry(Ents(inode_table[fr.parent].block[s[1]]), s[2]))]
      BY <1>5 DEF Unlink
    <2>. DEFINE b == inode_table[fr.parent].block[s[1]]
    <2>2. s \in Slots(fr.parent)
      BY DEF First, find_entry_in_dir
    <2>3. s[2] \in DOMAIN Ents(b)
      BY <1>0, <2>2, SlotParts
    <2>. HIDE DEF b
    <2>4. CASE b \in Blocks
      <3>1. Ents(b) \in Seq(Entry) /\ blk[b].kind = "dir" /\ Ents(b) = blk[b].ents
        BY <1>0, <2>3, <2>4, DiskParts DEF Ents
      <3>2. Tiles(Ents(b))
        BY <2>4, <3>1 DEF TileInv
      <3>3. Tiles(RemoveEntry(Ents(b), s[2]))
        BY <2>3, <3>1, <3>2, RemoveTiles
      <3>. QED  BY <1>2, <2>1, <3>3 DEF b
    <2>5. CASE b \notin Blocks
      <3>1. blk' = blk
        BY <1>0, <2>1, <2>5 DEF b, TypeOK
      <3>. QED  BY <1>1, <3>1
    <2>. QED  BY <2>4, <2>5
  <1>6. CASE GrowBlock
    <2>1. Tiles(<<NewEntry(fr.inum, fr.name, FrType, BLOCK_SIZE)>>)
      BY <1>0, FrameParts, SingleTiles
    <2>. QED  BY <1>2, <1>6, <2>1 DEF GrowBlock
  <1>7. CASE MkfsRootDir
    BY <1>2, <1>7, DotsTile DEF MkfsRootDir
  <1>8. CASE WriteDots
    BY <1>2, <1>8, DotsTile DEF WriteDots
  <1>9. CASE StoreDirect \/ StorePointer
    BY <1>3, <1>9 DEF StoreDirect, StorePointer, DataBlock
  <1>10. CASE WriteTable
    <2>1. blk' = [blk EXCEPT ![fr.node.block[NDirect]] = TableBlock(fr.ptr)]
      BY <1>10 DEF WriteTable
    <2>2. TableBlock(fr.ptr).kind # "dir"
      BY DEF TableBlock
    <2>. QED  BY <1>3, <2>1, <2>2
  <1>11. CASE FreeBlock
    <2>1. UNCHANGED blk \/ blk' = [blk EXCEPT ![Head(fr.todo)] = Stale]
      BY <1>11 DEF FreeBlock
    <2>2. Stale.kind # "dir"
      BY DEF Stale
    <2>. QED  BY <1>1, <1>3, <2>1, <2>2
  <1>12. CASE UNCHANGED vars \/ Boot \/ WriteSuperblock \/ WriteBgdt \/ Crash
               \/ CallWrite \/ CallDelete
    BY <1>1, <1>12 DEF vars, disk, Boot, WriteSuperblock, WriteBgdt, Crash,
       CallWrite, CallDelete, Call
  <1>13. CASE \/ MkfsSuperblock \/ MkfsBgdt \/ MkfsBlockBitmap
              \/ MkfsInodeBitmap \/ MkfsTable \/ MkfsRoot
    BY <1>1, <1>13 DEF MkfsSuperblock, MkfsBgdt, MkfsBlockBitmap, MkfsInodeBitmap,
       MkfsTable, MkfsRoot
  <1>14. CASE \/ WriteRefused \/ AllocateNode \/ DirectBlock \/ IndirectBlock
              \/ IndirectTable \/ PointerBlock \/ DirectoryBlock \/ WriteInode
              \/ GrowDirectory \/ GrowInode \/ NoEntry
    BY <1>1, <1>14 DEF WriteRefused, AllocateNode, DirectBlock, IndirectBlock,
       IndirectTable, PointerBlock, DirectoryBlock, WriteInode, GrowDirectory,
       GrowInode, NoEntry, allocate_block, disk
  <1>15. CASE DeleteRefused \/ ClearInode \/ ClearNode \/ DeleteDone
    BY <1>1, <1>15 DEF DeleteRefused, ClearInode, ClearNode, DeleteDone, disk
  <1>. QED  BY <1>4, <1>5, <1>6, <1>7, <1>8, <1>9, <1>10, <1>11, <1>12, <1>13,
               <1>14, <1>15 DEF Next, Step, Write, Delete, Mkfs

(* For every geometry and every set of names, also when the power fails between
   any two block writes: add_entry_to_dir and remove_entry_from_dir leave in
   every directory block a list of records that ends exactly at the end of the
   block, each long enough for its own name.  So get_next_directory_entry,
   which has no bound but the size of the block, never reads past it.       *)
THEOREM RecordsAlwaysTile == Spec => []RecordsTile
  <1>1. Inv /\ TileInv /\ [Next]_vars => Inv' /\ TileInv'
    BY StepInv, TileStep
  <1>2. Inv /\ TileInv => RecordsTile
    BY TilesEnough DEF Inv
  <1>. QED  BY <1>1, <1>2, InitInv, TileInit, PTL DEF Spec
=============================================================================
