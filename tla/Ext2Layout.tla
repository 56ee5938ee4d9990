----------------------------- MODULE Ext2Layout -----------------------------
(***************************************************************************)
(* The on-disk layout of the EXT2 file system of src/src/filesystem/ext2.c *)
(* and src/src/header/filesystem/ext2.h: geometry, inodes, and the linked  *)
(* list of variable-length entries a directory block holds.  Everything    *)
(* here is constant-level; the driver that changes the disk is Ext2.       *)
(*                                                                         *)
(* A file is abstracted to the sequence of block-sized chunks it carries,  *)
(* so i_size counts blocks.  A name is a value with a length.              *)
(***************************************************************************)
EXTENDS Integers, Sequences, FiniteSets

CONSTANTS
  BLOCK_SIZE,               \* bytes in a block
  BLOCKS_PER_GROUP,         \* blocks of group 0, the only group ever used
  INODES_PER_GROUP,         \* inodes of group 0
  INODES_TABLE_BLOCK_COUNT, \* blocks of the inode table
  INITIAL_USED_INODES,      \* inodes mkfs reserves (EXT2_GOOD_OLD_FIRST_INO)
  GROUPS_COUNT,             \* only scales the totals in the superblock
  NDirect,                  \* direct pointers of an inode (12)
  NIndirect,                \* pointers of the single indirect block (128)
  Names,                    \* names a user may give a file or a directory
  NameLen,                  \* length of every name, "." and ".." included
  Chunks                    \* contents of one data block

Dots == {".", ".."}

(* Layout assumptions: the metadata and the root block leave the rest of the
   group to data, inode 2 is among the reserved ones, and a block has room for
   ".", ".." and for one entry of any name: its header of 8 bytes, at most 255
   bytes of name and at most 3 of padding.                                  *)
ASSUME LayoutAssumption ==
  /\ BLOCKS_PER_GROUP \in Nat /\ INODES_PER_GROUP \in Nat
  /\ INODES_TABLE_BLOCK_COUNT \in Nat \ {0}
  /\ INITIAL_USED_INODES \in Nat /\ GROUPS_COUNT \in Nat \ {0}
  /\ NDirect \in Nat \ {0} /\ NIndirect \in Nat \ {0} /\ BLOCK_SIZE \in Nat
  /\ INITIAL_USED_INODES >= 2
  /\ INITIAL_USED_INODES <= INODES_PER_GROUP
  /\ INODES_TABLE_BLOCK_COUNT + 6 <= BLOCKS_PER_GROUP
  /\ BLOCK_SIZE >= 24
  /\ NameLen \in [Names \cup Dots -> Nat]
  /\ NameLen["."] = 1 /\ NameLen[".."] = 2
  /\ \A n \in Names : NameLen[n] + 11 <= BLOCK_SIZE

ROOT_INODE_NO == 2
INODE_TABLE_LBA == 5
ROOT_DIR_BLOCK_LBA == INODE_TABLE_LBA + INODES_TABLE_BLOCK_COUNT
INITIAL_USED_BLOCKS == 5 + INODES_TABLE_BLOCK_COUNT + 1
TOTAL_BLOCKS == BLOCKS_PER_GROUP * GROUPS_COUNT
TOTAL_INODES == INODES_PER_GROUP * GROUPS_COUNT

Blocks == 0 .. BLOCKS_PER_GROUP - 1
Inodes == 1 .. INODES_PER_GROUP

(* i_block[0 .. NDirect-1] are direct pointers, i_block[NDirect] the single
   indirect one; 0 means no block.                                          *)
Inode == [mode  : {"none", "file", "dir"},
          size  : Nat,
          block : [0 .. NDirect -> Blocks]]

ZeroInode == [mode |-> "none", size |-> 0, block |-> [i \in 0 .. NDirect |-> 0]]

Entry == [inode   : Inodes \cup {0},
          name    : Names \cup Dots,
          type    : {"file", "dir"},
          rec_len : Nat]

(* What a block of the data area holds.  "stale" is a block whose bytes are
   left over from whoever used it before: every block nobody has written since
   it was last freed.                                                       *)
Stale == [kind |-> "stale"]
DirBlock(ents) == [kind |-> "dir", ents |-> ents]
DataBlock(c) == [kind |-> "data", chunk |-> c]
TableBlock(p) == [kind |-> "table", ptr |-> p]
NoPointers == [i \in 0 .. NIndirect - 1 |-> 0]

Content == {Stale}
             \cup [kind : {"dir"}, ents : Seq(Entry)]
             \cup [kind : {"data"}, chunk : Chunks]
             \cup [kind : {"table"}, ptr : [0 .. NIndirect - 1 -> Blocks]]

-----------------------------------------------------------------------------
(* get_entry_record_len: the header is 8 bytes, records are 4-byte aligned. *)
get_entry_record_len(len) == ((8 + len + 3) \div 4) * 4

RecLen(name) == get_entry_record_len(NameLen[name])

NewEntry(ino, name, type, len) ==
  [inode |-> ino, name |-> name, type |-> type, rec_len |-> len]

(* Fault: ".." of a new directory names the directory itself.               *)
DotEntriesSelf(self, parent) ==
  << NewEntry(self, ".", "dir", RecLen(".")),
     NewEntry(self, "..", "dir", BLOCK_SIZE - RecLen(".")) >>

(* The first block of a directory: "." and ".." sharing the whole block.    *)
DotEntries(self, parent) ==
  << NewEntry(self, ".", "dir", RecLen(".")),
     NewEntry(parent, "..", "dir", BLOCK_SIZE - RecLen(".")) >>

(* Entry k has room behind its own name for an entry called name.  An entry
   whose inode is 0 keeps its name and is measured like any other.          *)
HasRoom(ents, k, name) == ents[k].rec_len >= RecLen(ents[k].name) + RecLen(name)

(* Fault: the new entry takes only the bytes it needs.                      *)
InsertEntryShort(ents, k, ino, name, type) ==
  SubSeq(ents, 1, k - 1)
    \o << [ents[k] EXCEPT !.rec_len = RecLen(ents[k].name)],
          NewEntry(ino, name, type, RecLen(name)) >>
    \o SubSeq(ents, k + 1, Len(ents))

(* add_entry_to_dir's split of entry k: it shrinks to its own length and the
   new entry takes all the bytes that follow.                               *)
InsertEntry(ents, k, ino, name, type) ==
  LET own == RecLen(ents[k].name) IN
  SubSeq(ents, 1, k - 1)
    \o << [ents[k] EXCEPT !.rec_len = own],
          NewEntry(ino, name, type, ents[k].rec_len - own) >>
    \o SubSeq(ents, k + 1, Len(ents))

(* remove_entry_from_dir: the predecessor swallows the record; the first
   record of a block has none and is only marked unused.                    *)
RemoveEntry(ents, k) ==
  IF k = 1
  THEN [ents EXCEPT ![1].inode = 0]
  ELSE [i \in 1 .. Len(ents) - 1 |->
          IF i < k - 1 THEN ents[i]
          ELSE IF i = k - 1
               THEN [ents[i] EXCEPT !.rec_len = @ + ents[k].rec_len]
               ELSE ents[i + 1]]
=============================================================================
