------------------------ MODULE Ext2RefinementProofs ------------------------
(***************************************************************************)
(* For every geometry, every set of names and contents and any number of   *)
(* power failures: the driver implements FileSystem.  Each block write of  *)
(* a call either leaves the tree of names and contents as it was or is the *)
(* one write at which the call takes effect.  The dots of a directory lead *)
(* home, and until the first failure nothing leaks.                        *)
(*                                                                         *)
(* As everywhere in Ext2, a block that was never written as a directory is *)
(* read as zero-filled (Ents).  It matters after one failure only: between *)
(* the two writes by which a directory grows.                              *)
(***************************************************************************)
EXTENDS Ext2TreeProofs

-----------------------------------------------------------------------------
(* The tree, entry by entry.                                                *)

(* Directory d calls inode i, of type t, by name n.                         *)
Lists(d, n, i, t) ==
  \E p \in Direct, b \in Blocks :
    /\ b = inode_table[d].block[p] /\ b # 0
    /\ \E k \in DOMAIN Ents(b) : /\ Naming(Ents(b)[k]) /\ Ents(b)[k].name = n
                                 /\ Ents(b)[k].inode = i /\ Ents(b)[k].type = t

(* A record of a directory's block is at a position of the directory.       *)
LEMMA RecordSlot ==
  ASSUME TypeOK, WellFormed, NEW d \in Inodes, DirOf(d), NEW p \in Direct,
         NEW b \in Blocks, b = inode_table[d].block[p], b # 0, NEW k \in DOMAIN Ents(b)
  PROVE  <<p, k>> \in Slots(d) /\ At(d, <<p, k>>) = Ents(b)[k]
  <1>1. p \in DirBlocks(d)
    BY DEF DirBlocks, WellFormed, NoHoles, Direct
  <1>2. DirEnts(d, p) = Ents(b)
    BY DEF DirEnts
  <1>. QED  BY <1>1, <1>2 DEF Slots, At

(* And the other way round.                                                 *)
LEMMA SlotRecord ==
  ASSUME TypeOK, NEW d \in Inodes, NEW s \in Slots(d)
  PROVE  \E p \in Direct, b \in Blocks : \E k \in DOMAIN Ents(b) :
           /\ b = inode_table[d].block[p] /\ b # 0
           /\ s = <<p, k>> /\ At(d, s) = Ents(b)[k]
  <1>1. PICK p \in DirBlocks(d) : \E k \in DOMAIN DirEnts(d, p) : s = <<p, k>>
    BY DEF Slots
  <1>2. PICK k \in DOMAIN DirEnts(d, p) : s = <<p, k>>
    BY <1>1
  <1>3. p \in Direct /\ inode_table[d].block[p] # 0
    BY <1>1, LayoutFacts DEF DirBlocks, Direct
  <1>4. PICK b : b = inode_table[d].block[p]
    OBVIOUS
  <1>5. b \in Blocks
    <2>1. inode_table[d].block \in [0 .. NDirect -> Blocks] /\ p \in 0 .. NDirect
      BY <1>3, DiskParts, LayoutFacts DEF Direct
    <2>. QED  BY <1>4, <2>1
  <1>6. k \in DOMAIN Ents(b) /\ At(d, s) = Ents(b)[k]
    BY <1>2, <1>4 DEF DirEnts, At
  <1>. QED  BY <1>2, <1>3, <1>4, <1>5, <1>6

(* The named positions of a directory are its list.                         *)
LEMMA NamedInLists ==
  ASSUME TypeOK, WellFormed, NEW d \in Inodes, DirOf(d)
  PROVE  /\ \A s \in NamedIn(d) :
              Lists(d, At(d, s).name, At(d, s).inode, At(d, s).type)
         /\ \A n, i, t : Lists(d, n, i, t) =>
              \E s \in NamedIn(d) : /\ At(d, s).name = n /\ At(d, s).inode = i
                                    /\ At(d, s).type = t
  <1>1. ASSUME NEW s \in NamedIn(d)
        PROVE  Lists(d, At(d, s).name, At(d, s).inode, At(d, s).type)
    <2>1. s \in Slots(d) /\ Naming(At(d, s))
      BY DEF NamedIn, Naming
    <2>2. PICK p \in Direct, b \in Blocks : \E k \in DOMAIN Ents(b) :
           /\ b = inode_table[d].block[p] /\ b # 0
           /\ s = <<p, k>> /\ At(d, s) = Ents(b)[k]
      BY <2>1, SlotRecord
    <2>. QED  BY <2>1, <2>2 DEF Lists
  <1>2. ASSUME NEW n, NEW i, NEW t, Lists(d, n, i, t)
        PROVE  \E s \in NamedIn(d) : /\ At(d, s).name = n /\ At(d, s).inode = i
                                     /\ At(d, s).type = t
    <2>1. PICK p \in Direct, b \in Blocks :
            /\ b = inode_table[d].block[p] /\ b # 0
            /\ \E k \in DOMAIN Ents(b) : /\ Naming(Ents(b)[k]) /\ Ents(b)[k].name = n
                                         /\ Ents(b)[k].inode = i /\ Ents(b)[k].type = t
      BY <1>2 DEF Lists
    <2>2. PICK k \in DOMAIN Ents(b) : /\ Naming(Ents(b)[k]) /\ Ents(b)[k].name = n
                                      /\ Ents(b)[k].inode = i /\ Ents(b)[k].type = t
      BY <2>1
    <2>3. <<p, k>> \in Slots(d) /\ At(d, <<p, k>>) = Ents(b)[k]
      BY <2>1, RecordSlot
    <2>4. <<p, k>> \in NamedIn(d)
      BY <2>2, <2>3 DEF NamedIn, Naming
    <2>. QED  BY <2>2, <2>3, <2>4
  <1>. QED  BY <1>1, <1>2

(* What is listed has a name and is what its entry says.                    *)
LEMMA ListedType ==
  ASSUME TypeOK, WellFormed, NEW d, NEW n, NEW i, NEW t, Lists(d, n, i, t)
  PROVE  /\ i \in Inodes /\ IsNamed(i) /\ inode_table[i].mode = t /\ i # ROOT_INODE_NO
         /\ n \in Names /\ t \in {"file", "dir"} /\ i \in inode_bitmap
  <1>1. PICK b \in Blocks : \E k \in DOMAIN Ents(b) :
          /\ Naming(Ents(b)[k]) /\ Ents(b)[k].name = n
          /\ Ents(b)[k].inode = i /\ Ents(b)[k].type = t
    BY DEF Lists
  <1>2. PICK k \in DOMAIN Ents(b) : /\ Naming(Ents(b)[k]) /\ Ents(b)[k].name = n
                                    /\ Ents(b)[k].inode = i /\ Ents(b)[k].type = t
    BY <1>1
  <1>3. Ents(b)[k] \in Entry /\ i \in Inodes /\ IsNamed(i)
    BY <1>2, NamingType
  <1>4. n \in Names /\ t \in {"file", "dir"}
    BY <1>2, <1>3 DEF Entry, Naming
  <1>5. inode_table[i].mode = t /\ i # ROOT_INODE_NO /\ i \in inode_bitmap
    BY <1>2 DEF WellFormed, NamesUsed
  <1>. QED  BY <1>3, <1>4, <1>5

(* The directories that can be reached are the least set that holds the root
   and, with a directory, the directories it lists.                         *)
Linked ==
  /\ ROOT_INODE_NO \in LinkedDirs
  /\ \A d \in LinkedDirs : d \in Inodes /\ DirOf(d)
  /\ \A d \in LinkedDirs : \A n, i : Lists(d, n, i, "dir") => i \in LinkedDirs
  /\ \A D \in SUBSET LinkedDirs :
       ROOT_INODE_NO \in D /\ (\A d \in D : \A n, i : Lists(d, n, i, "dir") => i \in D)
         => LinkedDirs \subseteq D

(* Rounds that grow end after as many as there are inodes.                  *)
LEMMA LinkedClosed ==
  ASSUME TypeOK
  PROVE  ROOT_INODE_NO \in LinkedDirs /\ SubDirs(LinkedDirs) \subseteq LinkedDirs
  <1>. DEFINE G == Inodes
  <1>1. \A D \in SUBSET Inodes : SubDirs(D) \subseteq Inodes
    <2>. SUFFICES ASSUME NEW D \in SUBSET Inodes, NEW i \in SubDirs(D) PROVE i \in Inodes
      OBVIOUS
    <2>1. PICK d \in D : \E s \in NamedIn(d) : i = At(d, s).inode
      BY DEF SubDirs
    <2>2. PICK s \in NamedIn(d) : i = At(d, s).inode
      BY <2>1
    <2>3. s \in Slots(d) /\ At(d, s).inode # 0 /\ d \in Inodes
      BY DEF NamedIn
    <2>4. At(d, s) \in Entry
      BY <2>3, AtType
    <2>. QED  BY <2>2, <2>3, <2>4 DEF Entry
  <1>2. PICK w : /\ \A n \in Nat : w[n] \in SUBSET Inodes
                 /\ w[0] = {ROOT_INODE_NO}
                 /\ \A n \in Nat : w[n + 1] = w[n] \cup SubDirs(w[n])
                 /\ LinkedDirs = w[INODES_PER_GROUP]
    <2>1. ROOT_INODE_NO \in G /\ G \in SUBSET Inodes /\ \A D \in SUBSET G : SubDirs(D) \subseteq G
      BY <1>1, LayoutFacts
    <2>. HIDE DEF G
    <2>2. \E w : /\ \A n \in Nat : w[n] \in SUBSET G
                 /\ w[0] = {ROOT_INODE_NO}
                 /\ \A n \in Nat : w[n + 1] = w[n] \cup SubDirs(w[n])
                 /\ LinkedDirs = w[INODES_PER_GROUP]
      BY <2>1, LinkedRounds
    <2>. QED  BY <2>2 DEF G
  <1>3. INODES_PER_GROUP \in Nat /\ IsFiniteSet(Inodes) /\ Cardinality(Inodes) = INODES_PER_GROUP
    <2>1. INODES_PER_GROUP \in Nat
      BY LayoutAssumption
    <2>2. /\ IsFiniteSet(1 .. INODES_PER_GROUP)
          /\ Cardinality(1 .. INODES_PER_GROUP) =
               IF 1 > INODES_PER_GROUP THEN 0 ELSE INODES_PER_GROUP - 1 + 1
      BY <2>1, FS_Interval
    <2>. QED  BY <2>1, <2>2 DEF Inodes
  <1>4. \A n \in Nat : IsFiniteSet(w[n]) /\ Cardinality(w[n]) \in Nat
                       /\ Cardinality(w[n]) <= INODES_PER_GROUP
    BY <1>2, <1>3, FS_Subset, FS_CardinalityType
  <1>. DEFINE P(n) == ROOT_INODE_NO \in w[n]
                      /\ (SubDirs(w[n]) \subseteq w[n] \/ Cardinality(w[n]) >= n + 1)
              S == {n \in Nat : P(n)}
  <1>5. 0 \in S
    <2>1. Cardinality(w[0]) = 1 /\ ROOT_INODE_NO \in w[0]
      BY <1>2, FS_Singleton
    <2>2. Cardinality(w[0]) >= 0 + 1
      BY <2>1
    <2>. QED  BY <2>1, <2>2
  <1>6. ASSUME NEW n \in Nat, n \in S PROVE n + 1 \in S
    <2>1. w[n + 1] = w[n] \cup SubDirs(w[n]) /\ n + 1 \in Nat /\ P(n)
      BY <1>2, <1>6
    <2>2. CASE SubDirs(w[n]) \subseteq w[n]
      <3>1. w[n + 1] = w[n]
        BY <2>1, <2>2
      <3>. QED  BY <2>1, <2>2, <3>1
    <2>3. CASE ~(SubDirs(w[n]) \subseteq w[n])
      <3>1. w[n] \subseteq w[n + 1] /\ w[n] # w[n + 1]
        BY <2>1, <2>3
      <3>2. Cardinality(w[n]) < Cardinality(w[n + 1])
        <4>1. IsFiniteSet(w[n + 1]) /\ w[n] \in SUBSET w[n + 1]
          BY <1>4, <2>1, <3>1
        <4>2. /\ Cardinality(w[n]) <= Cardinality(w[n + 1])
              /\ Cardinality(w[n + 1]) = Cardinality(w[n]) => w[n + 1] = w[n]
          BY <4>1, FS_Subset
        <4>3. Cardinality(w[n]) \in Nat /\ Cardinality(w[n + 1]) \in Nat
          BY <1>4, <2>1
        <4>. QED  BY <3>1, <4>2, <4>3
      <3>3. Cardinality(w[n]) >= n + 1 /\ ROOT_INODE_NO \in w[n + 1]
        BY <2>1, <2>3
      <3>4. Cardinality(w[n]) \in Nat /\ Cardinality(w[n + 1]) \in Nat
        BY <1>4, <2>1
      <3>5. Cardinality(w[n + 1]) >= n + 1 + 1
        BY <3>2, <3>3, <3>4
      <3>. QED  BY <2>1, <3>3, <3>5
    <2>. QED  BY <2>2, <2>3
  <1>7. P(INODES_PER_GROUP)
    <2>. HIDE DEF S, P
    <2>1. \A n \in Nat : n \in S
      BY <1>5, <1>6, SetInduction
    <2>2. INODES_PER_GROUP \in S
      BY <1>3, <2>1
    <2>. QED  BY <2>2 DEF S
  <1>8. Cardinality(w[INODES_PER_GROUP]) \in Nat
        /\ Cardinality(w[INODES_PER_GROUP]) <= INODES_PER_GROUP
    BY <1>3, <1>4
  <1>. QED  BY <1>2, <1>3, <1>7, <1>8

(* The directories on a path from the root are directories, their
   sub-directories are among them, and the root is one.                     *)
LEMMA LinkedFacts == TypeOK /\ WellFormed => Linked
  <1>. SUFFICES ASSUME TypeOK, WellFormed PROVE Linked
    OBVIOUS
  <1>1. ROOT_INODE_NO \in LinkedDirs /\ SubDirs(LinkedDirs) \subseteq LinkedDirs
    BY LinkedClosed
  <1>2. \A d \in LinkedDirs : d \in Inodes /\ DirOf(d)
    BY LinkedAreDirs
  <1>3. ASSUME NEW d \in LinkedDirs, NEW n, NEW i, Lists(d, n, i, "dir")
        PROVE  i \in LinkedDirs
    <2>1. PICK s \in NamedIn(d) : At(d, s).inode = i
      BY <1>2, <1>3, NamedInLists
    <2>2. inode_table[i].mode = "dir"
      BY <1>3, ListedType
    <2>3. i \in SubDirs(LinkedDirs)
      BY <2>1, <2>2 DEF SubDirs
    <2>. QED  BY <1>1, <2>3
  <1>4. ASSUME NEW D \in SUBSET LinkedDirs, ROOT_INODE_NO \in D,
               \A d \in D : \A n, i : Lists(d, n, i, "dir") => i \in D
        PROVE  LinkedDirs \subseteq D
    <2>1. ASSUME NEW E \in SUBSET D, NEW i \in SubDirs(E) PROVE i \in D
      <3>1. PICK d \in E : \E s \in NamedIn(d) : i = At(d, s).inode
        BY DEF SubDirs
      <3>2. PICK s \in NamedIn(d) : i = At(d, s).inode
        BY <3>1
      <3>3. d \in D /\ d \in Inodes /\ DirOf(d)
        BY <1>2
      <3>4. Lists(d, At(d, s).name, i, At(d, s).type)
        BY <3>2, <3>3, NamedInLists
      <3>5. inode_table[i].mode = "dir"
        BY DEF SubDirs
      <3>6. At(d, s).type = "dir"
        BY <3>4, <3>5, ListedType
      <3>. QED  BY <1>4, <3>3, <3>4, <3>6
    <2>2. D \in SUBSET Inodes
      BY <1>2
    <2>3. \A E \in SUBSET D : SubDirs(E) \subseteq D
      BY <2>1
    <2>. QED  BY <1>4, <2>2, <2>3, LinkedDirsIn
  <1>. QED  BY <1>1, <1>2, <1>3, <1>4 DEF Linked

-----------------------------------------------------------------------------
(* What a read returns.                                                     *)

(* The pointers a read follows: the direct ones up to the first hole, the
   indirect ones up to the first hole.                                      *)
NumDirect(i) == Cardinality(DirBlocks(i))
NumIndirect(i) ==
  Cardinality({j \in 0 .. NIndirect - 1 : \A k \in 0 .. j : PtrAt(i, NDirect + 1 + k) # 0})
ReadLen(i) ==
  IF NumDirect(i) + NumIndirect(i) < inode_table[i].size
  THEN NumDirect(i) + NumIndirect(i) ELSE inode_table[i].size
ReadAt(i, j) == IF j <= NumDirect(i) THEN j - 1 ELSE NDirect + (j - NumDirect(i))

(* The pointers of the indirect table, as positions of the map.             *)
LEMMA TablePtr ==
  ASSUME TypeOK, NEW i \in Inodes, NEW k \in 0 .. NIndirect - 1
  PROVE  PtrAt(i, NDirect + 1 + k) =
           LET node == inode_table[i]
               table == IF node.block[NDirect] = 0 \/ blk[node.block[NDirect]].kind # "table"
                        THEN NoPointers ELSE blk[node.block[NDirect]].ptr
           IN  table[k]
  <1>1. ~(NDirect + 1 + k <= NDirect) /\ (NDirect + 1 + k) - NDirect - 1 = k
    BY LayoutFacts
  <1>2. NoPointers[k] = 0
    BY DEF NoPointers
  <1>. QED  BY <1>1, <1>2 DEF PtrAt

(* The numbers of a read are numbers, and its pointers positions of the map. *)
LEMMA ReadNumbers ==
  ASSUME TypeOK, NEW i \in Inodes
  PROVE  /\ NumDirect(i) \in 0 .. NDirect /\ NumIndirect(i) \in 0 .. NIndirect
         /\ inode_table[i].size \in Nat /\ ReadLen(i) \in Nat
         /\ \A j \in 1 .. ReadLen(i) : ReadAt(i, j) \in Positions
  <1>0. NDirect \in Nat /\ NIndirect \in Nat
    BY LayoutFacts
  <1>1. NumDirect(i) \in 0 .. NDirect
    <2>1. IsFiniteSet(0 .. NDirect - 1) /\ Cardinality(0 .. NDirect - 1) = NDirect
      <3>1. /\ IsFiniteSet(0 .. NDirect - 1)
            /\ Cardinality(0 .. NDirect - 1) =
                 IF 0 > NDirect - 1 THEN 0 ELSE (NDirect - 1) - 0 + 1
        BY <1>0, FS_Interval
      <3>. QED  BY <1>0, <3>1
    <2>2. DirBlocks(i) \in SUBSET (0 .. NDirect - 1)
      BY DEF DirBlocks
    <2>3. Cardinality(DirBlocks(i)) <= NDirect /\ Cardinality(DirBlocks(i)) \in Nat
      BY <2>1, <2>2, FS_Subset, FS_CardinalityType
    <2>. QED  BY <1>0, <2>3 DEF NumDirect
  <1>2. NumIndirect(i) \in 0 .. NIndirect
    <2>. DEFINE S == {j \in 0 .. NIndirect - 1 : \A k \in 0 .. j : PtrAt(i, NDirect + 1 + k) # 0}
    <2>1. IsFiniteSet(0 .. NIndirect - 1) /\ Cardinality(0 .. NIndirect - 1) = NIndirect
      <3>1. /\ IsFiniteSet(0 .. NIndirect - 1)
            /\ Cardinality(0 .. NIndirect - 1) =
                 IF 0 > NIndirect - 1 THEN 0 ELSE (NIndirect - 1) - 0 + 1
        BY <1>0, FS_Interval
      <3>. QED  BY <1>0, <3>1
    <2>2. S \in SUBSET (0 .. NIndirect - 1)
      OBVIOUS
    <2>3. NumIndirect(i) = Cardinality(S)
      BY DEF NumIndirect
    <2>. HIDE DEF S
    <2>4. Cardinality(S) <= NIndirect /\ Cardinality(S) \in Nat
      BY <2>1, <2>2, FS_Subset, FS_CardinalityType
    <2>. QED  BY <1>0, <2>3, <2>4
  <1>3. inode_table[i].size \in Nat
    BY DiskParts DEF Inode
  <1>4. ReadLen(i) \in Nat /\ ReadLen(i) <= NumDirect(i) + NumIndirect(i)
    BY <1>1, <1>2, <1>3 DEF ReadLen
  <1>5. ASSUME NEW j \in 1 .. ReadLen(i) PROVE ReadAt(i, j) \in Positions
    BY <1>0, <1>1, <1>2, <1>4 DEF ReadAt, Positions
  <1>. QED  BY <1>1, <1>2, <1>3, <1>4, <1>5

(* read, pointer by pointer.                                                *)
LEMMA ReadIs ==
  ASSUME TypeOK, NEW i \in Inodes
  PROVE  read(i) = [j \in 1 .. ReadLen(i) |-> blk[PtrAt(i, ReadAt(i, j))].chunk]
  <1>0. NDirect \in Nat /\ NIndirect \in Nat
    BY LayoutFacts
  <1>. DEFINE node == inode_table[i]
              table == IF node.block[NDirect] = 0 \/ blk[node.block[NDirect]].kind # "table"
                       THEN NoPointers ELSE blk[node.block[NDirect]].ptr
              direct == {j \in 0 .. NDirect - 1 : \A k \in 0 .. j : node.block[k] # 0}
              indirect == {j \in 0 .. NIndirect - 1 : \A k \in 0 .. j : table[k] # 0}
              nd == Cardinality(direct)
              total == nd + Cardinality(indirect)
              len == IF total < node.size THEN total ELSE node.size
  <1>1. read(i) = [j \in 1 .. len |->
           blk[IF j <= nd THEN node.block[j - 1] ELSE table[j - nd - 1]].chunk]
    BY DEF read
  <1>2. nd = NumDirect(i)
    BY DEF NumDirect, DirBlocks
  <1>3. \A k \in 0 .. NIndirect - 1 : table[k] = PtrAt(i, NDirect + 1 + k)
    BY TablePtr
  <1>. HIDE DEF table
  <1>4. indirect = {j \in 0 .. NIndirect - 1 : \A k \in 0 .. j : PtrAt(i, NDirect + 1 + k) # 0}
    BY <1>0, <1>3
  <1>5. Cardinality(indirect) = NumIndirect(i)
    BY <1>4 DEF NumIndirect
  <1>6. len = ReadLen(i)
    BY <1>2, <1>5 DEF ReadLen
  <1>. HIDE DEF nd, len, indirect
  <1>7. ASSUME NEW j \in 1 .. ReadLen(i)
        PROVE  (IF j <= nd THEN node.block[j - 1] ELSE table[j - nd - 1]) = PtrAt(i, ReadAt(i, j))
    <2>1. /\ NumDirect(i) \in 0 .. NDirect /\ NumIndirect(i) \in 0 .. NIndirect
          /\ ReadLen(i) \in Nat /\ inode_table[i].size \in Nat
      BY ReadNumbers
    <2>2. ReadLen(i) <= NumDirect(i) + NumIndirect(i)
      BY <2>1 DEF ReadLen
    <2>3. CASE j <= nd
      <3>1. ReadAt(i, j) = j - 1 /\ j - 1 <= NDirect
        BY <1>0, <1>2, <2>1, <2>3 DEF ReadAt
      <3>. QED  BY <2>3, <3>1 DEF PtrAt
    <2>4. CASE ~(j <= nd)
      <3>1. PICK k : k = j - nd - 1
        OBVIOUS
      <3>2. k \in 0 .. NIndirect - 1 /\ ReadAt(i, j) = NDirect + 1 + k
        BY <1>0, <1>2, <2>1, <2>2, <2>4, <3>1 DEF ReadAt
      <3>. QED  BY <1>3, <2>4, <3>1, <3>2
    <2>. QED  BY <2>3, <2>4
  <1>. QED  BY <1>1, <1>6, <1>7

(* An inode that keeps its pointers and its blocks reads the same.          *)
LEMMA ReadSame ==
  ASSUME TypeOK, TypeOK', NEW i \in Inodes, inode_table'[i] = inode_table[i],
         \A b \in Blocks : b = 0 \/ (\E j \in Positions : PtrAt(i, j) = b) => blk'[b] = blk[b]
  PROVE  read(i)' = read(i) /\ \A j \in Positions : PtrAt(i, j)' = PtrAt(i, j)
  <1>0. NDirect \in Nat /\ NIndirect \in Nat
    BY LayoutFacts
  <1>1. ASSUME NEW j \in Positions PROVE PtrAt(i, j)' = PtrAt(i, j)
    <2>1. PICK b : b = inode_table[i].block[NDirect]
      OBVIOUS
    <2>2. b \in Blocks /\ PtrAt(i, NDirect) = b /\ NDirect \in Positions
      BY <1>0, <2>1, DiskParts, PositionFacts DEF PtrAt
    <2>3. blk'[b] = blk[b]
      BY <2>2
    <2>. QED  BY <2>1, <2>3 DEF PtrAt
  <1>2. NumDirect(i)' = NumDirect(i)
    BY DEF NumDirect, DirBlocks
  <1>3. NumIndirect(i)' = NumIndirect(i)
    <2>1. \A k \in 0 .. NIndirect - 1 : NDirect + 1 + k \in Positions
      BY <1>0 DEF Positions
    <2>2. \A k \in 0 .. NIndirect - 1 : PtrAt(i, NDirect + 1 + k)' = PtrAt(i, NDirect + 1 + k)
      BY <1>1, <2>1
    <2>3. {j \in 0 .. NIndirect - 1 : \A k \in 0 .. j : PtrAt(i, NDirect + 1 + k)' # 0} =
          {j \in 0 .. NIndirect - 1 : \A k \in 0 .. j : PtrAt(i, NDirect + 1 + k) # 0}
      <3>1. \A j \in 0 .. NIndirect - 1 : \A k \in 0 .. j : k \in 0 .. NIndirect - 1
        BY <1>0
      <3>. QED  BY <2>2, <3>1, Zenon
    <2>. QED  BY <2>3 DEF NumIndirect
  <1>4. ReadLen(i)' = ReadLen(i) /\ \A j : ReadAt(i, j)' = ReadAt(i, j)
    BY <1>2, <1>3 DEF ReadLen, ReadAt
  <1>5. read(i) = [j \in 1 .. ReadLen(i) |-> blk[PtrAt(i, ReadAt(i, j))].chunk]
    BY ReadIs
  <1>6. read(i)' = [j \in 1 .. ReadLen(i)' |-> blk'[PtrAt(i, ReadAt(i, j))'].chunk]
    <2>1. (TypeOK => read(i) = [j \in 1 .. ReadLen(i) |-> blk[PtrAt(i, ReadAt(i, j))].chunk])'
      BY ReadIs, PTL
    <2>. QED  BY <2>1
  <1>7. ASSUME NEW j \in 1 .. ReadLen(i)
        PROVE  blk'[PtrAt(i, ReadAt(i, j))'] = blk[PtrAt(i, ReadAt(i, j))]
    <2>1. ReadAt(i, j) \in Positions
      BY ReadNumbers
    <2>2. PICK q \in Positions : q = ReadAt(i, j) /\ q = ReadAt(i, j)'
      BY <1>4, <2>1
    <2>3. PtrAt(i, q)' = PtrAt(i, q) /\ PtrAt(i, q) \in Blocks
      BY <1>1, PtrType
    <2>4. blk'[PtrAt(i, q)] = blk[PtrAt(i, q)]
      BY <2>3
    <2>5. PtrAt(i, ReadAt(i, j))' = PtrAt(i, q)'
      BY <2>2 DEF PtrAt
    <2>. QED  BY <2>2, <2>3, <2>4, <2>5
  <1>. QED  BY <1>1, <1>4, <1>5, <1>6, <1>7

-----------------------------------------------------------------------------
(* The tree as FileSystem sees it.                                          *)
TreeEntry(d, n, i, t) ==
  [dir |-> d, name |-> n, node |-> i, kind |-> t,
   data |-> IF t = "dir" THEN <<>> ELSE read(i)]

(* Its entries are what the directories that can be reached list.           *)
TreeIs ==
  /\ \A d \in LinkedDirs : \A n, i, t : Lists(d, n, i, t) => TreeEntry(d, n, i, t) \in Tree
  /\ \A e \in Tree : \E d \in LinkedDirs : \E n, i, t :
       Lists(d, n, i, t) /\ e = TreeEntry(d, n, i, t)

(* The tree is what the directories on a path from the root list.           *)
LEMMA TreeLists == TypeOK /\ WellFormed => TreeIs
  <1>. SUFFICES ASSUME TypeOK, WellFormed PROVE TreeIs
    OBVIOUS
  <1>0. \A d \in LinkedDirs : d \in Inodes /\ DirOf(d)
    BY LinkedAreDirs
  <1>1. ASSUME NEW d \in LinkedDirs, NEW n, NEW i, NEW t, Lists(d, n, i, t)
        PROVE  TreeEntry(d, n, i, t) \in Tree
    <2>1. PICK s \in NamedIn(d) : At(d, s).name = n /\ At(d, s).inode = i /\ At(d, s).type = t
      BY <1>0, <1>1, NamedInLists
    <2>2. PICK x : x = <<d, s>>
      OBVIOUS
    <2>3. x \in NamedSlots /\ EntryAt(x) = At(d, s) /\ x[1] = d
      BY <2>2 DEF NamedSlots, EntryAt
    <2>. QED  BY <2>1, <2>3 DEF Tree, TreeEntry
  <1>2. ASSUME NEW e \in Tree
        PROVE  \E d \in LinkedDirs : \E n, i, t : Lists(d, n, i, t) /\ e = TreeEntry(d, n, i, t)
    <2>1. PICK x \in NamedSlots :
            e = TreeEntry(x[1], EntryAt(x).name, EntryAt(x).inode, EntryAt(x).type)
      BY DEF Tree, TreeEntry
    <2>2. x[1] \in LinkedDirs /\ x[2] \in NamedIn(x[1]) /\ EntryAt(x) = At(x[1], x[2])
      BY DEF NamedSlots, EntryAt
    <2>3. Lists(x[1], EntryAt(x).name, EntryAt(x).inode, EntryAt(x).type)
      BY <1>0, <2>2, NamedInLists
    <2>. QED  BY <2>1, <2>2, <2>3
  <1>. QED  BY <1>1, <1>2 DEF TreeIs

(* Before and after a step.                                                 *)
LEMMA BothTrees ==
  ASSUME TypeOK, TypeOK', WellFormed, WellFormed'
  PROVE  Linked /\ Linked' /\ TreeIs /\ TreeIs'
  <1>1. (TypeOK /\ WellFormed => Linked)'
    BY LinkedFacts, PTL
  <1>2. (TypeOK /\ WellFormed => TreeIs)'
    BY TreeLists, PTL
  <1>. QED  BY <1>1, <1>2, LinkedFacts, TreeLists

(* If the directories list what they listed, the same ones can be reached.  *)
LEMMA SameLinks ==
  ASSUME Linked, Linked',
         \A d \in LinkedDirs : \A n, i : Lists(d, n, i, "dir")' <=> Lists(d, n, i, "dir")
  PROVE  LinkedDirs' = LinkedDirs
  <1>. DEFINE D == LinkedDirs \cap LinkedDirs'
  <1>1. ROOT_INODE_NO \in D /\ D \in SUBSET LinkedDirs /\ D \in SUBSET LinkedDirs'
    BY DEF Linked
  <1>2. ASSUME NEW d \in D, NEW n, NEW i, Lists(d, n, i, "dir") \/ Lists(d, n, i, "dir")'
        PROVE  i \in D
    <2>1. Lists(d, n, i, "dir") /\ Lists(d, n, i, "dir")'
      BY <1>2
    <2>. QED  BY <2>1 DEF Linked
  <1>. HIDE DEF D
  <1>3. LinkedDirs \subseteq D
    BY <1>1, <1>2 DEF Linked
  <1>4. LinkedDirs' \subseteq D
    BY <1>1, <1>2 DEF Linked
  <1>. QED  BY <1>1, <1>3, <1>4

(* If the files read as they did, the tree is the same.                     *)
LEMMA SameEntries ==
  ASSUME TreeIs, TreeIs', LinkedDirs' = LinkedDirs,
         \A d \in LinkedDirs : \A n, i, t : Lists(d, n, i, t)' <=> Lists(d, n, i, t),
         \A d \in LinkedDirs : \A n, i, t : Lists(d, n, i, t) /\ t # "dir" => read(i)' = read(i)
  PROVE  Tree' = Tree
  <1>1. ASSUME NEW d \in LinkedDirs, NEW n, NEW i, NEW t, Lists(d, n, i, t)
        PROVE  TreeEntry(d, n, i, t)' = TreeEntry(d, n, i, t)
    BY <1>1 DEF TreeEntry
  <1>2. ASSUME NEW e \in Tree PROVE e \in Tree'
    <2>1. PICK d \in LinkedDirs : \E n, i, t : Lists(d, n, i, t) /\ e = TreeEntry(d, n, i, t)
      BY DEF TreeIs
    <2>2. PICK n, i, t : Lists(d, n, i, t) /\ e = TreeEntry(d, n, i, t)
      BY <2>1
    <2>3. TreeEntry(d, n, i, t)' \in Tree'
      BY <2>2 DEF TreeIs
    <2>. QED  BY <1>1, <2>2, <2>3
  <1>3. ASSUME NEW e \in Tree' PROVE e \in Tree
    <2>1. PICK d \in LinkedDirs : \E n, i, t : Lists(d, n, i, t)' /\ e = TreeEntry(d, n, i, t)'
      BY DEF TreeIs
    <2>2. PICK n, i, t : Lists(d, n, i, t)' /\ e = TreeEntry(d, n, i, t)'
      BY <2>1
    <2>3. Lists(d, n, i, t)
      BY <2>2
    <2>4. TreeEntry(d, n, i, t) \in Tree
      BY <2>3 DEF TreeIs
    <2>. QED  BY <1>1, <2>2, <2>3, <2>4
  <1>. QED  BY <1>2, <1>3

-----------------------------------------------------------------------------
(* A step that changes nothing that has a name.                             *)
Quiet == /\ \A i \in Inodes : IsNamed(i) => inode_table'[i] = inode_table[i]
         /\ \A b \in Blocks : b = 0 \/ Owned(b) => blk'[b] = blk[b]

(* The blocks of an inode with a name have an owner.                        *)
LEMMA NamedOwns ==
  ASSUME TypeOK, NEW i \in Inodes, IsNamed(i)
  PROVE  /\ \A j \in Positions : Owned(PtrAt(i, j))
         /\ \A p \in Direct : /\ inode_table[i].block[p] \in Blocks
                              /\ Owned(inode_table[i].block[p])
                              /\ PtrAt(i, p) = inode_table[i].block[p] /\ p \in Positions
  <1>1. \A j \in Positions : Owned(PtrAt(i, j))
    BY DEF Owned
  <1>2. ASSUME NEW p \in Direct PROVE /\ inode_table[i].block[p] \in Blocks /\ p \in Positions
                                      /\ PtrAt(i, p) = inode_table[i].block[p]
    <2>1. p \in 0 .. NDirect /\ p <= NDirect /\ p \in Positions
      BY LayoutFacts DEF Direct, Positions
    <2>2. inode_table[i].block \in [0 .. NDirect -> Blocks]
      BY DiskParts
    <2>. QED  BY <2>1, <2>2 DEF PtrAt
  <1>. QED  BY <1>1, <1>2

(* A directory lists what it listed if its blocks hold the same records.    *)
LEMMA SameLists ==
  ASSUME NEW d, inode_table'[d].block = inode_table[d].block,
         \A p \in Direct : \A b \in Blocks :
           b = inode_table[d].block[p] /\ b # 0 => Ents(b)' = Ents(b)
  PROVE  \A n, i, t : Lists(d, n, i, t)' <=> Lists(d, n, i, t)
  <1>. SUFFICES ASSUME NEW n, NEW i, NEW t PROVE Lists(d, n, i, t)' <=> Lists(d, n, i, t)
    OBVIOUS
  <1>. DEFINE Has(ents) == \E k \in DOMAIN ents : /\ Naming(ents[k]) /\ ents[k].name = n
                                                  /\ ents[k].inode = i /\ ents[k].type = t
  <1>1. Lists(d, n, i, t) <=> \E p \in Direct, b \in Blocks :
                                /\ b = inode_table[d].block[p] /\ b # 0 /\ Has(Ents(b))
    BY DEF Lists
  <1>2. Lists(d, n, i, t)' <=> \E p \in Direct, b \in Blocks :
                                /\ b = inode_table[d].block[p] /\ b # 0 /\ Has(Ents(b)')
    BY DEF Lists, Naming
  <1>. HIDE DEF Has
  <1>. QED  BY <1>1, <1>2

(* A directory that has a name then lists what it did.                      *)
LEMMA QuietLists ==
  ASSUME TypeOK, Quiet, NEW d \in Inodes, IsNamed(d)
  PROVE  \A n, i, t : Lists(d, n, i, t)' <=> Lists(d, n, i, t)
  <1>1. inode_table'[d] = inode_table[d]
    BY DEF Quiet
  <1>2. ASSUME NEW p \in Direct, NEW b \in Blocks, b = inode_table[d].block[p]
        PROVE  Ents(b)' = Ents(b)
    <2>1. Owned(b)
      BY <1>2, NamedOwns
    <2>. QED  BY <2>1 DEF Quiet, Ents
  <1>. QED  BY <1>1, <1>2, SameLists

(* Such a step leaves the tree as it was.                                   *)
LEMMA QuietKept ==
  ASSUME TypeOK, TypeOK', WellFormed, WellFormed', Quiet
  PROVE  Tree' = Tree /\ LinkedDirs' = LinkedDirs
  <1>0. Linked /\ Linked' /\ TreeIs /\ TreeIs'
    BY BothTrees
  <1>1. \A d \in LinkedDirs : d \in Inodes /\ IsNamed(d)
    BY <1>0 DEF Linked, DirOf
  <1>2. \A d \in LinkedDirs : \A n, i, t : Lists(d, n, i, t)' <=> Lists(d, n, i, t)
    BY <1>1, QuietLists
  <1>3. LinkedDirs' = LinkedDirs
    BY <1>0, <1>2, SameLinks
  <1>4. ASSUME NEW d \in LinkedDirs, NEW n, NEW i, NEW t, Lists(d, n, i, t)
        PROVE  read(i)' = read(i)
    <2>1. i \in Inodes /\ IsNamed(i)
      BY <1>4, ListedType
    <2>2. inode_table'[i] = inode_table[i]
      BY <2>1 DEF Quiet
    <2>3. \A b \in Blocks : b = 0 \/ (\E j \in Positions : PtrAt(i, j) = b) => blk'[b] = blk[b]
      BY <2>1, NamedOwns DEF Quiet
    <2>. QED  BY <2>1, <2>2, <2>3, ReadSame
  <1>5. Tree' = Tree
    BY <1>0, <1>2, <1>3, <1>4, SameEntries
  <1>. QED  BY <1>3, <1>5

(* One entry more: directory q lists j of type u by the name m, and j, if it is
   a directory, lists nothing.                                              *)
LEMMA GainedEntry ==
  ASSUME Linked, Linked', TreeIs, TreeIs', NEW q \in LinkedDirs, NEW m, NEW j, NEW u,
         \A d \in LinkedDirs : \A n, i, t :
           Lists(d, n, i, t)' <=> Lists(d, n, i, t) \/ (d = q /\ n = m /\ i = j /\ t = u),
         u = "dir" => \A n, i, t : ~Lists(j, n, i, t)',
         \A d \in LinkedDirs : \A n, i, t : Lists(d, n, i, t) /\ t # "dir" => read(i)' = read(i)
  PROVE  /\ Tree' = Tree \cup {TreeEntry(q, m, j, u)'}
         /\ LinkedDirs \subseteq LinkedDirs'
  <1>. DEFINE D == LinkedDirs \cap LinkedDirs'
              New == {i \in {j} : u = "dir"}
              E == LinkedDirs' \cap (LinkedDirs \cup New)
  <1>1. LinkedDirs \subseteq LinkedDirs'
    <2>1. ROOT_INODE_NO \in D /\ D \in SUBSET LinkedDirs
      BY DEF Linked
    <2>2. ASSUME NEW d \in D, NEW n, NEW i, Lists(d, n, i, "dir") PROVE i \in D
      <3>1. Lists(d, n, i, "dir")'
        BY <2>2
      <3>. QED  BY <2>2, <3>1 DEF Linked
    <2>. HIDE DEF D
    <2>3. LinkedDirs \subseteq D
      BY <2>1, <2>2 DEF Linked
    <2>. QED  BY <2>3 DEF D
  <1>2. LinkedDirs' \subseteq LinkedDirs \cup New
    <2>1. ROOT_INODE_NO \in E /\ E \in SUBSET LinkedDirs'
      BY DEF Linked
    <2>2. ASSUME NEW d \in E, NEW n, NEW i, Lists(d, n, i, "dir")' PROVE i \in E
      <3>1. i \in LinkedDirs'
        BY <2>2 DEF Linked
      <3>2. d \in LinkedDirs
        BY <2>2
      <3>3. Lists(d, n, i, "dir") \/ (i = j /\ u = "dir")
        BY <2>2, <3>2
      <3>4. i \in LinkedDirs \/ i \in New
        BY <3>2, <3>3 DEF Linked
      <3>. QED  BY <3>1, <3>4
    <2>. HIDE DEF E
    <2>3. LinkedDirs' \subseteq E
      BY <2>1, <2>2 DEF Linked
    <2>. QED  BY <2>3 DEF E
  <1>3. ASSUME NEW d \in LinkedDirs, NEW n, NEW i, NEW t, Lists(d, n, i, t)
        PROVE  TreeEntry(d, n, i, t)' = TreeEntry(d, n, i, t)
    BY <1>3 DEF TreeEntry
  <1>4. TreeEntry(q, m, j, u)' \in Tree'
    <2>1. Lists(q, m, j, u)' /\ q \in LinkedDirs'
      BY <1>1
    <2>. QED  BY <2>1 DEF TreeIs
  <1>5. ASSUME NEW e \in Tree PROVE e \in Tree'
    <2>1. PICK d \in LinkedDirs : \E n, i, t : Lists(d, n, i, t) /\ e = TreeEntry(d, n, i, t)
      BY DEF TreeIs
    <2>2. PICK n, i, t : Lists(d, n, i, t) /\ e = TreeEntry(d, n, i, t)
      BY <2>1
    <2>3. Lists(d, n, i, t)' /\ d \in LinkedDirs'
      BY <1>1, <2>2
    <2>4. TreeEntry(d, n, i, t)' \in Tree'
      BY <2>3 DEF TreeIs
    <2>. QED  BY <1>3, <2>2, <2>4
  <1>6. ASSUME NEW e \in Tree' PROVE e \in Tree \/ e = TreeEntry(q, m, j, u)'
    <2>1. PICK d \in LinkedDirs' : \E n, i, t : Lists(d, n, i, t)' /\ e = TreeEntry(d, n, i, t)'
      BY DEF TreeIs
    <2>2. PICK n, i, t : Lists(d, n, i, t)' /\ e = TreeEntry(d, n, i, t)'
      BY <2>1
    <2>3. d \in LinkedDirs
      BY <1>2, <2>2
    <2>4. CASE Lists(d, n, i, t)
      <3>1. TreeEntry(d, n, i, t) \in Tree
        BY <2>3, <2>4 DEF TreeIs
      <3>. QED  BY <1>3, <2>2, <2>3, <2>4, <3>1
    <2>5. CASE d = q /\ n = m /\ i = j /\ t = u
      BY <2>2, <2>5 DEF TreeEntry
    <2>. QED  BY <2>2, <2>3, <2>4, <2>5
  <1>. QED  BY <1>1, <1>4, <1>5, <1>6

(* One entry less: directory q no longer lists j by the name m, and j listed
   nothing itself.                                                          *)
LEMMA LostEntry ==
  ASSUME Linked, Linked', TreeIs, TreeIs', NEW q \in LinkedDirs, NEW m, NEW j, NEW u,
         Lists(q, m, j, u), \A i, t : Lists(q, m, i, t) => i = j /\ t = u,
         \A d \in LinkedDirs : \A n, i, t :
           Lists(d, n, i, t)' <=> Lists(d, n, i, t) /\ ~(d = q /\ n = m),
         u = "dir" => \A n, i, t : ~Lists(j, n, i, t),
         \A d \in LinkedDirs : \A n, i, t : Lists(d, n, i, t) /\ t # "dir" => read(i)' = read(i)
  PROVE  /\ Tree' = Tree \ {TreeEntry(q, m, j, u)}
         /\ TreeEntry(q, m, j, u) \in Tree
         /\ LinkedDirs' \subseteq LinkedDirs
  <1>. DEFINE D == LinkedDirs \cap LinkedDirs'
              Old == {i \in {j} : u = "dir"}
              E == LinkedDirs \cap (LinkedDirs' \cup Old)
  <1>1. LinkedDirs' \subseteq LinkedDirs
    <2>1. ROOT_INODE_NO \in D /\ D \in SUBSET LinkedDirs'
      BY DEF Linked
    <2>2. ASSUME NEW d \in D, NEW n, NEW i, Lists(d, n, i, "dir")' PROVE i \in D
      <3>1. Lists(d, n, i, "dir")
        BY <2>2
      <3>. QED  BY <2>2, <3>1 DEF Linked
    <2>. HIDE DEF D
    <2>3. LinkedDirs' \subseteq D
      BY <2>1, <2>2 DEF Linked
    <2>. QED  BY <2>3 DEF D
  <1>2. LinkedDirs \subseteq LinkedDirs' \cup Old
    <2>1. ROOT_INODE_NO \in E /\ E \in SUBSET LinkedDirs
      BY DEF Linked
    <2>2. ASSUME NEW d \in E, NEW n, NEW i, Lists(d, n, i, "dir") PROVE i \in E
      <3>1. i \in LinkedDirs /\ d \in LinkedDirs'
        BY <2>2 DEF Linked
      <3>2. CASE d = q /\ n = m
        BY <2>2, <3>1, <3>2
      <3>3. CASE ~(d = q /\ n = m)
        <4>1. Lists(d, n, i, "dir")'
          BY <2>2, <3>3
        <4>2. i \in LinkedDirs'
          BY <3>1, <4>1 DEF Linked
        <4>. QED  BY <3>1, <4>2
      <3>. QED  BY <3>2, <3>3
    <2>. HIDE DEF E
    <2>3. LinkedDirs \subseteq E
      BY <2>1, <2>2 DEF Linked
    <2>. QED  BY <2>3 DEF E
  <1>3. ASSUME NEW d \in LinkedDirs, NEW n, NEW i, NEW t, Lists(d, n, i, t)
        PROVE  TreeEntry(d, n, i, t)' = TreeEntry(d, n, i, t)
    BY <1>3 DEF TreeEntry
  <1>4. TreeEntry(q, m, j, u) \in Tree
    BY DEF TreeIs
  <1>5. ASSUME NEW e \in Tree, e # TreeEntry(q, m, j, u) PROVE e \in Tree'
    <2>1. PICK d \in LinkedDirs : \E n, i, t : Lists(d, n, i, t) /\ e = TreeEntry(d, n, i, t)
      BY DEF TreeIs
    <2>2. PICK n, i, t : Lists(d, n, i, t) /\ e = TreeEntry(d, n, i, t)
      BY <2>1
    <2>3. ~(d = q /\ n = m)
      BY <1>5, <2>2
    <2>4. Lists(d, n, i, t)' /\ d \in LinkedDirs'
      BY <1>2, <2>2, <2>3
    <2>5. TreeEntry(d, n, i, t)' \in Tree'
      BY <2>4 DEF TreeIs
    <2>. QED  BY <1>3, <2>2, <2>5
  <1>6. ASSUME NEW e \in Tree' PROVE e \in Tree /\ e # TreeEntry(q, m, j, u)
    <2>1. PICK d \in LinkedDirs' : \E n, i, t : Lists(d, n, i, t)' /\ e = TreeEntry(d, n, i, t)'
      BY DEF TreeIs
    <2>2. PICK n, i, t : Lists(d, n, i, t)' /\ e = TreeEntry(d, n, i, t)'
      BY <2>1
    <2>3. d \in LinkedDirs /\ Lists(d, n, i, t) /\ ~(d = q /\ n = m)
      BY <1>1, <2>2
    <2>4. TreeEntry(d, n, i, t) \in Tree /\ e = TreeEntry(d, n, i, t)
      BY <1>3, <2>2, <2>3 DEF TreeIs
    <2>5. TreeEntry(d, n, i, t) # TreeEntry(q, m, j, u)
      BY <2>3 DEF TreeEntry
    <2>. QED  BY <2>4, <2>5
  <1>. QED  BY <1>1, <1>4, <1>5, <1>6

-----------------------------------------------------------------------------
(* The inductive invariant of the refinement, beside TreeInv.               *)

(* Every mkdir finds a block.  Without one write makes a directory that has
   neither "." nor "..", whose first two names delete then takes for them.  *)
Roomy == pc = "dir" => ~NoBlock

(* The place a call has reached says which call it is.                      *)
DeletingLabels == {"delete", "free", "clear_node", "done"}
OpAt(l) ==
  /\ l \in {"off", "idle"} \cup MkfsLabels => fr.op = "none"
  /\ l \in MakingLabels \cup {"write"} => fr.op = "write"
  /\ l \in DeletingLabels => fr.op = "delete"
  /\ fr.dir => fr.content = <<>>

(* The first m chunks of the content are in the blocks the new inode points at
   first, and it points at no others.                                       *)
DataAt(k) == IF k < NDirect THEN k ELSE k + 1
Filled(m) ==
  /\ m <= Len(fr.content)
  /\ \A k \in 0 .. NDirect + NIndirect - 1 :
       IF k < m
       THEN Held(DataAt(k)) # 0 /\ blk[Held(DataAt(k))] = DataBlock(fr.content[k + 1])
       ELSE Held(DataAt(k)) = 0

(* The new file holds a prefix of its content.                              *)
PrefixStored ==
  /\ \E m \in 0 .. NDirect + NIndirect :
       Filled(m) /\ (m > NDirect => fr.node.block[NDirect] # 0)
  /\ fr.node.size = Len(fr.content)

(* The first block of directory d in directory e: itself, its parent, and then
   no more dots.                                                            *)
Dotted(d, e, ents) ==
  /\ Len(ents) >= 2
  /\ ents[1].name = "." /\ ents[1].inode = d /\ ents[1].rec_len = RecLen(".")
  /\ ents[2].name = ".." /\ ents[2].inode = e
  /\ \A k \in 3 .. Len(ents) : ents[k].name \notin Dots
Dotless(ents) == \A k \in DOMAIN ents : ents[k].name \notin Dots

(* The new directory has the two dots, nothing else.                        *)
DotsStored ==
  fr.node.block[0] # 0 /\ Ents(fr.node.block[0]) = DotEntries(fr.inum, fr.parent)

(* What a call has done so far: the directory it was given can still be reached
   from the root, and the new inode has what its maker has stored.  A disk that
   runs full in the loop over the direct blocks still is when write asks for
   the indirect one, so a file cut short has no hole.                       *)
DoneAt(l) ==
  /\ l \in MakingLabels \cup {"write", "delete"} /\ fr.parent # 0 => fr.parent \in LinkedDirs
  /\ l = "write" => fr.n = 0
  /\ l \in FileLabels => /\ Filled(fr.n) /\ fr.n <= NDirect + NIndirect
                         /\ fr.node.size = Len(fr.content)
  /\ l \in EarlyLabels => fr.n <= NDirect
  /\ l = "indirect" /\ fr.n < NDirect /\ fr.n < Len(fr.content) => NoBlock
  /\ l = "table" => fr.n = NDirect
  /\ l \in BuiltLabels => IF fr.dir THEN DotsStored ELSE PrefixStored

(* Every directory with a name is laid out so, and the dots of one that d lists
   lead to d.                                                               *)
DotsHome ==
  \A d \in Inodes : DirOf(d) =>
    /\ inode_table[d].block[0] # 0
    /\ \E e \in Inodes \cup {0} : Dotted(d, e, DirEnts(d, 0))
    /\ \A p \in 1 .. NDirect - 1 : inode_table[d].block[p] # 0 => Dotless(DirEnts(d, p))
    /\ \A n \in Names, i \in Inodes :
         Lists(d, n, i, "dir") => Dotted(i, d, DirEnts(i, 0))

(* The inductive invariant of the refinement.                               *)
RefInv == OpAt(Ahead) /\ (Formatting \/ (DotsHome /\ DoneAt(Ahead)))

-----------------------------------------------------------------------------
(* The steps that change nothing that has a name.                           *)
LEMMA QuietUnchanged ==
  ASSUME UNCHANGED <<blk, inode_table>>
  PROVE  Quiet /\ \A i : IsNamed(i)' => IsNamed(i)
  BY DEF Quiet, IsNamed, Ents

(* A block that only the call has does not belong to what has a name.       *)
LEMMA QuietPut ==
  ASSUME TypeOK, NEW x \in Blocks, Private(x), NEW c, blk' = [blk EXCEPT ![x] = c],
         UNCHANGED inode_table
  PROVE  Quiet
  <1>1. x # 0 /\ ~Owned(x)
    BY LayoutAssumption DEF Private, ROOT_DIR_BLOCK_LBA, INODE_TABLE_LBA
  <1>2. \A b \in Blocks : b # x => blk'[b] = blk[b]
    BY DEF TypeOK
  <1>. QED  BY <1>1, <1>2 DEF Quiet

(* Nor does an inode without a name.                                        *)
LEMMA QuietNode ==
  ASSUME TypeOK, NEW x, ~IsNamed(x), NEW n, inode_table' = [inode_table EXCEPT ![x] = n],
         UNCHANGED blk
  PROVE  Quiet
  BY DEF Quiet, TypeOK

(* What write stores before the inode has a name, and what delete clears after
   it has lost it.                                                          *)
QuietWrite == \/ StoreDirect \/ StorePointer \/ WriteTable \/ WriteDots \/ WriteInode
              \/ ClearInode \/ FreeBlock

(* Those steps change nothing that has a name, and name nothing.            *)
LEMMA QuietWrites ==
  ASSUME Inv, TypeOK', WellFormed, CallGood, QuietWrite
  PROVE  Quiet /\ \A i : IsNamed(i)' => IsNamed(i)
  <1>. USE DEF MakingLabels, FileLabels, MappedLabels, EarlyLabels, DirLabels,
               BuiltLabels, NamingLabels, PendingLabels
  <1>0. TypeOK
    BY DEF Inv
  <1>1. CASE StoreDirect
    <2>1. PendingBlock /\ UNCHANGED inode_table
          /\ blk' = [blk EXCEPT ![fr.got] = DataBlock(fr.content[fr.n + 1])]
      BY <1>1, GoodHere DEF StoreDirect, GoodAt, Meta
    <2>2. Quiet
      BY <1>0, <2>1, GotBlock, QuietPut
    <2>. QED  BY <1>0, <1>1, <2>2, StoreDirectTree, SameTreeKept
  <1>2. CASE StorePointer
    <2>1. PendingBlock /\ UNCHANGED inode_table
          /\ blk' = [blk EXCEPT ![fr.got] = DataBlock(fr.content[fr.n + 1])]
      BY <1>2, GoodHere DEF StorePointer, GoodAt, Meta
    <2>2. Quiet
      BY <1>0, <2>1, GotBlock, QuietPut
    <2>. QED  BY <1>0, <1>2, <2>2, StorePointerTree, SameTreeKept
  <1>3. CASE WriteDots
    <2>1. PendingBlock /\ UNCHANGED inode_table
          /\ blk' = [blk EXCEPT ![fr.got] = DirBlock(DotEntries(fr.inum, fr.parent))]
      BY <1>3, GoodHere DEF WriteDots, GoodAt, Meta
    <2>2. Quiet
      BY <1>0, <2>1, GotBlock, QuietPut
    <2>. QED  BY <1>0, <1>3, <2>2, WriteDotsTree, SameTreeKept
  <1>4. CASE WriteTable
    <2>1. MakingBlocks /\ fr.node.block[NDirect] # 0 /\ UNCHANGED inode_table
          /\ blk' = [blk EXCEPT ![fr.node.block[NDirect]] = TableBlock(fr.ptr)]
      BY <1>4, GoodHere DEF WriteTable, GoodAt, Meta
    <2>2. PICK x : x = fr.node.block[NDirect]
      OBVIOUS
    <2>3. Held(NDirect) = x /\ NDirect \in Positions /\ x \in Blocks
      BY <1>0, <2>2, PositionFacts, FrameParts DEF Held
    <2>4. Private(x)
      BY <2>1, <2>2, <2>3 DEF MakingBlocks
    <2>5. Quiet
      BY <1>0, <2>1, <2>2, <2>3, <2>4, QuietPut
    <2>. QED  BY <1>0, <1>4, <2>5, WriteTableTree, SameTreeKept
  <1>5. CASE WriteInode
    <2>1. ~IsNamed(fr.inum) /\ UNCHANGED blk
          /\ inode_table' = [inode_table EXCEPT ![fr.inum] = fr.node]
      BY <1>5, GoodHere DEF WriteInode, GoodAt, Meta, MakingNode
    <2>2. Quiet
      BY <1>0, <2>1, QuietNode
    <2>. QED  BY <1>0, <1>5, <2>2, WriteInodeTree, SameTreeKept
  <1>6. CASE ClearInode
    <2>1. ~IsNamed(fr.inum) /\ UNCHANGED blk
          /\ inode_table' = [inode_table EXCEPT ![fr.inum] = ZeroInode]
      BY <1>6, GoodHere DEF ClearInode, GoodAt, Meta, Removing
    <2>2. Quiet
      BY <1>0, <2>1, QuietNode
    <2>. QED  BY <1>0, <1>6, <2>2, ClearInodeTree, SameTreeKept
  <1>7. CASE FreeBlock
    <2>1. pc = "free" /\ fr.todo # <<>> /\ Doomed /\ UNCHANGED inode_table
      BY <1>7, GoodHere DEF FreeBlock, GoodAt, Meta
    <2>2. PICK x : x = Head(fr.todo)
      OBVIOUS
    <2>3. x # 0 => ~Owned(x)
      <3>1. fr.todo \in Seq(Blocks)
        BY <1>0, FrameParts
      <3>2. 1 \in DOMAIN fr.todo /\ x = fr.todo[1]
        BY <2>1, <2>2, <3>1
      <3>. QED  BY <2>1, <3>2 DEF Doomed
    <2>4. Quiet
      <3>1. CASE x # 0 /\ x \in block_bitmap
        <4>1. blk' = [blk EXCEPT ![x] = Stale]
          BY <1>7, <2>2, <3>1 DEF FreeBlock
        <4>. QED  BY <1>0, <2>1, <2>3, <3>1, <4>1 DEF TypeOK, Quiet
      <3>2. CASE ~(x # 0 /\ x \in block_bitmap)
        <4>1. UNCHANGED blk
          BY <1>7, <2>2, <3>2 DEF FreeBlock
        <4>. QED  BY <2>1, <4>1, QuietUnchanged
      <3>. QED  BY <3>1, <3>2
    <2>. QED  BY <1>0, <1>7, <2>4, FreeBlockTree, FewerNamed
  <1>. QED  BY <1>1, <1>2, <1>3, <1>4, <1>5, <1>6, <1>7 DEF QuietWrite

(* The dots stay.                                                           *)
LEMMA QuietDots ==
  ASSUME TypeOK, WellFormed, Quiet, \A i : IsNamed(i)' => IsNamed(i), DotsHome
  PROVE  DotsHome'
  <1>0. 0 \in Direct /\ \A p \in 1 .. NDirect - 1 : p \in Direct
    BY LayoutFacts DEF Direct
  <1>1. ASSUME NEW d \in Inodes, IsNamed(d)
        PROVE  inode_table'[d] = inode_table[d] /\ \A p \in Direct : DirEnts(d, p)' = DirEnts(d, p)
    <2>1. inode_table'[d] = inode_table[d]
      BY <1>1 DEF Quiet
    <2>2. ASSUME NEW p \in Direct PROVE DirEnts(d, p)' = DirEnts(d, p)
      <3>1. PICK b : b = inode_table[d].block[p]
        OBVIOUS
      <3>2. b \in Blocks /\ Owned(b)
        BY <1>1, <3>1, NamedOwns
      <3>3. blk'[b] = blk[b]
        BY <3>2 DEF Quiet
      <3>. QED  BY <2>1, <3>1, <3>3 DEF DirEnts, Ents
    <2>. QED  BY <2>1, <2>2
  <1>. SUFFICES ASSUME NEW d \in Inodes, DirOf(d)'
                PROVE  /\ inode_table'[d].block[0] # 0
                       /\ \E e \in Inodes \cup {0} : Dotted(d, e, DirEnts(d, 0)')
                       /\ \A p \in 1 .. NDirect - 1 :
                            inode_table'[d].block[p] # 0 => Dotless(DirEnts(d, p)')
                       /\ \A n \in Names, i \in Inodes :
                            Lists(d, n, i, "dir")' => Dotted(i, d, DirEnts(i, 0)')
    BY DEF DotsHome, Dotted, Dotless
  <1>2. DirOf(d) /\ IsNamed(d)
    BY <1>1 DEF DirOf
  <1>3. \A n, i, t : Lists(d, n, i, t)' <=> Lists(d, n, i, t)
    BY <1>2, QuietLists
  <1>4. ASSUME NEW n \in Names, NEW i \in Inodes, Lists(d, n, i, "dir")'
        PROVE  Dotted(i, d, DirEnts(i, 0)')
    <2>1. Lists(d, n, i, "dir")
      BY <1>3, <1>4
    <2>2. IsNamed(i)
      BY <2>1, ListedType
    <2>3. Dotted(i, d, DirEnts(i, 0))
      BY <1>2, <2>1 DEF DotsHome
    <2>. QED  BY <1>0, <1>1, <2>2, <2>3
  <1>5. /\ inode_table[d].block[0] # 0
        /\ \E e \in Inodes \cup {0} : Dotted(d, e, DirEnts(d, 0))
        /\ \A p \in 1 .. NDirect - 1 : inode_table[d].block[p] # 0 => Dotless(DirEnts(d, p))
    BY <1>2 DEF DotsHome
  <1>. QED  BY <1>0, <1>1, <1>2, <1>4, <1>5

-----------------------------------------------------------------------------
(* What a call has done so far.                                             *)

(* Where a step goes on to.                                                 *)
LEMMA DoneNext ==
  ASSUME NEW l, Ahead' = l, DoneAt(l)'
  PROVE  DoneAt(Ahead)'
  BY DEF DoneAt

(* What OpAt says of a place, once the step is known to lead there.         *)
LEMMA OpNext ==
  ASSUME NEW l, Ahead' = l, OpAt(l)'
  PROVE  OpAt(Ahead)'
  BY DEF OpAt

(* The request stays the same until the call returns.                       *)
KeepsCall ==
  /\ fr'.op = fr.op /\ fr'.parent = fr.parent /\ fr'.name = fr.name
  /\ fr'.dir = fr.dir /\ fr'.content = fr.content

(* The steps between a call's start and its return, but for the one that gives
   the new inode its name.                                                  *)
InCall ==
  \/ AllocateNode \/ DirectBlock \/ StoreDirect \/ IndirectBlock \/ IndirectTable
  \/ PointerBlock \/ StorePointer \/ WriteTable \/ DirectoryBlock \/ WriteDots
  \/ WriteInode \/ GrowDirectory \/ GrowInode \/ Unlink \/ FreeBlock \/ ClearInode
  \/ ClearNode \/ WriteSuperblock \/ WriteBgdt

(* allocate_block keeps the locals but for the block it found.              *)
LEMMA TakeKeeps ==
  ASSUME TypeOK, NEW ok, NEW full, allocate_block(ok, full)
  PROVE  /\ KeepsCall /\ ret' = ret /\ UNCHANGED <<blk, inode_table>>
         /\ fr'.node = fr.node /\ fr'.ptr = fr.ptr /\ fr'.n = fr.n /\ fr'.inum = fr.inum
         /\ pc' = full \/ pc' = "superblock"
         /\ pc' # "superblock" => NoBlock /\ NoBlock'
         /\ pc' = "superblock" /\ full # "superblock" => ~NoBlock
  <1>1. fr \in Frame
    BY DEF TypeOK
  <1>2. CASE NoBlock /\ Goto(full) /\ UNCHANGED <<disk, mem, fr>>
    BY <1>2 DEF KeepsCall, Goto, NoBlock, FreeBlocks, disk, mem
  <1>3. CASE /\ ~NoBlock
             /\ \E b \in FreeBlocks :
                  fr' = [fr EXCEPT !.got = b, !.back = IF b = 0 THEN full ELSE ok]
             /\ Goto("superblock") /\ UNCHANGED <<blk, inode_table>>
    <2>1. PICK b \in FreeBlocks :
            fr' = [fr EXCEPT !.got = b, !.back = IF b = 0 THEN full ELSE ok]
      BY <1>3
    <2>. QED  BY <1>1, <1>3, <2>1 DEF KeepsCall, Goto, Frame
  <1>. QED  BY <1>2, <1>3 DEF allocate_block

(* None of them changes the request or the answer.                          *)
LEMMA InCallKeeps ==
  ASSUME TypeOK, InCall
  PROVE  KeepsCall /\ ret' = ret
  <1>0. fr \in Frame
    BY DEF TypeOK
  <1>1. CASE DirectBlock
    <2>1. allocate_block("store_direct", "indirect") \/ (Goto("indirect") /\ fr' = fr)
      BY <1>1 DEF DirectBlock
    <2>. QED  BY <2>1, TakeKeeps DEF KeepsCall, Goto
  <1>2. CASE IndirectBlock
    <2>1. allocate_block("table", "inode") \/ (Goto("inode") /\ fr' = fr)
      BY <1>2 DEF IndirectBlock
    <2>. QED  BY <2>1, TakeKeeps DEF KeepsCall, Goto
  <1>3. CASE PointerBlock
    <2>1. allocate_block("store_pointer", "write_table") \/ (Goto("write_table") /\ fr' = fr)
      BY <1>3 DEF PointerBlock
    <2>. QED  BY <2>1, TakeKeeps DEF KeepsCall, Goto
  <1>4. CASE DirectoryBlock
    BY <1>4, TakeKeeps DEF DirectoryBlock
  <1>5. CASE GrowDirectory
    BY <1>5, TakeKeeps DEF GrowDirectory
  <1>6. CASE AllocateNode
    <2>1. PICK i : fr' = [fr EXCEPT
                   !.inum = i,
                   !.node.mode = IF fr.dir THEN "dir" ELSE "file",
                   !.node.size = IF fr.dir THEN 0 ELSE Len(fr.content),
                   !.back = IF fr.dir THEN "dir" ELSE "direct"]
      BY <1>6 DEF AllocateNode
    <2>. QED  BY <1>0, <1>6, <2>1 DEF AllocateNode, Goto, KeepsCall, Frame
  <1>7. CASE StoreDirect
    BY <1>0, <1>7 DEF StoreDirect, Goto, KeepsCall, Frame
  <1>8. CASE IndirectTable
    BY <1>0, <1>8 DEF IndirectTable, Goto, KeepsCall, Frame
  <1>9. CASE StorePointer
    BY <1>0, <1>9 DEF StorePointer, Goto, KeepsCall, Frame
  <1>10. CASE WriteTable \/ WriteInode \/ GrowInode \/ ClearInode \/ WriteSuperblock \/ WriteBgdt
    <2>1. fr' = fr /\ ret' = ret
      BY <1>10 DEF WriteTable, WriteInode, GrowInode, ClearInode, WriteSuperblock,
                   WriteBgdt, Goto
    <2>. QED  BY <2>1 DEF KeepsCall
  <1>11. CASE WriteDots
    BY <1>0, <1>11 DEF WriteDots, Goto, KeepsCall, Frame
  <1>12. CASE Unlink
    <2>1. PICK i, todo : fr' = [fr EXCEPT !.inum = i, !.todo = todo]
      BY <1>12 DEF Unlink
    <2>. QED  BY <1>0, <1>12, <2>1 DEF Unlink, Goto, KeepsCall, Frame
  <1>13. CASE FreeBlock
    <2>1. /\ ret' = ret
          /\ \/ fr' = [fr EXCEPT !.todo = Tail(@), !.back = "free"]
             \/ fr' = [fr EXCEPT !.todo = Tail(@)]
      BY <1>13 DEF FreeBlock, Goto
    <2>. QED  BY <1>0, <2>1 DEF KeepsCall, Frame
  <1>14. CASE ClearNode
    BY <1>0, <1>14 DEF ClearNode, Goto, KeepsCall, Frame
  <1>. QED  BY <1>1, <1>2, <1>3, <1>4, <1>5, <1>6, <1>7, <1>8, <1>9, <1>10, <1>11, <1>12,
               <1>13, <1>14 DEF InCall

(* Chunks have positions of their own, apart from the indirect block's.     *)
LEMMA DataPositions ==
  /\ \A k \in 0 .. NDirect + NIndirect - 1 : DataAt(k) \in Positions /\ DataAt(k) # NDirect
  /\ \A k, l \in 0 .. NDirect + NIndirect - 1 : DataAt(k) = DataAt(l) => k = l
  BY LayoutFacts DEF DataAt, Positions

(* What has been stored stays while its blocks do.                          *)
LEMMA FilledKept ==
  ASSUME NEW m, Filled(m), fr'.content = fr.content,
         \A j \in Positions : j # NDirect =>
           Held(j)' = Held(j) /\ (Held(j) # 0 => blk'[Held(j)] = blk[Held(j)])
  PROVE  Filled(m)'
  <1>1. ASSUME NEW k \in 0 .. NDirect + NIndirect - 1
        PROVE  IF k < m
               THEN /\ Held(DataAt(k))' # 0
                    /\ blk'[Held(DataAt(k))'] = DataBlock(fr'.content[k + 1])
               ELSE Held(DataAt(k))' = 0
    <2>1. PICK j \in Positions : j = DataAt(k) /\ j # NDirect
      BY DataPositions
    <2>2. IF k < m THEN Held(j) # 0 /\ blk[Held(j)] = DataBlock(fr.content[k + 1])
          ELSE Held(j) = 0
      BY <2>1 DEF Filled
    <2>3. Held(DataAt(k))' = Held(j)'
      BY <2>1 DEF Held, DataAt
    <2>. QED  BY <2>1, <2>2, <2>3
  <1>. QED  BY <1>1 DEF Filled

(* The locals a step needs to keep for the new inode to stay as it is.      *)
SameStored ==
  /\ UNCHANGED blk
  /\ fr'.node = fr.node /\ fr'.ptr = fr.ptr /\ fr'.n = fr.n /\ fr'.inum = fr.inum
  /\ fr'.parent = fr.parent /\ fr'.dir = fr.dir /\ fr'.content = fr.content

(* What write has stored so far then stays stored.                          *)
LEMMA StoredKept ==
  ASSUME SameStored
  PROVE  /\ \A m : Filled(m) => Filled(m)'
         /\ Filled(fr.n) => Filled(fr.n)'
         /\ PrefixStored => PrefixStored'
         /\ DotsStored => DotsStored'
  <1>1. \A j : Held(j)' = Held(j)
    BY DEF SameStored, Held
  <1>2. ASSUME NEW m, Filled(m) PROVE Filled(m)'
    BY <1>1, <1>2, FilledKept DEF SameStored
  <1>3. ASSUME Filled(fr.n) PROVE Filled(fr.n)'
    <2>1. PICK m : m = fr.n
      OBVIOUS
    <2>2. Filled(m)'
      BY <1>2, <1>3, <2>1
    <2>3. fr'.n = m
      BY <2>1 DEF SameStored
    <2>. QED  BY <2>2, <2>3 DEF Filled
  <1>4. PrefixStored => PrefixStored'
    BY <1>2 DEF PrefixStored, SameStored
  <1>5. DotsStored => DotsStored'
    BY DEF DotsStored, SameStored, Ents
  <1>. QED  BY <1>2, <1>3, <1>4, <1>5

(* allocate_block is such a step.                                           *)
LEMMA TakeStored ==
  ASSUME TypeOK, NEW ok, NEW full, allocate_block(ok, full)
  PROVE  SameStored
  BY TakeKeeps DEF KeepsCall, SameStored

(* Where allocate_block goes on to: there are blocks, or there are none.    *)
LEMMA TakeAhead ==
  ASSUME TypeOK, WellFormed, NEW ok, NEW full, full \notin Meta, allocate_block(ok, full)
  PROVE  \/ Ahead' = ok /\ ~NoBlock
         \/ Ahead' = full /\ NoBlock /\ NoBlock'
  <1>1. CASE pc' = "superblock"
    <2>1. ~NoBlock
      BY <1>1, TakeKeeps DEF Meta
    <2>2. PICK b \in FreeBlocks :
            fr' = [fr EXCEPT !.got = b, !.back = IF b = 0 THEN full ELSE ok]
      BY <2>1 DEF allocate_block
    <2>3. b # 0
      BY <2>2, LayoutFacts, LayoutAssumption
         DEF FreeBlocks, WellFormed, BlocksUsed, ROOT_DIR_BLOCK_LBA, INODE_TABLE_LBA
    <2>4. fr'.back = ok
      BY <2>2, <2>3 DEF TypeOK, Frame
    <2>. QED  BY <1>1, <2>1, <2>4, AheadNext DEF Meta
  <1>2. CASE pc' # "superblock"
    <2>1. pc' = full /\ NoBlock /\ NoBlock'
      BY <1>2, TakeKeeps
    <2>. QED  BY <2>1, AheadNext
  <1>. QED  BY <1>1, <1>2

(* allocate_block on behalf of write.                                       *)
LEMMA TakeDone ==
  ASSUME TypeOK, TypeOK', WellFormed, CallGood, DoneAt(Ahead), LinkedDirs' = LinkedDirs, Roomy,
         \/ DirectBlock \/ IndirectBlock \/ PointerBlock \/ DirectoryBlock
         \/ GrowDirectory
  PROVE  DoneAt(Ahead)' /\ Ahead \in MakingLabels /\ Ahead' \in MakingLabels
  <1>. USE DEF MakingLabels, FileLabels, MappedLabels, EarlyLabels, DirLabels,
               BuiltLabels, NamingLabels, PendingLabels
  <1>0. /\ fr.n \in Nat /\ Len(fr.content) \in Nat /\ NDirect \in Nat /\ NIndirect \in Nat
    BY FrameParts, LayoutFacts
  <1>1. CASE DirectBlock
    <2>1. pc = "direct" /\ Ahead = "direct"
      BY <1>1, AheadNext DEF DirectBlock, Meta
    <2>2. /\ fr.parent # 0 => fr.parent \in LinkedDirs
          /\ Filled(fr.n) /\ fr.n <= NDirect + NIndirect /\ fr.node.size = Len(fr.content)
          /\ fr.n <= NDirect
      BY <2>1 DEF DoneAt
    <2>3. CASE fr.n < Len(fr.content) /\ fr.n < NDirect
      <3>0. allocate_block("store_direct", "indirect")
        BY <1>1, <2>3 DEF DirectBlock
      <3>1. SameStored
        BY <3>0, TakeStored
      <3>2. Filled(fr.n)'
        BY <2>2, <3>1, StoredKept
      <3>3. CASE Ahead' = "store_direct"
        <4>1. DoneAt("store_direct")'
          BY <2>2, <3>1, <3>2 DEF DoneAt, SameStored
        <4>. QED  BY <2>1, <3>3, <4>1, DoneNext
      <3>4. CASE Ahead' = "indirect" /\ NoBlock'
        <4>1. DoneAt("indirect")'
          BY <2>2, <3>1, <3>2, <3>4 DEF DoneAt, SameStored
        <4>. QED  BY <2>1, <3>4, <4>1, DoneNext
      <3>. QED  BY <3>0, <3>3, <3>4, TakeAhead DEF Meta
    <2>4. CASE ~(fr.n < Len(fr.content) /\ fr.n < NDirect)
      <3>0. pc' = "indirect" /\ SameStored
        BY <1>1, <2>4 DEF DirectBlock, Goto, SameStored, disk
      <3>1. Ahead' = "indirect"
        BY <3>0, AheadNext DEF Meta
      <3>2. Filled(fr.n)'
        BY <2>2, <3>0, StoredKept
      <3>3. DoneAt("indirect")'
        BY <2>2, <2>4, <3>0, <3>2 DEF DoneAt, SameStored
      <3>. QED  BY <2>1, <3>1, <3>3, DoneNext
    <2>. QED  BY <2>3, <2>4
  <1>2. CASE IndirectBlock
    <2>1. pc = "indirect" /\ Ahead = "indirect"
      BY <1>2, AheadNext DEF IndirectBlock, Meta
    <2>2. /\ fr.parent # 0 => fr.parent \in LinkedDirs
          /\ Filled(fr.n) /\ fr.n <= NDirect + NIndirect /\ fr.node.size = Len(fr.content)
          /\ fr.n <= NDirect /\ (fr.n < NDirect /\ fr.n < Len(fr.content) => NoBlock)
      BY <2>1 DEF DoneAt
    <2>3. ~fr.dir
      BY <2>1, GoodHere DEF GoodAt, Meta
    <2>4. PrefixStored
      BY <1>0, <2>2 DEF PrefixStored
    <2>5. CASE Len(fr.content) > NDirect
      <3>0. allocate_block("table", "inode")
        BY <1>2, <2>5 DEF IndirectBlock
      <3>1. SameStored
        BY <3>0, TakeStored
      <3>2. Filled(fr.n)' /\ PrefixStored'
        BY <2>2, <2>4, <3>1, StoredKept
      <3>3. CASE Ahead' = "table" /\ ~NoBlock
        <4>1. fr.n = NDirect
          BY <1>0, <2>2, <2>5, <3>3
        <4>2. DoneAt("table")'
          BY <2>2, <3>1, <3>2, <4>1 DEF DoneAt, SameStored
        <4>. QED  BY <2>1, <3>3, <4>2, DoneNext
      <3>4. CASE Ahead' = "inode"
        <4>1. DoneAt("inode")'
          BY <2>2, <2>3, <3>1, <3>2 DEF DoneAt, SameStored
        <4>. QED  BY <2>1, <3>4, <4>1, DoneNext
      <3>. QED  BY <3>0, <3>3, <3>4, TakeAhead DEF Meta
    <2>6. CASE ~(Len(fr.content) > NDirect)
      <3>0. pc' = "inode" /\ SameStored
        BY <1>2, <2>6 DEF IndirectBlock, Goto, SameStored, disk
      <3>1. Ahead' = "inode"
        BY <3>0, AheadNext DEF Meta
      <3>2. PrefixStored'
        BY <2>4, <3>0, StoredKept
      <3>3. DoneAt("inode")'
        BY <2>2, <2>3, <3>0, <3>2 DEF DoneAt, SameStored
      <3>. QED  BY <2>1, <3>1, <3>3, DoneNext
    <2>. QED  BY <2>5, <2>6
  <1>3. CASE PointerBlock
    <2>1. pc = "pointer" /\ Ahead = "pointer"
      BY <1>3, AheadNext DEF PointerBlock, Meta
    <2>2. /\ fr.parent # 0 => fr.parent \in LinkedDirs
          /\ Filled(fr.n) /\ fr.n <= NDirect + NIndirect /\ fr.node.size = Len(fr.content)
      BY <2>1 DEF DoneAt
    <2>3. \/ allocate_block("store_pointer", "write_table")
          \/ Goto("write_table") /\ UNCHANGED <<disk, mem, fr>>
      BY <1>3 DEF PointerBlock
    <2>4. SameStored
      BY <2>3, TakeStored DEF SameStored, disk
    <2>5. Ahead' \in {"store_pointer", "write_table"}
      BY <2>3, TakeAhead, AheadNext DEF Goto, Meta
    <2>6. Filled(fr.n)'
      BY <2>2, <2>4, StoredKept
    <2>7. \A l \in {"store_pointer", "write_table"} : DoneAt(l)'
      BY <2>2, <2>4, <2>6 DEF DoneAt, SameStored
    <2>. QED  BY <2>1, <2>5, <2>7, DoneNext
  <1>4. CASE DirectoryBlock
    <2>1. pc = "dir" /\ Ahead = "dir" /\ allocate_block("dots", "inode") /\ ~NoBlock
      BY <1>4, AheadNext DEF DirectoryBlock, Meta, Roomy
    <2>2. Ahead' = "dots"
      BY <2>1, TakeAhead DEF Meta
    <2>3. fr'.parent = fr.parent
      BY <2>1, TakeKeeps DEF KeepsCall
    <2>4. DoneAt("dots")'
      BY <2>1, <2>3 DEF DoneAt
    <2>. QED  BY <2>1, <2>2, <2>4, DoneNext
  <1>5. CASE GrowDirectory
    <2>1. pc = "add_entry" /\ Ahead = "add_entry" /\ allocate_block("grow", "no_entry")
      BY <1>5, AheadNext DEF GrowDirectory, Meta
    <2>2. /\ fr.parent # 0 => fr.parent \in LinkedDirs
          /\ IF fr.dir THEN DotsStored ELSE PrefixStored
      BY <2>1 DEF DoneAt
    <2>3. SameStored
      BY <2>1, TakeStored
    <2>4. IF fr.dir THEN DotsStored' ELSE PrefixStored'
      BY <2>2, <2>3, StoredKept
    <2>5. Ahead' \in {"grow", "no_entry"}
      BY <2>1, TakeAhead DEF Meta
    <2>6. \A l \in {"grow", "no_entry"} : DoneAt(l)'
      BY <2>2, <2>3, <2>4 DEF DoneAt, SameStored
    <2>. QED  BY <2>1, <2>5, <2>6, DoneNext
  <1>. QED  BY <1>1, <1>2, <1>3, <1>4, <1>5

(* What has been done stays so while the locals and the disk do.            *)
LEMMA DoneSame ==
  ASSUME fr' = fr, SameStored, NoBlock' <=> NoBlock, LinkedDirs' = LinkedDirs,
         NEW l, DoneAt(l)
  PROVE  DoneAt(l)'
  <1>1. /\ Filled(fr.n) => Filled(fr.n)'
        /\ PrefixStored => PrefixStored'
        /\ DotsStored => DotsStored'
    BY StoredKept
  <1>. QED  BY <1>1 DEF DoneAt

(* While the counters are written nothing else changes.                     *)
LEMMA MetaSame ==
  ASSUME CallGood, WriteSuperblock \/ WriteBgdt
  PROVE  fr' = fr /\ SameStored /\ (NoBlock' <=> NoBlock) /\ Ahead' = Ahead
  <1>1. fr' = fr /\ SameStored /\ (NoBlock' <=> NoBlock)
    BY DEF WriteSuperblock, WriteBgdt, SameStored, NoBlock, FreeBlocks, mem
  <1>2. Ahead' = Ahead
    <2>1. CASE WriteSuperblock
      BY <1>1, <2>1, AheadNext DEF WriteSuperblock, Goto, Meta
    <2>2. CASE WriteBgdt
      <3>1. pc \in Meta /\ pc' = fr.back
        BY <2>2 DEF WriteBgdt, Goto, Meta
      <3>2. fr.back \notin Meta
        BY <3>1, GoodBack DEF Meta, MakingLabels, FileLabels, MappedLabels, EarlyLabels,
                              DirLabels, BuiltLabels, NamingLabels
      <3>. QED  BY <3>1, <3>2, AheadNext
    <2>. QED  BY <2>1, <2>2
  <1>. QED  BY <1>1, <1>2

(* So what has been done stays done.                                        *)
LEMMA MetaDone ==
  ASSUME TypeOK, CallGood, DoneAt(Ahead), LinkedDirs' = LinkedDirs,
         WriteSuperblock \/ WriteBgdt
  PROVE  DoneAt(Ahead)' /\ Ahead' = Ahead
  <1>1. fr' = fr /\ SameStored /\ (NoBlock' <=> NoBlock) /\ Ahead' = Ahead
    BY MetaSame
  <1>2. PICK l : l = Ahead
    OBVIOUS
  <1>3. DoneAt(l)
    BY <1>2
  <1>4. DoneAt(l)'
    BY <1>1, <1>3, DoneSame
  <1>. QED  BY <1>1, <1>2, <1>4, DoneNext

(* One more chunk is stored.                                                *)
LEMMA FilledMore ==
  ASSUME TypeOK, Filled(fr.n), fr.n < Len(fr.content), fr.n < NDirect + NIndirect,
         PendingBlock, blk' = [blk EXCEPT ![fr.got] = DataBlock(fr.content[fr.n + 1])],
         fr'.content = fr.content, fr'.n = fr.n + 1,
         \A j \in Positions : Held(j)' = IF j = DataAt(fr.n) THEN fr.got ELSE Held(j)
  PROVE  Filled(fr.n)'
  <1>1. PICK m, g, c : m = fr.n /\ g = fr.got /\ c = DataBlock(fr.content[m + 1])
    OBVIOUS
  <1>2. /\ m \in Nat /\ g \in Blocks /\ g # 0 /\ Len(fr.content) \in Nat /\ fr'.n = m + 1
        /\ NDirect \in Nat /\ NIndirect \in Nat /\ fr'.content = fr.content
    BY <1>1, FrameParts, GotBlock, LayoutFacts
  <1>3. m \in 0 .. NDirect + NIndirect - 1
    BY <1>1, <1>2
  <1>4. blk'[g] = c /\ \A b \in Blocks : b # g => blk'[b] = blk[b]
    BY <1>1, <1>2 DEF TypeOK
  <1>5. ASSUME NEW k \in 0 .. NDirect + NIndirect - 1
        PROVE  IF k < m + 1
               THEN /\ Held(DataAt(k))' # 0
                    /\ blk'[Held(DataAt(k))'] = DataBlock(fr.content[k + 1])
               ELSE Held(DataAt(k))' = 0
    <2>1. PICK j \in Positions : j = DataAt(k) /\ j # NDirect
      BY DataPositions
    <2>2. IF k < m THEN Held(j) # 0 /\ blk[Held(j)] = DataBlock(fr.content[k + 1])
          ELSE Held(j) = 0
      BY <1>1, <2>1 DEF Filled
    <2>3. Held(DataAt(k))' = Held(j)'
      BY <2>1 DEF Held, DataAt
    <2>4. j = DataAt(m) <=> k = m
      BY <1>3, <2>1, DataPositions
    <2>5. CASE k = m
      <3>1. Held(j)' = g
        BY <1>1, <2>4, <2>5
      <3>. QED  BY <1>1, <1>2, <1>4, <2>3, <2>5, <3>1
    <2>6. CASE k # m
      <3>1. Held(j)' = Held(j)
        BY <1>1, <2>4, <2>6
      <3>2. Held(j) \in Blocks /\ Held(j) # g
        BY <1>1, HeldType DEF PendingBlock
      <3>3. k < m + 1 <=> k < m
        BY <1>2, <2>6
      <3>. QED  BY <1>4, <2>2, <2>3, <3>1, <3>2, <3>3
    <2>. QED  BY <2>5, <2>6
  <1>6. m + 1 <= Len(fr.content)
    BY <1>1, <1>2
  <1>. QED  BY <1>2, <1>5, <1>6 DEF Filled

(* The steps of write up to the new inode.                                  *)
LEMMA StoreDone ==
  ASSUME Inv, TypeOK', WellFormed, CallGood, DoneAt(Ahead), LinkedDirs' = LinkedDirs,
         StoreDirect \/ StorePointer
  PROVE  DoneAt(Ahead)' /\ Ahead \in MakingLabels /\ Ahead' \in MakingLabels
  <1>. USE DEF MakingLabels, FileLabels, MappedLabels, EarlyLabels, DirLabels,
               BuiltLabels, NamingLabels, PendingLabels
  <1>0. /\ TypeOK /\ fr.n \in Nat /\ Len(fr.content) \in Nat /\ NDirect \in Nat
        /\ NIndirect \in Nat /\ fr \in Frame
    BY FrameParts, LayoutFacts DEF Inv, TypeOK
  <1>1. CASE StoreDirect
    <2>1. pc = "store_direct" /\ Ahead = "store_direct" /\ Ahead' = "direct"
      BY <1>1, AheadNext DEF StoreDirect, Goto, Meta
    <2>2. /\ fr.parent # 0 => fr.parent \in LinkedDirs
          /\ Filled(fr.n) /\ fr.node.size = Len(fr.content)
      BY <2>1 DEF DoneAt
    <2>3. fr.n < Len(fr.content) /\ fr.n < NDirect
      BY <2>1 DEF Inv, IndicesInBounds, Reaching
    <2>4. PendingBlock
      BY <2>1, GoodHere DEF GoodAt, Meta
    <2>5. /\ fr'.content = fr.content /\ fr'.n = fr.n + 1 /\ fr'.node.size = fr.node.size
          /\ fr'.parent = fr.parent
      BY <1>0, <1>1 DEF StoreDirect, Frame, Inode
    <2>6. \A j \in Positions : Held(j)' = IF j = DataAt(fr.n) THEN fr.got ELSE Held(j)
      BY <1>1, <2>3, StoreDirectTree DEF DataAt
    <2>7. Filled(fr.n)'
      <3>1. blk' = [blk EXCEPT ![fr.got] = DataBlock(fr.content[fr.n + 1])]
        BY <1>1 DEF StoreDirect
      <3>2. fr.n < NDirect + NIndirect
        BY <1>0, <2>3
      <3>. QED  BY <1>0, <2>2, <2>3, <2>4, <2>5, <2>6, <3>1, <3>2, FilledMore
    <2>8. DoneAt("direct")'
      BY <1>0, <2>2, <2>3, <2>5, <2>7 DEF DoneAt
    <2>. QED  BY <2>1, <2>8, DoneNext
  <1>2. CASE StorePointer
    <2>1. pc = "store_pointer" /\ Ahead = "store_pointer" /\ Ahead' = "pointer"
      BY <1>2, AheadNext DEF StorePointer, Goto, Meta
    <2>2. /\ fr.parent # 0 => fr.parent \in LinkedDirs
          /\ Filled(fr.n) /\ fr.node.size = Len(fr.content)
      BY <2>1 DEF DoneAt
    <2>3. fr.n < Len(fr.content) /\ fr.n >= NDirect /\ fr.n < NDirect + NIndirect
      BY <1>0, <2>1 DEF Inv, IndicesInBounds, Reaching
    <2>4. PendingBlock
      BY <2>1, GoodHere DEF GoodAt, Meta
    <2>5. /\ fr'.content = fr.content /\ fr'.n = fr.n + 1 /\ fr'.node = fr.node
          /\ fr'.parent = fr.parent
      BY <1>0, <1>2 DEF StorePointer, Frame
    <2>6. \A j \in Positions : Held(j)' = IF j = DataAt(fr.n) THEN fr.got ELSE Held(j)
      <3>1. DataAt(fr.n) = fr.n + 1
        BY <1>0, <2>3 DEF DataAt
      <3>. QED  BY <1>2, <3>1, StorePointerTree
    <2>7. Filled(fr.n)'
      <3>1. blk' = [blk EXCEPT ![fr.got] = DataBlock(fr.content[fr.n + 1])]
        BY <1>2 DEF StorePointer
      <3>. QED  BY <1>0, <2>2, <2>3, <2>4, <2>5, <2>6, <3>1, FilledMore
    <2>8. DoneAt("pointer")'
      BY <1>0, <2>2, <2>3, <2>5, <2>7 DEF DoneAt
    <2>. QED  BY <2>1, <2>8, DoneNext
  <1>. QED  BY <1>1, <1>2

(* The locals after allocate_node.                                          *)
LEMMA NodeTaken ==
  ASSUME TypeOK, AllocateNode
  PROVE  /\ fr'.n = fr.n /\ fr'.parent = fr.parent /\ fr'.content = fr.content
         /\ fr'.dir = fr.dir /\ fr'.back = IF fr.dir THEN "dir" ELSE "direct"
         /\ fr'.node.size = IF fr.dir THEN 0 ELSE Len(fr.content)
  <1>1. PICK i \in FreeInodes :
          /\ inode_bitmap' = inode_bitmap \cup {i}
          /\ fr' = [fr EXCEPT
                   !.inum = i,
                   !.node.mode = IF fr.dir THEN "dir" ELSE "file",
                   !.node.size = IF fr.dir THEN 0 ELSE Len(fr.content),
                   !.back = IF fr.dir THEN "dir" ELSE "direct"]
    BY Zenon DEF AllocateNode
  <1>. QED  BY <1>1 DEF TypeOK, Frame, Inode

(* allocate_node starts a file or a directory without blocks.               *)
LEMMA AllocateNodeDone ==
  ASSUME TypeOK, TypeOK', WellFormed, CallGood, DoneAt(Ahead), LinkedDirs' = LinkedDirs,
         AllocateNode
  PROVE  DoneAt(Ahead)' /\ Ahead = "write" /\ Ahead' \in MakingLabels
  <1>. USE DEF MakingLabels, FileLabels, MappedLabels, EarlyLabels, DirLabels,
               BuiltLabels, NamingLabels, PendingLabels
  <1>0. fr \in Frame
    BY DEF TypeOK
  <1>1. pc = "write" /\ Ahead = "write" /\ pc' = "superblock"
    BY AheadNext DEF AllocateNode, Goto, Meta
  <1>2. (fr.parent # 0 => fr.parent \in LinkedDirs) /\ fr.n = 0
    BY <1>1 DEF DoneAt
  <1>3. /\ fr'.n = 0 /\ fr'.parent = fr.parent /\ fr'.content = fr.content /\ fr'.dir = fr.dir
        /\ fr'.back = IF fr.dir THEN "dir" ELSE "direct"
        /\ fr'.node.size = IF fr.dir THEN 0 ELSE Len(fr.content)
    BY <1>2, NodeTaken
  <1>4. Ahead' = IF fr.dir THEN "dir" ELSE "direct"
    BY <1>1, <1>3, AheadNext DEF Meta
  <1>5. CASE fr.dir
    <2>1. DoneAt("dir")'
      BY <1>2, <1>3 DEF DoneAt
    <2>. QED  BY <1>1, <1>4, <1>5, <2>1, DoneNext
  <1>6. CASE ~fr.dir
    <2>0. Len(fr.content) \in Nat /\ NDirect \in Nat /\ NIndirect \in Nat
      BY FrameParts, LayoutFacts
    <2>1. \A k \in 0 .. NDirect + NIndirect - 1 : ~(k < 0) /\ Held(DataAt(k))' = 0
      <3>1. SUFFICES ASSUME NEW k \in 0 .. NDirect + NIndirect - 1
                     PROVE  ~(k < 0) /\ Held(DataAt(k))' = 0
        OBVIOUS
      <3>2. PICK j \in Positions : j = DataAt(k)
        BY DataPositions
      <3>3. Held(j)' = 0
        BY AllocateNodeTree
      <3>4. Held(DataAt(k))' = Held(j)'
        BY <3>2 DEF Held, DataAt
      <3>. QED  BY <2>0, <3>3, <3>4
    <2>2. Filled(fr.n)'
      BY <1>3, <2>0, <2>1 DEF Filled
    <2>3. DoneAt("direct")'
      BY <1>2, <1>3, <1>6, <2>0, <2>2 DEF DoneAt
    <2>. QED  BY <1>1, <1>4, <1>6, <2>3, DoneNext
  <1>. QED  BY <1>5, <1>6

(* The indirect block holds no data.                                        *)
LEMMA TableFilled ==
  ASSUME TypeOK, CallGood, WriteTable, NEW m, Filled(m)
  PROVE  Filled(m)'
  <1>1. pc = "write_table" /\ fr' = fr
    BY DEF WriteTable
  <1>2. MakingBlocks
    BY <1>1, GoodHere DEF GoodAt, Meta, MakingLabels, FileLabels, MappedLabels
  <1>3. PICK x : x = fr.node.block[NDirect]
    OBVIOUS
  <1>4. Held(NDirect) = x /\ NDirect \in Positions /\ x \in Blocks
    BY <1>3, PositionFacts, FrameParts DEF Held
  <1>5. \A b \in Blocks : b # x => blk'[b] = blk[b]
    BY <1>3 DEF WriteTable, TypeOK
  <1>6. ASSUME NEW j \in Positions, j # NDirect
        PROVE  Held(j)' = Held(j) /\ (Held(j) # 0 => blk'[Held(j)] = blk[Held(j)])
    <2>1. Held(j)' = Held(j)
      BY <1>1 DEF Held
    <2>2. Held(j) \in Blocks
      BY HeldType
    <2>3. Held(j) # 0 => Held(j) # x
      BY <1>2, <1>4, <1>6 DEF MakingBlocks
    <2>. QED  BY <1>5, <2>1, <2>2, <2>3
  <1>. QED  BY <1>1, <1>6, FilledKept

(* The indirect block, the block of a new directory and the inodes.         *)
LEMMA MakeDone ==
  ASSUME TypeOK, TypeOK', WellFormed, CallGood, DoneAt(Ahead), LinkedDirs' = LinkedDirs,
         IndirectTable \/ WriteTable \/ WriteDots \/ WriteInode \/ GrowInode
  PROVE  DoneAt(Ahead)' /\ Ahead \in MakingLabels /\ Ahead' \in MakingLabels
  <1>. USE DEF MakingLabels, FileLabels, MappedLabels, EarlyLabels, DirLabels,
               BuiltLabels, NamingLabels, PendingLabels
  <1>0. /\ fr.n \in Nat /\ Len(fr.content) \in Nat /\ NDirect \in Nat /\ NDirect > 0
        /\ NIndirect \in Nat /\ fr \in Frame
    BY FrameParts, LayoutFacts DEF TypeOK
  <1>1. CASE IndirectTable
    <2>1. pc = "table" /\ Ahead = "table" /\ Ahead' = "pointer" /\ UNCHANGED blk
      BY <1>1, AheadNext DEF IndirectTable, Goto, Meta, disk
    <2>2. /\ fr.parent # 0 => fr.parent \in LinkedDirs
          /\ Filled(fr.n) /\ fr.node.size = Len(fr.content) /\ fr.n = NDirect
      BY <2>1 DEF DoneAt
    <2>3. /\ fr'.content = fr.content /\ fr'.n = NDirect /\ fr'.node.size = fr.node.size
          /\ fr'.parent = fr.parent
      BY <1>0, <1>1 DEF IndirectTable, Frame, Inode
    <2>4. \A j \in Positions : j # NDirect => Held(j)' = Held(j)
      BY <1>1, IndirectTableTree
    <2>5. PICK m : m = fr.n
      OBVIOUS
    <2>6. Filled(m)'
      BY <2>1, <2>2, <2>3, <2>4, <2>5, FilledKept
    <2>7. Filled(fr.n)'
      BY <2>2, <2>3, <2>5, <2>6 DEF Filled
    <2>8. DoneAt("pointer")'
      BY <1>0, <2>2, <2>3, <2>7 DEF DoneAt
    <2>. QED  BY <2>1, <2>8, DoneNext
  <1>2. CASE WriteTable
    <2>1. pc = "write_table" /\ Ahead = "write_table" /\ Ahead' = "inode" /\ fr' = fr
      BY <1>2, AheadNext DEF WriteTable, Goto, Meta
    <2>2. /\ fr.parent # 0 => fr.parent \in LinkedDirs
          /\ Filled(fr.n) /\ fr.n <= NDirect + NIndirect /\ fr.node.size = Len(fr.content)
      BY <2>1 DEF DoneAt
    <2>3. ~fr.dir /\ fr.node.block[NDirect] # 0
      BY <2>1, GoodHere DEF GoodAt, Meta
    <2>4. PICK m : m = fr.n
      OBVIOUS
    <2>5. Filled(m)'
      BY <1>2, <2>2, <2>4, TableFilled
    <2>6. PrefixStored'
      BY <1>0, <2>1, <2>2, <2>3, <2>4, <2>5 DEF PrefixStored
    <2>7. DoneAt("inode")'
      BY <2>1, <2>2, <2>3, <2>6 DEF DoneAt
    <2>. QED  BY <2>1, <2>7, DoneNext
  <1>3. CASE WriteDots
    <2>1. pc = "dots" /\ Ahead = "dots" /\ Ahead' = "inode"
      BY <1>3, AheadNext DEF WriteDots, Goto, Meta
    <2>2. fr.parent # 0 => fr.parent \in LinkedDirs
      BY <2>1 DEF DoneAt
    <2>3. PendingBlock /\ fr.dir
      BY <2>1, GoodHere DEF GoodAt, Meta
    <2>4. /\ fr'.node.block[0] = fr.got /\ fr'.parent = fr.parent /\ fr'.dir = fr.dir
          /\ fr'.inum = fr.inum
      <3>1. fr.node \in Inode /\ fr.node.block \in [0 .. NDirect -> Blocks] /\ 0 \in 0 .. NDirect
        BY <1>0, FrameParts
      <3>2. /\ fr'.node.block = [fr.node.block EXCEPT ![0] = fr.got] /\ fr'.parent = fr.parent
            /\ fr'.dir = fr.dir /\ fr'.inum = fr.inum
        BY <1>0, <1>3, <3>1 DEF WriteDots, Frame, Inode
      <3>. QED  BY <3>1, <3>2
    <2>5. fr.got \in Blocks /\ fr.got # 0
      BY <2>3, GotBlock
    <2>6. blk'[fr.got] = DirBlock(DotEntries(fr.inum, fr.parent))
      BY <1>3, <2>5 DEF WriteDots, TypeOK
    <2>7. DotsStored'
      BY <2>4, <2>5, <2>6 DEF DotsStored, Ents, DirBlock
    <2>8. DoneAt("inode")'
      BY <2>2, <2>3, <2>4, <2>7 DEF DoneAt
    <2>. QED  BY <2>1, <2>8, DoneNext
  <1>4. CASE WriteInode \/ GrowInode
    <2>1. /\ pc \in {"inode", "grow"} /\ Ahead = pc /\ Ahead' \in {"add_entry", "grow_block"}
          /\ fr' = fr /\ UNCHANGED blk
      BY <1>4, AheadNext DEF WriteInode, GrowInode, Goto, Meta
    <2>2. /\ fr.parent # 0 => fr.parent \in LinkedDirs
          /\ IF fr.dir THEN DotsStored ELSE PrefixStored
      BY <2>1 DEF DoneAt
    <2>3. SameStored
      BY <2>1 DEF SameStored
    <2>4. IF fr.dir THEN DotsStored' ELSE PrefixStored'
      BY <2>2, <2>3, StoredKept
    <2>5. \A l \in {"add_entry", "grow_block"} : DoneAt(l)'
      BY <2>1, <2>2, <2>4 DEF DoneAt
    <2>. QED  BY <2>1, <2>5, DoneNext
  <1>. QED  BY <1>1, <1>2, <1>3, <1>4

-----------------------------------------------------------------------------
(* Which call it is.                                                        *)

(* The places a call goes through, the counters' writes apart.              *)
Making == Ahead \in MakingLabels \cup {"write"} /\ Ahead' \in MakingLabels
Deleting == Ahead \in DeletingLabels /\ Ahead' \in DeletingLabels \ {"delete"}

(* A call goes on from place to place of its own.                           *)
LEMMA StageOp ==
  ASSUME KeepsCall, OpAt(Ahead), Making \/ Deleting
  PROVE  OpAt(Ahead)' /\ fr.op = IF Making THEN "write" ELSE "delete"
  <1>1. PICK l, m : l = Ahead /\ m = Ahead'
    OBVIOUS
  <1>2. OpAt(l)
    BY <1>1
  <1>3. OpAt(m)' /\ fr.op = IF Making THEN "write" ELSE "delete"
    BY <1>1, <1>2 DEF Making, Deleting, KeepsCall, OpAt, DeletingLabels, MakingLabels,
                      FileLabels, MappedLabels, EarlyLabels, DirLabels, BuiltLabels,
                      NamingLabels, MkfsLabels, BitmapLabels, TableLabels, RootLabels,
                      RootDirLabels
  <1>. QED  BY <1>1, <1>3, OpNext

(* delete has nothing to remember but its list of blocks.                   *)
LEMMA DeleteStages ==
  ASSUME TypeOK, Unlink \/ FreeBlock \/ ClearInode \/ ClearNode
  PROVE  Deleting /\ DoneAt(Ahead)'
  <1>0. fr \in Frame
    BY DEF TypeOK
  <1>1. Deleting
    <2>1. CASE Unlink
      <3>1. pc = "delete" /\ pc' = "free"
        BY <2>1, Zenon DEF Unlink, Goto
      <3>. QED  BY <3>1, AheadNext DEF Meta, Deleting, DeletingLabels
    <2>2. CASE FreeBlock
      <3>1. pc = "free" /\ \/ pc' = pc
                           \/ pc' = "superblock" /\ fr' = [fr EXCEPT !.todo = Tail(@), !.back = "free"]
        BY <2>2 DEF FreeBlock, Goto
      <3>2. pc' = pc \/ (pc' = "superblock" /\ fr'.back = "free")
        BY <1>0, <3>1 DEF Frame
      <3>. QED  BY <3>1, <3>2, AheadNext DEF Meta, Deleting, DeletingLabels
    <2>3. CASE ClearInode
      BY <2>3, AheadNext DEF ClearInode, Goto, Meta, Deleting, DeletingLabels
    <2>4. CASE ClearNode
      <3>1. pc = "clear_node" /\ pc' = "superblock" /\ fr'.back = "done"
        BY <1>0, <2>4 DEF ClearNode, Goto, Frame
      <3>. QED  BY <3>1, AheadNext DEF Meta, Deleting, DeletingLabels
    <2>. QED  BY <2>1, <2>2, <2>3, <2>4
  <1>2. \A l \in DeletingLabels \ {"delete"} : DoneAt(l)'
    BY DEF DeletingLabels, DoneAt, MakingLabels, FileLabels, MappedLabels, EarlyLabels,
           DirLabels, BuiltLabels, NamingLabels
  <1>. QED  BY <1>1, <1>2, DoneNext DEF Deleting

(* Outside a call there is nothing to say.                                  *)
LEMMA OutsideDone ==
  ASSUME pc' \in {"idle", "off"}, fr'.op = "none", fr'.content = <<>>
  PROVE  OpAt(Ahead)' /\ DoneAt(Ahead)'
  <1>1. Ahead' \in {"idle", "off"}
    BY AheadNext DEF Meta
  <1>2. \A l \in {"idle", "off"} : OpAt(l)' /\ DoneAt(l)'
    BY DEF OpAt, DoneAt, DeletingLabels, MakingLabels, FileLabels, MappedLabels, EarlyLabels,
           DirLabels, BuiltLabels, NamingLabels
  <1>. QED  BY <1>1, <1>2, OpNext, DoneNext

(* A call has returned, or the power has failed.                            *)
LEMMA ReturnDone ==
  ASSUME pc' \in {"idle", "off"}, fr' = NoFrame
  PROVE  OpAt(Ahead)' /\ DoneAt(Ahead)' /\ CallInProgress' = [op |-> "none"] /\ ~Effective'
  <1>1. fr'.op = "none" /\ fr'.content = <<>>
    BY DEF NoFrame
  <1>. QED  BY <1>1, OutsideDone DEF CallInProgress, Effective

-----------------------------------------------------------------------------
(* The records of a block: what they name, and the dots among them.         *)
Holds(ents, n, i, t) ==
  \E k \in DOMAIN ents : /\ Naming(ents[k]) /\ ents[k].name = n
                         /\ ents[k].inode = i /\ ents[k].type = t

(* A directory lists what one of its blocks holds.                          *)
LEMMA ListsHolds ==
  ASSUME NEW d, NEW n, NEW i, NEW t
  PROVE  /\ Lists(d, n, i, t) <=>
              \E p \in Direct, b \in Blocks :
                b = inode_table[d].block[p] /\ b # 0 /\ Holds(Ents(b), n, i, t)
         /\ Lists(d, n, i, t)' <=>
              \E p \in Direct, b \in Blocks :
                b = inode_table'[d].block[p] /\ b # 0 /\ Holds(Ents(b)', n, i, t)
  <1>1. /\ Lists(d, n, i, t) <=>
              \E p \in Direct, b \in Blocks :
                b = inode_table[d].block[p] /\ b # 0 /\ Holds(Ents(b), n, i, t)
    BY Zenon DEF Lists, Holds
  <1>2. Lists(d, n, i, t)' <=>
              \E p \in Direct, b \in Blocks :
                b = inode_table'[d].block[p] /\ b # 0 /\ Holds(Ents(b)', n, i, t)
    BY Zenon DEF Lists, Holds
  <1>. QED  BY <1>1, <1>2

(* The lengths of records.                                                  *)
LEMMA RecLenRoom ==
  ASSUME NEW ents \in Seq(Entry), NEW k \in DOMAIN ents, NEW name \in Names \cup Dots,
         HasRoom(ents, k, name)
  PROVE  ents[k].rec_len # RecLen(ents[k].name)
  <1>0. ents[k] \in Entry
    OBVIOUS
  <1>1. /\ ents[k].rec_len \in Nat /\ ents[k].name \in Names \cup Dots
    BY <1>0 DEF Entry
  <1>2. RecLen(ents[k].name) \in Nat /\ NameLen[name] \in Nat
    BY <1>1, RecLenType, LayoutAssumption
  <1>3. RecLen(name) > 0
    <2>1. \A n \in Nat : get_entry_record_len(n) > 0
      BY DEF get_entry_record_len
    <2>. QED  BY <1>2, <2>1 DEF RecLen
  <1>. QED  BY <1>1, <1>2, <1>3, RecLenType DEF HasRoom

(* A record more.                                                           *)
LEMMA InsertHolds ==
  ASSUME NEW ents \in Seq(Entry), NEW k \in DOMAIN ents, NEW new, NEW ino, ino # 0,
         NEW name, name \notin Dots, NEW type, Inserted(new, ents, k, ino, name, type)
  PROVE  \A n, i, t : Holds(new, n, i, t) <=>
           Holds(ents, n, i, t) \/ (n = name /\ i = ino /\ t = type)
  <1>0. /\ k \in Nat /\ k >= 1 /\ k <= Len(ents) /\ Len(ents) \in Nat
        /\ DOMAIN ents = 1 .. Len(ents) /\ DOMAIN new = 1 .. Len(ents) + 1
    BY DEF Inserted
  <1>1. ASSUME NEW m \in DOMAIN new, m # k + 1
        PROVE  \E l \in DOMAIN ents : Alike(new[m], ents[l])
    <2>1. CASE m < k
      BY <1>0, <2>1 DEF Inserted, Alike
    <2>2. CASE m = k
      BY <1>0, <2>2 DEF Inserted
    <2>3. CASE m > k + 1
      <3>1. m \in k + 2 .. Len(ents) + 1 /\ m - 1 \in DOMAIN ents
        BY <1>0, <2>3
      <3>2. new[m] = ents[m - 1]
        BY <3>1 DEF Inserted
      <3>. QED  BY <3>1, <3>2 DEF Alike
    <2>. QED  BY <1>0, <1>1, <2>1, <2>2, <2>3
  <1>2. ASSUME NEW l \in DOMAIN ents
        PROVE  \E m \in DOMAIN new : Alike(new[m], ents[l])
    <2>1. CASE l < k
      BY <1>0, <2>1 DEF Inserted, Alike
    <2>2. CASE l = k
      BY <1>0, <2>2 DEF Inserted
    <2>3. CASE l > k
      <3>1. l + 1 \in k + 2 .. Len(ents) + 1 /\ l + 1 \in DOMAIN new /\ (l + 1) - 1 = l
        BY <1>0, <2>3
      <3>2. new[l + 1] = ents[(l + 1) - 1]
        BY <3>1 DEF Inserted
      <3>. QED  BY <3>1, <3>2 DEF Alike
    <2>. QED  BY <1>0, <2>1, <2>2, <2>3
  <1>3. /\ k + 1 \in DOMAIN new
        /\ new[k + 1].inode = ino /\ new[k + 1].name = name /\ new[k + 1].type = type
    BY <1>0 DEF Inserted, NewEntry
  <1>4. Naming(new[k + 1])
    BY <1>3 DEF Naming
  <1>. TAKE n, i, t
  <1>5. ASSUME Holds(new, n, i, t)
        PROVE  Holds(ents, n, i, t) \/ (n = name /\ i = ino /\ t = type)
    <2>1. PICK m \in DOMAIN new : /\ Naming(new[m]) /\ new[m].name = n
                                  /\ new[m].inode = i /\ new[m].type = t
      BY <1>5 DEF Holds
    <2>2. CASE m = k + 1
      BY <1>3, <2>1, <2>2
    <2>3. CASE m # k + 1
      <3>1. PICK l \in DOMAIN ents : Alike(new[m], ents[l])
        BY <1>1, <2>3
      <3>. QED  BY <2>1, <3>1 DEF Holds, Alike, Naming
    <2>. QED  BY <2>2, <2>3
  <1>6. ASSUME Holds(ents, n, i, t)
        PROVE  Holds(new, n, i, t)
    <2>1. PICK l \in DOMAIN ents : /\ Naming(ents[l]) /\ ents[l].name = n
                                   /\ ents[l].inode = i /\ ents[l].type = t
      BY <1>6 DEF Holds
    <2>2. PICK m \in DOMAIN new : Alike(new[m], ents[l])
      BY <1>2
    <2>. QED  BY <2>1, <2>2 DEF Holds, Alike, Naming
  <1>7. ASSUME n = name /\ i = ino /\ t = type
        PROVE  Holds(new, n, i, t)
    BY <1>3, <1>4, <1>7 DEF Holds
  <1>. QED  BY <1>5, <1>6, <1>7

(* The dots stay first: "." has no room to give.                            *)
LEMMA InsertDotted ==
  ASSUME NEW ents \in Seq(Entry), NEW k \in DOMAIN ents, NEW new, NEW ino,
         NEW name \in Names, name \notin Dots, NEW type, HasRoom(ents, k, name),
         Inserted(new, ents, k, ino, name, type)
  PROVE  /\ \A d, e : Dotted(d, e, ents) => Dotted(d, e, new)
         /\ Dotless(ents) => Dotless(new)
  <1>0. /\ k \in Nat /\ k >= 1 /\ k <= Len(ents) /\ Len(ents) \in Nat
        /\ DOMAIN ents = 1 .. Len(ents) /\ DOMAIN new = 1 .. Len(ents) + 1
        /\ Len(new) = Len(ents) + 1
    BY DEF Inserted
  <1>1. ASSUME NEW m \in DOMAIN new, m # k + 1
        PROVE  /\ m < k + 1 => m \in DOMAIN ents /\ Alike(new[m], ents[m])
               /\ m > k + 1 => m - 1 \in DOMAIN ents /\ Alike(new[m], ents[m - 1])
    <2>1. CASE m < k
      BY <1>0, <2>1 DEF Inserted, Alike
    <2>2. CASE m = k
      BY <1>0, <2>2 DEF Inserted
    <2>3. CASE m > k + 1
      <3>1. m \in k + 2 .. Len(ents) + 1 /\ m - 1 \in DOMAIN ents
        BY <1>0, <2>3
      <3>2. new[m] = ents[m - 1]
        BY <3>1 DEF Inserted
      <3>. QED  BY <1>0, <2>3, <3>1, <3>2 DEF Alike
    <2>. QED  BY <1>0, <1>1, <2>1, <2>2, <2>3
  <1>2. k + 1 \in DOMAIN new /\ new[k + 1].name = name
    BY <1>0 DEF Inserted, NewEntry
  <1>3. ASSUME Dotless(ents) PROVE Dotless(new)
    <2>1. ASSUME NEW m \in DOMAIN new PROVE new[m].name \notin Dots
      <3>1. CASE m = k + 1
        BY <1>2, <3>1
      <3>2. CASE m # k + 1
        BY <1>0, <1>1, <1>3, <3>2 DEF Dotless, Alike
      <3>. QED  BY <3>1, <3>2
    <2>. QED  BY <2>1 DEF Dotless
  <1>4. ASSUME NEW d, NEW e, Dotted(d, e, ents) PROVE Dotted(d, e, new)
    <2>1. k # 1
      BY <1>4, RecLenRoom DEF Dotted
    <2>2. new[1] = ents[1]
      BY <1>0, <2>1 DEF Inserted
    <2>3. Alike(new[2], ents[2])
      BY <1>0, <1>1, <2>1
    <2>4. ASSUME NEW m \in 3 .. Len(new) PROVE new[m].name \notin Dots
      <3>1. CASE m = k + 1
        BY <1>2, <3>1
      <3>2. CASE m # k + 1
        <4>1. \E l \in 3 .. Len(ents) : Alike(new[m], ents[l])
          <5>1. m \in DOMAIN new
            BY <1>0
          <5>2. CASE m < k + 1
            BY <1>0, <1>1, <5>1, <5>2
          <5>3. CASE m > k + 1
            <6>1. m - 1 \in 3 .. Len(ents)
              BY <1>0, <2>1, <5>1, <5>3
            <6>. QED  BY <1>1, <3>2, <5>1, <5>3, <6>1
          <5>. QED  BY <1>0, <3>2, <5>2, <5>3
        <4>. QED  BY <1>4, <4>1 DEF Dotted, Alike
      <3>. QED  BY <3>1, <3>2
    <2>. QED  BY <1>0, <1>4, <2>2, <2>3, <2>4 DEF Dotted, Alike
  <1>. QED  BY <1>3, <1>4

(* What becomes of the records when one is removed.                         *)
RecordGone(new, ents, k) ==
  /\ new \in Seq(Entry)
  /\ \A m \in DOMAIN new :
       \/ k = 1 /\ m = 1 /\ new[m].inode = 0 /\ new[m].name = ents[k].name
       \/ \E l \in DOMAIN ents : l # k /\ Alike(new[m], ents[l]) /\ (m >= 3 => l >= 3)
  /\ \A l \in DOMAIN ents : l # k => \E m \in DOMAIN new : Alike(new[m], ents[l])
  /\ k >= 3 => Len(new) >= 2 /\ new[1] = ents[1] /\ Alike(new[2], ents[2])

(* RemoveEntry takes out one name and keeps the others.                     *)
LEMMA RemoveGone ==
  ASSUME NEW ents \in Seq(Entry), NEW k \in DOMAIN ents, NEW new, new = RemoveEntry(ents, k)
  PROVE  RecordGone(new, ents, k)
  <1>0. /\ k \in Nat /\ k >= 1 /\ k <= Len(ents) /\ Len(ents) \in Nat
        /\ DOMAIN ents = 1 .. Len(ents) /\ new \in Seq(Entry)
    BY RemoveType
  <1>1. CASE k = 1
    <2>1. DOMAIN new = 1 .. Len(ents)
      BY <1>1, RemoveShape
    <2>2. new[1].inode = 0
      BY <1>1, RemoveShape
    <2>3. new[1].name = ents[1].name
      BY <1>1, RemoveShape
    <2>4. \A i \in 2 .. Len(ents) : new[i] = ents[i]
      BY <1>1, RemoveShape
    <2>. QED  BY <1>0, <1>1, <2>1, <2>2, <2>3, <2>4 DEF RecordGone, Alike
  <1>2. CASE k # 1
    <2>1. DOMAIN new = 1 .. Len(ents) - 1
      BY <1>2, RemoveShape
    <2>2. \A i \in 1 .. k - 2 : new[i] = ents[i]
      BY <1>2, RemoveShape
    <2>3. Alike(new[k - 1], ents[k - 1])
      BY <1>2, RemoveShape
    <2>4. \A i \in k .. Len(ents) - 1 : new[i] = ents[i + 1]
      BY <1>2, RemoveShape
    <2>5. ASSUME NEW m \in DOMAIN new
          PROVE  \E l \in DOMAIN ents : l # k /\ Alike(new[m], ents[l]) /\ (m >= 3 => l >= 3)
      <3>1. CASE m < k - 1
        <4>1. m \in 1 .. k - 2 /\ m \in DOMAIN ents /\ m # k
          BY <1>0, <2>1, <3>1
        <4>2. new[m] = ents[m]
          BY <2>2, <4>1
        <4>. QED  BY <4>1, <4>2 DEF Alike
      <3>2. CASE m = k - 1
        BY <1>0, <1>2, <2>1, <2>3, <3>2
      <3>3. CASE m >= k
        <4>1. m + 1 \in DOMAIN ents /\ m + 1 # k /\ new[m] = ents[m + 1]
          BY <1>0, <2>1, <2>4, <3>3
        <4>2. Alike(new[m], ents[m + 1]) /\ (m >= 3 => m + 1 >= 3)
          BY <1>0, <2>1, <4>1 DEF Alike
        <4>. QED  BY <4>1, <4>2
      <3>. QED  BY <1>0, <2>1, <3>1, <3>2, <3>3
    <2>6. ASSUME NEW l \in DOMAIN ents, l # k
          PROVE  \E m \in DOMAIN new : Alike(new[m], ents[l])
      <3>1. CASE l < k - 1
        BY <1>0, <2>1, <2>2, <3>1 DEF Alike
      <3>2. CASE l = k - 1
        BY <1>0, <1>2, <2>1, <2>3, <3>2
      <3>3. CASE l > k
        <4>1. l - 1 \in k .. Len(ents) - 1 /\ (l - 1) + 1 = l /\ l - 1 \in DOMAIN new
          BY <1>0, <2>1, <3>3
        <4>2. new[l - 1] = ents[(l - 1) + 1]
          BY <2>4, <4>1
        <4>. QED  BY <4>1, <4>2 DEF Alike
      <3>. QED  BY <1>0, <2>6, <3>1, <3>2, <3>3
    <2>7. ASSUME k >= 3
          PROVE  Len(new) >= 2 /\ new[1] = ents[1] /\ Alike(new[2], ents[2])
      <3>1. Len(new) = Len(ents) - 1
        <4>0. PICK a, c : a = Len(ents) - 1 /\ c = Len(new)
          OBVIOUS
        <4>1. DOMAIN new = 1 .. c /\ c \in Nat /\ a \in Nat /\ a >= 2
          BY <1>0, <2>7, <4>0
        <4>2. 1 .. c = 1 .. a
          BY <2>1, <4>0, <4>1
        <4>3. a \in 1 .. c
          BY <4>1, <4>2
        <4>4. c \in 1 .. a
          BY <4>1, <4>2, <4>3
        <4>. QED  BY <4>0, <4>1, <4>3, <4>4
      <3>2. new[1] = ents[1]
        BY <1>0, <2>2, <2>7
      <3>3. Alike(new[2], ents[2])
        <4>1. CASE k = 3
          BY <2>3, <4>1
        <4>2. CASE k > 3
          BY <1>0, <2>2, <4>2 DEF Alike
        <4>. QED  BY <1>0, <2>7, <4>1, <4>2
      <3>. QED  BY <1>0, <2>7, <3>1, <3>2, <3>3
    <2>. QED  BY <1>0, <2>5, <2>6, <2>7 DEF RecordGone
  <1>. QED  BY <1>1, <1>2

(* A record less: its name is the only one gone.                            *)
LEMMA RemoveHolds ==
  ASSUME NEW ents, NEW k \in DOMAIN ents, NEW new, RecordGone(new, ents, k), Naming(ents[k]),
         \A l \in DOMAIN ents : Naming(ents[l]) /\ ents[l].name = ents[k].name => l = k
  PROVE  \A n, i, t : Holds(new, n, i, t) <=> Holds(ents, n, i, t) /\ n # ents[k].name
  <1>. TAKE n, i, t
  <1>1. ASSUME Holds(new, n, i, t)
        PROVE  Holds(ents, n, i, t) /\ n # ents[k].name
    <2>1. PICK m \in DOMAIN new : /\ Naming(new[m]) /\ new[m].name = n
                                  /\ new[m].inode = i /\ new[m].type = t
      BY <1>1 DEF Holds
    <2>2. PICK l \in DOMAIN ents : l # k /\ Alike(new[m], ents[l])
      BY <2>1 DEF RecordGone, Naming
    <2>. QED  BY <2>1, <2>2 DEF Holds, Alike, Naming
  <1>2. ASSUME Holds(ents, n, i, t), n # ents[k].name
        PROVE  Holds(new, n, i, t)
    <2>1. PICK l \in DOMAIN ents : /\ Naming(ents[l]) /\ ents[l].name = n
                                   /\ ents[l].inode = i /\ ents[l].type = t
      BY <1>2 DEF Holds
    <2>2. PICK m \in DOMAIN new : Alike(new[m], ents[l])
      BY <1>2, <2>1 DEF RecordGone
    <2>. QED  BY <2>1, <2>2 DEF Holds, Alike, Naming
  <1>. QED  BY <1>1, <1>2

(* Removing a name leaves the dots where they are.                          *)
LEMMA RemoveDotted ==
  ASSUME NEW ents \in Seq(Entry), NEW k \in DOMAIN ents, NEW new, RecordGone(new, ents, k),
         ents[k].name \notin Dots
  PROVE  /\ \A d, e : Dotted(d, e, ents) => Dotted(d, e, new)
         /\ Dotless(ents) => Dotless(new)
  <1>0. k \in Nat /\ k >= 1
    OBVIOUS
  <1>1. ASSUME Dotless(ents) PROVE Dotless(new)
    <2>1. ASSUME NEW m \in DOMAIN new PROVE new[m].name \notin Dots
      <3>1. \E l \in DOMAIN ents : new[m].name = ents[l].name
        BY DEF RecordGone, Alike
      <3>. QED  BY <1>1, <3>1 DEF Dotless
    <2>. QED  BY <2>1 DEF Dotless
  <1>2. ASSUME NEW d, NEW e, Dotted(d, e, ents) PROVE Dotted(d, e, new)
    <2>1. k >= 3
      BY <1>0, <1>2 DEF Dotted, Dots
    <2>2. Len(new) >= 2 /\ new[1] = ents[1] /\ Alike(new[2], ents[2])
      BY <2>1 DEF RecordGone
    <2>3. ASSUME NEW m \in 3 .. Len(new) PROVE new[m].name \notin Dots
      <3>1. m \in DOMAIN new /\ m >= 3
        BY DEF RecordGone
      <3>2. PICK l \in DOMAIN ents : l >= 3 /\ Alike(new[m], ents[l])
        BY <2>1, <3>1 DEF RecordGone
      <3>3. l \in 3 .. Len(ents)
        BY <3>2
      <3>. QED  BY <1>2, <3>2, <3>3 DEF Dotted, Alike
    <2>. QED  BY <1>2, <2>2, <2>3 DEF Dotted, Alike
  <1>. QED  BY <1>1, <1>2

-----------------------------------------------------------------------------
(* A step that writes block p0 of directory q and nothing else in use.      *)
DirWrite(q, p0, x) ==
  /\ q \in Inodes /\ DirOf(q) /\ p0 \in Direct /\ x \in Blocks /\ x # 0
  /\ x = inode_table[q].block[p0] /\ UNCHANGED inode_table
  /\ \A b \in Blocks : b # x => blk'[b] = blk[b]

(* The block has no other owner.                                            *)
LEMMA OtherBlocks ==
  ASSUME TypeOK, WellFormed, NEW q, NEW p0, NEW x, DirWrite(q, p0, x)
  PROVE  /\ Owned(x)
         /\ \A i \in Inodes, j \in Positions :
              IsNamed(i) /\ PtrAt(i, j) = x => i = q /\ j = p0
         /\ \A d \in Inodes, p \in Direct :
              IsNamed(d) /\ inode_table[d].block[p] = x => d = q /\ p = p0
  <1>1. q \in Inodes /\ IsNamed(q) /\ p0 \in Direct /\ x # 0 /\ x = inode_table[q].block[p0]
    BY DEF DirWrite, DirOf
  <1>2. PtrAt(q, p0) = x /\ p0 \in Positions /\ Owned(x)
    BY <1>1, NamedOwns
  <1>3. OneOwner
    BY DEF WellFormed
  <1>4. \A i \in Inodes, j \in Positions :
              IsNamed(i) /\ PtrAt(i, j) = x => i = q /\ j = p0
    BY <1>1, <1>2, <1>3 DEF OneOwner
  <1>5. ASSUME NEW d \in Inodes, NEW p \in Direct, IsNamed(d), inode_table[d].block[p] = x
        PROVE  d = q /\ p = p0
    <2>1. PtrAt(d, p) = x /\ p \in Positions
      BY <1>5, NamedOwns
    <2>. QED  BY <1>4, <1>5, <2>1
  <1>. QED  BY <1>2, <1>4, <1>5

(* Whoever else has a name keeps its records and its content.               *)
LEMMA OthersKept ==
  ASSUME TypeOK, TypeOK', WellFormed, NEW q, NEW p0, NEW x, DirWrite(q, p0, x)
  PROVE  /\ \A d \in Inodes, p \in Direct : IsNamed(d) /\ ~(d = q /\ p = p0) =>
              DirEnts(d, p)' = DirEnts(d, p)
         /\ \A d \in Inodes : IsNamed(d) /\ d # q =>
              \A n, i, t : Lists(d, n, i, t)' <=> Lists(d, n, i, t)
         /\ \A i \in Inodes : IsNamed(i) /\ i # q => read(i)' = read(i)
  <1>0. x # 0 /\ inode_table' = inode_table /\ \A b \in Blocks : b # x => blk'[b] = blk[b]
    BY DEF DirWrite
  <1>1. ASSUME NEW d \in Inodes, NEW p \in Direct, IsNamed(d), ~(d = q /\ p = p0)
        PROVE  DirEnts(d, p)' = DirEnts(d, p)
    <2>1. PICK b : b = inode_table[d].block[p]
      OBVIOUS
    <2>2. b \in Blocks /\ b # x
      BY <1>1, <2>1, NamedOwns, OtherBlocks
    <2>3. blk'[b] = blk[b]
      BY <1>0, <2>2
    <2>. QED  BY <1>0, <2>1, <2>3 DEF DirEnts, Ents
  <1>2. ASSUME NEW d \in Inodes, IsNamed(d), d # q
        PROVE  \A n, i, t : Lists(d, n, i, t)' <=> Lists(d, n, i, t)
    <2>1. ASSUME NEW p \in Direct, NEW b \in Blocks, b = inode_table[d].block[p]
          PROVE  Ents(b)' = Ents(b)
      <3>1. b # x
        BY <1>2, <2>1, OtherBlocks
      <3>. QED  BY <1>0, <3>1 DEF Ents
    <2>. QED  BY <1>0, <2>1, SameLists
  <1>3. ASSUME NEW i \in Inodes, IsNamed(i), i # q
        PROVE  read(i)' = read(i)
    <2>1. \A b \in Blocks : b = 0 \/ (\E j \in Positions : PtrAt(i, j) = b) => blk'[b] = blk[b]
      BY <1>0, <1>3, OtherBlocks
    <2>. QED  BY <1>0, <2>1, ReadSame
  <1>. QED  BY <1>1, <1>2, <1>3

(* What the directory lists afterwards: what its other blocks hold, and what
   this one holds now.                                                      *)
LEMMA WrittenLists ==
  ASSUME TypeOK, WellFormed, NEW q, NEW p0, NEW x, DirWrite(q, p0, x), NEW n, NEW i, NEW t
  PROVE  /\ Lists(q, n, i, t)' /\ ~Holds(Ents(x)', n, i, t) => Lists(q, n, i, t)
         /\ Lists(q, n, i, t) /\ ~Holds(Ents(x), n, i, t) => Lists(q, n, i, t)'
         /\ Holds(Ents(x), n, i, t) => Lists(q, n, i, t)
         /\ Holds(Ents(x)', n, i, t) => Lists(q, n, i, t)'
         /\ Lists(q, n, i, t) /\ ~Holds(Ents(x), n, i, t) =>
              \E p \in Direct, b \in Blocks :
                b = inode_table[q].block[p] /\ b # 0 /\ p # p0 /\ Holds(Ents(b), n, i, t)
  <1>0. /\ x # 0 /\ inode_table' = inode_table /\ p0 \in Direct /\ x \in Blocks
        /\ x = inode_table[q].block[p0]
        /\ \A b \in Blocks : b # x => blk'[b] = blk[b]
    BY DEF DirWrite
  <1>1. \A b \in Blocks : b # x => Ents(b)' = Ents(b)
    BY <1>0 DEF Ents
  <1>2. /\ Lists(q, n, i, t) <=>
              \E p \in Direct, b \in Blocks :
                b = inode_table[q].block[p] /\ b # 0 /\ Holds(Ents(b), n, i, t)
        /\ Lists(q, n, i, t)' <=>
              \E p \in Direct, b \in Blocks :
                b = inode_table[q].block[p] /\ b # 0 /\ Holds(Ents(b)', n, i, t)
    BY <1>0, ListsHolds
  <1>3. ASSUME Lists(q, n, i, t)', ~Holds(Ents(x)', n, i, t) PROVE Lists(q, n, i, t)
    <2>1. PICK p \in Direct, b \in Blocks :
            b = inode_table[q].block[p] /\ b # 0 /\ Holds(Ents(b)', n, i, t)
      BY <1>2, <1>3
    <2>2. Ents(b)' = Ents(b)
      BY <1>1, <1>3, <2>1
    <2>. QED  BY <1>2, <2>1, <2>2
  <1>4. ASSUME Lists(q, n, i, t), ~Holds(Ents(x), n, i, t)
        PROVE  /\ Lists(q, n, i, t)'
               /\ \E p \in Direct, b \in Blocks :
                    b = inode_table[q].block[p] /\ b # 0 /\ p # p0 /\ Holds(Ents(b), n, i, t)
    <2>1. PICK p \in Direct, b \in Blocks :
            b = inode_table[q].block[p] /\ b # 0 /\ Holds(Ents(b), n, i, t)
      BY <1>2, <1>4
    <2>2. b # x
      BY <1>4, <2>1
    <2>3. p # p0
      BY <1>0, <2>1, <2>2
    <2>4. Ents(b)' = Ents(b)
      BY <1>1, <2>2
    <2>. QED  BY <1>2, <2>1, <2>3, <2>4
  <1>. QED  BY <1>0, <1>2, <1>3, <1>4

-----------------------------------------------------------------------------
(* The new inode gets its name.                                             *)

(* The map of the new inode on the disk is the one write has built.         *)
LEMMA NewPtr ==
  ASSUME TypeOK, Built, inode_table[fr.inum] = fr.node, NEW j \in Positions
  PROVE  PtrAt(fr.inum, j) =
           IF j <= NDirect \/ fr.node.block[NDirect] # 0 THEN Held(j) ELSE 0
  <1>1. PICK a : a = fr.node.block[NDirect]
    OBVIOUS
  <1>2. a # 0 => blk[a].kind = "table" /\ blk[a].ptr = fr.ptr
    BY <1>1 DEF Built, TableBlock
  <1>. QED  BY <1>1, <1>2 DEF PtrAt, Held

(* None of its blocks is in use by anyone with a name.                      *)
LEMMA NewApart ==
  ASSUME TypeOK, Built, MakingBlocks, inode_table[fr.inum] = fr.node, NEW x, Owned(x), x # 0,
         NEW j \in Positions
  PROVE  PtrAt(fr.inum, j) # x /\ Held(j) # x
  <1>1. PICK h : h = Held(j)
    OBVIOUS
  <1>2. h # 0 => ~Owned(h)
    BY <1>1 DEF MakingBlocks, Private
  <1>3. h # x
    BY <1>2
  <1>. QED  BY <1>1, <1>3, NewPtr

(* The block x of directory q has one more record: j of type u, by the name m. *)
NameIn(x, m, j, u) ==
  /\ \A n, i, t : Holds(Ents(x)', n, i, t) <=>
       Holds(Ents(x), n, i, t) \/ (n = m /\ i = j /\ t = u)
  /\ \A d, e : Dotted(d, e, Ents(x)) => Dotted(d, e, Ents(x)')
  /\ Dotless(Ents(x)) => Dotless(Ents(x)')

(* A step that gives the inode j, as write has made it, the name m in the block
   x of the directory q.                                                    *)
NewName(q, m, j, u, p0, x) ==
  /\ q = fr.parent /\ m = fr.name /\ j = fr.inum /\ u = FrType
  /\ MakingNode /\ MakingBlocks /\ Built /\ inode_table[j] = fr.node
  /\ fr.dir => DotsStored
  /\ DirWrite(q, p0, x) /\ NameIn(x, m, j, u)
  /\ \A i : IsNamed(i)' => IsNamed(i) \/ i = j

(* The new inode is as write has made it.                                   *)
LEMMA NewKept ==
  ASSUME TypeOK, TypeOK', WellFormed, NEW q, NEW m, NEW j, NEW u, NEW p0, NEW x,
         NewName(q, m, j, u, p0, x)
  PROVE  /\ j \in Inodes /\ ~IsNamed(j) /\ q \in Inodes /\ DirOf(q) /\ j # q
         /\ inode_table[j].mode = u /\ read(j)' = read(j)
         /\ u = "dir" =>
              /\ inode_table[j].block[0] # 0 /\ Dotted(j, q, DirEnts(j, 0)')
              /\ \A p \in 1 .. NDirect - 1 : inode_table[j].block[p] = 0
              /\ \A n, i, t : ~Lists(j, n, i, t)'
  <1>1. /\ j \in Inodes /\ ~IsNamed(j) /\ q \in Inodes /\ DirOf(q) /\ j # q
        /\ inode_table[j].mode = u /\ j = fr.inum /\ q = fr.parent
    BY DEF NewName, MakingNode, ParentGood, TypeOK, DirOf
  <1>2. /\ inode_table' = inode_table /\ x # 0 /\ inode_table[j] = fr.node
        /\ \A b \in Blocks : b # x => blk'[b] = blk[b]
        /\ Owned(x) /\ Built /\ MakingBlocks
    BY OtherBlocks DEF NewName, DirWrite
  <1>3. \A l \in Positions : PtrAt(j, l) # x /\ Held(l) # x
    BY <1>1, <1>2, NewApart
  <1>4. read(j)' = read(j)
    <2>1. \A b \in Blocks : b = 0 \/ (\E l \in Positions : PtrAt(j, l) = b) => blk'[b] = blk[b]
      BY <1>2, <1>3
    <2>. QED  BY <1>1, <1>2, <2>1, ReadSame
  <1>5. ASSUME u = "dir"
        PROVE  /\ inode_table[j].block[0] # 0 /\ Dotted(j, q, DirEnts(j, 0)')
               /\ \A p \in 1 .. NDirect - 1 : inode_table[j].block[p] = 0
               /\ \A n, i, t : ~Lists(j, n, i, t)'
    <2>0. fr.dir /\ DotsStored
      BY <1>5 DEF NewName, FrType
    <2>1. PICK b : b = fr.node.block[0]
      OBVIOUS
    <2>2. b # 0 /\ Ents(b) = DotEntries(j, q) /\ inode_table[j].block[0] = b
      BY <1>1, <1>2, <2>0, <2>1 DEF DotsStored
    <2>3. 0 \in Positions /\ Held(0) = b /\ b \in Blocks
      BY <2>1, PositionFacts, FrameParts DEF Held
    <2>4. blk'[b] = blk[b]
      BY <1>2, <1>3, <2>3
    <2>5. Ents(b)' = DotEntries(j, q)
      BY <2>2, <2>4 DEF Ents
    <2>6. DirEnts(j, 0)' = DotEntries(j, q)
      BY <1>2, <2>2, <2>5 DEF DirEnts
    <2>7. Dotted(j, q, DotEntries(j, q))
      BY RecLenType DEF Dotted, DotEntries, NewEntry, Dots
    <2>8. \A p \in 1 .. NDirect - 1 : inode_table[j].block[p] = 0
      BY <1>2, <2>0, LayoutFacts DEF MakingBlocks
    <2>9. ASSUME NEW n, NEW i, NEW t, Lists(j, n, i, t)' PROVE FALSE
      <3>1. PICK p \in Direct, c \in Blocks :
              c = inode_table[j].block[p] /\ c # 0 /\ Holds(Ents(c)', n, i, t)
        BY <1>2, <2>9, ListsHolds
      <3>2. p = 0
        BY <2>8, <3>1, LayoutFacts DEF Direct
      <3>3. Holds(DotEntries(j, q), n, i, t)
        BY <2>2, <2>5, <3>1, <3>2
      <3>. QED  BY <3>3, DotsDoNotName DEF Holds
    <2>. QED  BY <2>2, <2>6, <2>7, <2>8, <2>9
  <1>. QED  BY <1>1, <1>4, <1>5

(* What the directories list then.                                          *)
LEMMA NewLists ==
  ASSUME TypeOK, TypeOK', WellFormed, NEW q, NEW m, NEW j, NEW u, NEW p0, NEW x,
         NewName(q, m, j, u, p0, x), NEW d \in Inodes, IsNamed(d), NEW n, NEW i, NEW t
  PROVE  Lists(d, n, i, t)' <=> Lists(d, n, i, t) \/ (d = q /\ n = m /\ i = j /\ t = u)
  <1>0. DirWrite(q, p0, x) /\ NameIn(x, m, j, u)
    BY DEF NewName
  <1>1. CASE d # q
    BY <1>0, <1>1, OthersKept
  <1>2. CASE d = q
    <2>1. Holds(Ents(x)', n, i, t) <=> Holds(Ents(x), n, i, t) \/ (n = m /\ i = j /\ t = u)
      BY <1>0 DEF NameIn
    <2>. QED  BY <1>0, <1>2, <2>1, WrittenLists
  <1>. QED  BY <1>1, <1>2

(* The dots of the directories that were there, and of the new one.         *)
LEMMA NewDots ==
  ASSUME TypeOK, TypeOK', WellFormed, DotsHome, NEW q, NEW m, NEW j, NEW u, NEW p0, NEW x,
         NewName(q, m, j, u, p0, x)
  PROVE  DotsHome'
  <1>0. /\ DirWrite(q, p0, x) /\ NameIn(x, m, j, u) /\ inode_table' = inode_table
        /\ x = inode_table[q].block[p0] /\ p0 \in Direct
        /\ \A i : IsNamed(i)' => IsNamed(i) \/ i = j
        /\ 0 \in Direct /\ \A p \in 1 .. NDirect - 1 : p \in Direct
    BY LayoutFacts DEF NewName, DirWrite, Direct
  <1>1. DirEnts(q, p0) = Ents(x) /\ DirEnts(q, p0)' = Ents(x)'
    BY <1>0 DEF DirEnts
  <1>2. ASSUME NEW d \in Inodes, IsNamed(d), NEW e, Dotted(d, e, DirEnts(d, 0))
        PROVE  Dotted(d, e, DirEnts(d, 0)')
    <2>1. CASE d = q /\ p0 = 0
      BY <1>0, <1>1, <1>2, <2>1 DEF NameIn
    <2>2. CASE ~(d = q /\ p0 = 0)
      BY <1>0, <1>2, <2>2, OthersKept
    <2>. QED  BY <2>1, <2>2
  <1>3. ASSUME NEW d \in Inodes, IsNamed(d), NEW p \in Direct, Dotless(DirEnts(d, p))
        PROVE  Dotless(DirEnts(d, p)')
    <2>1. CASE d = q /\ p0 = p
      BY <1>0, <1>1, <1>3, <2>1 DEF NameIn
    <2>2. CASE ~(d = q /\ p0 = p)
      BY <1>0, <1>3, <2>2, OthersKept
    <2>. QED  BY <2>1, <2>2
  <1>. SUFFICES ASSUME NEW d \in Inodes, DirOf(d)'
                PROVE  /\ inode_table[d].block[0] # 0
                       /\ \E e \in Inodes \cup {0} : Dotted(d, e, DirEnts(d, 0)')
                       /\ \A p \in 1 .. NDirect - 1 :
                            inode_table[d].block[p] # 0 => Dotless(DirEnts(d, p)')
                       /\ \A n \in Names, i \in Inodes :
                            Lists(d, n, i, "dir")' => Dotted(i, d, DirEnts(i, 0)')
    BY <1>0 DEF DotsHome, Dotted, Dotless
  <1>4. IsNamed(d)' /\ inode_table[d].mode = "dir"
    BY <1>0 DEF DirOf
  <1>5. CASE IsNamed(d)
    <2>0. DirOf(d)
      BY <1>4, <1>5 DEF DirOf
    <2>1. /\ inode_table[d].block[0] # 0
          /\ \E e \in Inodes \cup {0} : Dotted(d, e, DirEnts(d, 0))
          /\ \A p \in 1 .. NDirect - 1 : inode_table[d].block[p] # 0 => Dotless(DirEnts(d, p))
      BY <2>0 DEF DotsHome
    <2>2. ASSUME NEW n \in Names, NEW i \in Inodes, Lists(d, n, i, "dir")'
          PROVE  Dotted(i, d, DirEnts(i, 0)')
      <3>1. CASE Lists(d, n, i, "dir")
        <4>1. IsNamed(i) /\ Dotted(i, d, DirEnts(i, 0))
          BY <2>0, <3>1, ListedType DEF DotsHome
        <4>. QED  BY <1>2, <4>1
      <3>2. CASE d = q /\ i = j /\ u = "dir"
        BY <3>2, NewKept
      <3>. QED  BY <1>5, <2>2, <3>1, <3>2, NewLists
    <2>. QED  BY <1>0, <1>2, <1>3, <1>5, <2>1, <2>2
  <1>6. CASE ~IsNamed(d)
    <2>1. d = j /\ u = "dir"
      BY <1>0, <1>4, <1>6, NewKept
    <2>2. /\ inode_table[j].block[0] # 0 /\ Dotted(j, q, DirEnts(j, 0)')
          /\ \A p \in 1 .. NDirect - 1 : inode_table[j].block[p] = 0
          /\ \A n, i, t : ~Lists(j, n, i, t)' /\ q \in Inodes
      BY <2>1, NewKept
    <2>. QED  BY <2>1, <2>2
  <1>. QED  BY <1>5, <1>6

(* add_entry_to_dir, in either of its forms.                                *)
LEMMA EntryNamed ==
  ASSUME Orderly, TypeOK, TypeOK', WellFormed, CallGood, DoneAt(Ahead), AddEntry \/ GrowBlock
  PROVE  \E p0, x : NewName(fr.parent, fr.name, fr.inum, FrType, p0, x)
  <1>. USE DEF MakingLabels, FileLabels, MappedLabels, EarlyLabels, DirLabels,
               BuiltLabels, NamingLabels, PendingLabels
  <1>0. PICK q, m, j, u : q = fr.parent /\ m = fr.name /\ j = fr.inum /\ u = FrType
    OBVIOUS
  <1>1. pc \in {"add_entry", "grow_block"} /\ Ahead = pc /\ UNCHANGED inode_table
    BY AheadNext DEF AddEntry, GrowBlock, Meta
  <1>2. MakingNode /\ MakingBlocks /\ Built /\ inode_table[j] = fr.node
    BY <1>0, <1>1, GoodHere DEF GoodAt, Meta
  <1>3. fr.dir => DotsStored
    BY <1>1 DEF DoneAt
  <1>4. \A i : IsNamed(i)' => IsNamed(i) \/ i = j
    BY <1>0, AddEntryTree, GrowBlockTree DEF OneMoreMap
  <1>5. /\ q \in Inodes /\ DirOf(q) /\ m \in Names /\ m \notin Dots /\ j \in Inodes /\ j # 0
        /\ u \in {"file", "dir"}
    <2>1. q \in Inodes /\ DirOf(q) /\ m \in Names /\ j \in Inodes
      BY <1>0, <1>2 DEF MakingNode, ParentGood, TypeOK
    <2>2. m \notin Dots
      BY <2>1 DEF Orderly
    <2>3. j # 0
      BY <2>1 DEF Inodes
    <2>. QED  BY <1>0, <2>1, <2>2, <2>3 DEF FrType
  <1>6. SUFFICES \E p0, x : DirWrite(q, p0, x) /\ NameIn(x, m, j, u)
    BY <1>0, <1>2, <1>3, <1>4 DEF NewName
  <1>7. CASE AddEntry
    <2>2. PICK s \in First(Rooms(q, m)) :
            LET b == inode_table[q].block[s[1]] IN
            blk' = [blk EXCEPT ![b] = DirBlock(InsertEntry(Ents(b), s[2], j, m, u))]
      BY <1>0, <1>7 DEF AddEntry
    <2>3. s \in Slots(q) /\ HasRoom(DirEnts(q, s[1]), s[2], m)
      BY DEF First, Rooms
    <2>4. PICK p \in Direct, b \in Blocks : \E k \in DOMAIN Ents(b) :
            b = inode_table[q].block[p] /\ b # 0 /\ s = <<p, k>>
      BY <1>5, <2>3, SlotRecord
    <2>5. PICK k \in DOMAIN Ents(b) : s = <<p, k>>
      BY <2>4
    <2>6. s[1] = p /\ s[2] = k /\ b = inode_table[q].block[p] /\ b # 0 /\ Ents(b) = DirEnts(q, p)
      BY <2>4, <2>5 DEF DirEnts
    <2>7. PICK new : new = InsertEntry(Ents(b), k, j, m, u)
      OBVIOUS
    <2>8. blk' = [blk EXCEPT ![b] = DirBlock(new)]
      BY <2>2, <2>6, <2>7
    <2>9. Ents(b)' = new /\ \A c \in Blocks : c # b => blk'[c] = blk[c]
      BY <2>8 DEF Ents, DirBlock, TypeOK
    <2>10. Ents(b) \in Seq(Entry) /\ HasRoom(Ents(b), k, m)
      BY <2>3, <2>6, DiskParts
    <2>11. Inserted(new, Ents(b), k, j, m, u)
      BY <1>5, <2>7, <2>10, InsertShape
    <2>12. DirWrite(q, p, b)
      BY <1>1, <1>5, <2>6, <2>9 DEF DirWrite
    <2>13. PICK old : old = Ents(b)
      OBVIOUS
    <2>14. /\ \A n, i, t : Holds(new, n, i, t) <=> Holds(old, n, i, t) \/ (n = m /\ i = j /\ t = u)
           /\ \A d, e : Dotted(d, e, old) => Dotted(d, e, new)
           /\ Dotless(old) => Dotless(new)
      BY <1>5, <2>10, <2>11, <2>13, InsertHolds, InsertDotted
    <2>15. NameIn(b, m, j, u)
      BY <2>9, <2>13, <2>14 DEF NameIn
    <2>. QED  BY <2>12, <2>15
  <1>8. CASE GrowBlock
    <2>1. GrownBlock
      BY <1>8, GoodHere DEF GrowBlock, GoodAt, Meta
    <2>2. PICK p \in Direct : inode_table[q].block[p] = fr.got
      BY <1>0, <2>1 DEF GrownBlock
    <2>3. PICK x : x = fr.got
      OBVIOUS
    <2>4. x \in Blocks /\ x # 0 /\ Ents(x) = <<>>
      BY <2>1, <2>3, FrameParts DEF GrownBlock, Ents
    <2>5. PICK e : e = NewEntry(j, m, u, BLOCK_SIZE)
      OBVIOUS
    <2>6. blk' = [blk EXCEPT ![x] = DirBlock(<<e>>)]
      BY <1>0, <1>8, <2>3, <2>5 DEF GrowBlock
    <2>7. Ents(x)' = <<e>> /\ \A c \in Blocks : c # x => blk'[c] = blk[c]
      BY <2>4, <2>6 DEF Ents, DirBlock, TypeOK
    <2>8. e.inode = j /\ e.name = m /\ e.type = u /\ Naming(e)
      BY <1>5, <2>5 DEF NewEntry, Naming
    <2>9. DirWrite(q, p, x)
      BY <1>1, <1>5, <2>2, <2>3, <2>4, <2>7 DEF DirWrite
    <2>10. \A n, i, t : Holds(<<e>>, n, i, t) <=> (n = m /\ i = j /\ t = u)
      BY <2>8 DEF Holds
    <2>11. /\ \A n, i, t : ~Holds(<<>>, n, i, t)
           /\ \A d, f : ~Dotted(d, f, <<>>)
           /\ Dotless(<<e>>)
      BY <1>5, <2>8 DEF Holds, Dotted, Dotless
    <2>12. NameIn(x, m, j, u)
      BY <2>4, <2>7, <2>10, <2>11 DEF NameIn
    <2>. QED  BY <2>9, <2>12
  <1>. QED  BY <1>7, <1>8

-----------------------------------------------------------------------------
(* What the new file reads as.                                              *)
LEMMA CountBelow ==
  ASSUME NEW a \in Nat
  PROVE  Cardinality(0 .. a - 1) = a
  <1>1. Cardinality(0 .. a - 1) = IF 0 > a - 1 THEN 0 ELSE (a - 1) - 0 + 1
    <2>1. a - 1 \in Int /\ 0 \in Int
      OBVIOUS
    <2>. QED  BY <2>1, FS_Interval
  <1>. QED  BY <1>1

(* An inode whose pointers are set for the first m chunks and for no others. *)
LEMMA ReadPrefix ==
  ASSUME TypeOK, NEW j \in Inodes, NEW m \in 0 .. NDirect + NIndirect, m <= inode_table[j].size,
         \A k \in 0 .. NDirect + NIndirect - 1 : PtrAt(j, DataAt(k)) # 0 <=> k < m
  PROVE  read(j) = [i \in 1 .. m |-> blk[PtrAt(j, DataAt(i - 1))].chunk]
  <1>0. /\ m \in Nat /\ NDirect \in Nat /\ NDirect > 0 /\ NIndirect \in Nat
        /\ inode_table[j].size \in Nat /\ m <= NDirect + NIndirect
    BY LayoutFacts, ReadNumbers
  <1>. DEFINE a == IF m < NDirect THEN m ELSE NDirect
              c == IF m < NDirect THEN 0 ELSE m - NDirect
  <1>1. /\ a \in Nat /\ c \in Nat /\ a + c = m /\ a <= NDirect /\ c <= NIndirect
        /\ (a < NDirect => a = m /\ c = 0)
    BY <1>0
  <1>2. NumDirect(j) = a
    <2>1. ASSUME NEW k \in 0 .. NDirect - 1
          PROVE  inode_table[j].block[k] # 0 <=> k < m
      <3>1. DataAt(k) = k /\ k \in 0 .. NDirect + NIndirect - 1 /\ k <= NDirect
        BY <1>0 DEF DataAt
      <3>2. PtrAt(j, k) = inode_table[j].block[k]
        BY <3>1 DEF PtrAt
      <3>3. PtrAt(j, DataAt(k)) # 0 <=> k < m
        BY <3>1
      <3>4. PtrAt(j, k) # 0 <=> k < m
        BY <3>1, <3>3
      <3>. QED  BY <3>2, <3>4
    <2>2. ASSUME NEW i PROVE i \in DirBlocks(j) <=> i \in 0 .. a - 1
      <3>1. ASSUME i \in DirBlocks(j) PROVE i \in 0 .. a - 1
        <4>1. i \in 0 .. NDirect - 1 /\ inode_table[j].block[i] # 0
          BY <1>0, <3>1 DEF DirBlocks
        <4>2. i < m
          BY <2>1, <4>1
        <4>. QED  BY <1>0, <4>1, <4>2
      <3>2. ASSUME i \in 0 .. a - 1 PROVE i \in DirBlocks(j)
        <4>1. i \in 0 .. NDirect - 1 /\ i < m
          BY <1>0, <3>2
        <4>2. ASSUME NEW k \in 0 .. i PROVE inode_table[j].block[k] # 0
          <5>1. k \in 0 .. NDirect - 1 /\ k < m
            BY <1>0, <4>1
          <5>. QED  BY <2>1, <5>1
        <4>. QED  BY <4>1, <4>2 DEF DirBlocks
      <3>. QED  BY <3>1, <3>2
    <2>3. DirBlocks(j) = 0 .. a - 1
      BY <2>2
    <2>. QED  BY <1>1, <2>3, CountBelow DEF NumDirect
  <1>3. NumIndirect(j) = c
    <2>. DEFINE S == {l \in 0 .. NIndirect - 1 : \A k \in 0 .. l : PtrAt(j, NDirect + 1 + k) # 0}
    <2>0. NumIndirect(j) = Cardinality(S)
      BY DEF NumIndirect
    <2>1. ASSUME NEW k \in 0 .. NIndirect - 1
          PROVE  PtrAt(j, NDirect + 1 + k) # 0 <=> NDirect + k < m
      <3>1. PICK l : l = NDirect + k
        OBVIOUS
      <3>2. l \in 0 .. NDirect + NIndirect - 1 /\ DataAt(l) = NDirect + 1 + k
        BY <1>0, <3>1 DEF DataAt
      <3>3. PtrAt(j, DataAt(l)) # 0 <=> l < m
        BY <3>2
      <3>. QED  BY <3>1, <3>2, <3>3
    <2>2. ASSUME NEW i PROVE i \in S <=> i \in 0 .. c - 1
      <3>1. ASSUME i \in S PROVE i \in 0 .. c - 1
        <4>1. i \in 0 .. NIndirect - 1 /\ PtrAt(j, NDirect + 1 + i) # 0
          BY <1>0, <3>1
        <4>2. NDirect + i < m
          BY <2>1, <4>1
        <4>. QED  BY <1>0, <4>1, <4>2
      <3>2. ASSUME i \in 0 .. c - 1 PROVE i \in S
        <4>1. i \in 0 .. NIndirect - 1 /\ NDirect + i < m
          BY <1>0, <3>2
        <4>2. ASSUME NEW k \in 0 .. i PROVE PtrAt(j, NDirect + 1 + k) # 0
          <5>1. k \in 0 .. NIndirect - 1 /\ NDirect + k < m
            BY <1>0, <4>1
          <5>. QED  BY <2>1, <5>1
        <4>. QED  BY <4>1, <4>2
      <3>. QED  BY <3>1, <3>2
    <2>3. S = 0 .. c - 1
      BY <2>2
    <2>. QED  BY <1>1, <2>0, <2>3, CountBelow
  <1>. HIDE DEF a, c
  <1>4. ReadLen(j) = m
    BY <1>0, <1>1, <1>2, <1>3 DEF ReadLen
  <1>5. ASSUME NEW i \in 1 .. m PROVE ReadAt(j, i) = DataAt(i - 1)
    BY <1>0, <1>1, <1>2, <1>5 DEF ReadAt, DataAt
  <1>6. read(j) = [i \in 1 .. ReadLen(j) |-> blk[PtrAt(j, ReadAt(j, i))].chunk]
    BY ReadIs
  <1>. QED  BY <1>4, <1>5, <1>6

(* The new file reads as a prefix of what was to be written, as much as found
   room: as many chunks as its blocks hold.                                 *)
LEMMA NewData ==
  ASSUME TypeOK, NEW j \in Inodes, j = fr.inum, inode_table[j] = fr.node, Built, PrefixStored
  PROVE  \E m \in 0 .. Len(fr.content) :
           read(j) = SubSeq(fr.content, 1, m) /\ Filled(m) /\ m <= NDirect + NIndirect
  <1>0. /\ NDirect \in Nat /\ NIndirect \in Nat /\ Len(fr.content) \in Nat
        /\ fr.content \in Seq(Chunks) /\ inode_table[j].size = Len(fr.content)
    BY LayoutFacts, FrameParts DEF PrefixStored
  <1>1. PICK m \in 0 .. NDirect + NIndirect :
          Filled(m) /\ (m > NDirect => fr.node.block[NDirect] # 0)
    BY DEF PrefixStored
  <1>2. m \in 0 .. Len(fr.content) /\ m \in Nat /\ m <= NDirect + NIndirect
    BY <1>0, <1>1 DEF Filled
  <1>3. ASSUME NEW k \in 0 .. NDirect + NIndirect - 1
        PROVE  /\ PtrAt(j, DataAt(k)) # 0 <=> k < m
               /\ k < m => blk[PtrAt(j, DataAt(k))] = DataBlock(fr.content[k + 1])
    <2>1. PICK l \in Positions : l = DataAt(k)
      BY DataPositions
    <2>2. PtrAt(j, l) = IF l <= NDirect \/ fr.node.block[NDirect] # 0 THEN Held(l) ELSE 0
      BY NewPtr
    <2>3. IF k < m THEN Held(l) # 0 /\ blk[Held(l)] = DataBlock(fr.content[k + 1])
          ELSE Held(l) = 0
      BY <1>1, <2>1 DEF Filled
    <2>4. k < m => l <= NDirect \/ fr.node.block[NDirect] # 0
      BY <1>0, <1>1, <2>1 DEF DataAt
    <2>. QED  BY <2>1, <2>2, <2>3, <2>4
  <1>4. read(j) = [i \in 1 .. m |-> blk[PtrAt(j, DataAt(i - 1))].chunk]
    <2>1. m <= inode_table[j].size
      BY <1>0, <1>2
    <2>2. \A k \in 0 .. NDirect + NIndirect - 1 : PtrAt(j, DataAt(k)) # 0 <=> k < m
      BY <1>3
    <2>. QED  BY <1>1, <2>1, <2>2, ReadPrefix
  <1>5. ASSUME NEW i \in 1 .. m
        PROVE  blk[PtrAt(j, DataAt(i - 1))].chunk = fr.content[i]
    <2>1. PICK k : k = i - 1
      OBVIOUS
    <2>2. k \in 0 .. NDirect + NIndirect - 1 /\ k < m /\ k + 1 = i
      BY <1>0, <1>2, <2>1
    <2>3. blk[PtrAt(j, DataAt(k))] = DataBlock(fr.content[k + 1])
      BY <1>3, <2>2
    <2>. QED  BY <2>1, <2>2, <2>3 DEF DataBlock
  <1>6. read(j) = [i \in 1 .. m |-> fr.content[i]]
    BY <1>4, <1>5
  <1>7. SubSeq(fr.content, 1, m) = [i \in 1 .. m |-> fr.content[i]]
    BY <1>0, <1>2
  <1>. QED  BY <1>1, <1>2, <1>6, <1>7

-----------------------------------------------------------------------------
(* The steps of FileSystem.                                                 *)

(* The directories that can be reached are those of the tree.               *)
LEMMA LinkedInDirs ==
  ASSUME TypeOK, WellFormed
  PROVE  LinkedDirs \subseteq Truncating!Dirs
  <1>0. Linked /\ TreeIs
    BY LinkedFacts, TreeLists
  <1>. DEFINE D == LinkedDirs \cap Truncating!Dirs
  <1>1. ROOT_INODE_NO \in D
    BY <1>0 DEF Linked, Truncating!Dirs
  <1>2. ASSUME NEW d \in D, NEW n, NEW i, Lists(d, n, i, "dir")
        PROVE  i \in D
    <2>1. i \in LinkedDirs
      BY <1>0, <1>2 DEF Linked
    <2>2. TreeEntry(d, n, i, "dir") \in Tree
      BY <1>0, <1>2 DEF TreeIs
    <2>3. TreeEntry(d, n, i, "dir").node = i /\ TreeEntry(d, n, i, "dir").kind = "dir"
      BY DEF TreeEntry
    <2>4. PICK e : e = TreeEntry(d, n, i, "dir")
      OBVIOUS
    <2>5. e \in Tree /\ e.node = i /\ e.kind = "dir"
      BY <2>2, <2>3, <2>4
    <2>. QED  BY <2>1, <2>5 DEF Truncating!Dirs
  <1>. HIDE DEF D
  <1>3. D \in SUBSET LinkedDirs
    BY DEF D
  <1>4. LinkedDirs \subseteq D
    BY <1>0, <1>1, <1>2, <1>3 DEF Linked
  <1>. QED  BY <1>4 DEF D

(* An entry of the tree, and the record it is.                              *)
LEMMA TreeRecord ==
  ASSUME TypeOK, WellFormed, NEW e \in Tree
  PROVE  \E d \in LinkedDirs : \E n, i, t :
           /\ Lists(d, n, i, t) /\ d \in Inodes /\ IsNamed(i) /\ DirOf(d)
           /\ e = TreeEntry(d, n, i, t) /\ e.dir = d /\ e.name = n /\ e.node = i /\ e.kind = t
  <1>0. Linked /\ TreeIs
    BY LinkedFacts, TreeLists
  <1>1. PICK d \in LinkedDirs : \E n, i, t : Lists(d, n, i, t) /\ e = TreeEntry(d, n, i, t)
    BY <1>0 DEF TreeIs
  <1>2. PICK n, i, t : Lists(d, n, i, t) /\ e = TreeEntry(d, n, i, t)
    BY <1>1
  <1>3. e.dir = d /\ e.name = n /\ e.node = i /\ e.kind = t
    BY <1>2 DEF TreeEntry
  <1>4. d \in Inodes /\ DirOf(d)
    BY <1>0 DEF Linked
  <1>5. IsNamed(i)
    BY <1>2, ListedType
  <1>. QED  BY <1>2, <1>3, <1>4, <1>5

(* The call in progress as FileSystem sees it.                              *)
LEMMA CallFields ==
  ASSUME fr.op # "none"
  PROVE  /\ CallInProgress # Truncating!NoCall
         /\ CallInProgress.op = fr.op /\ CallInProgress.parent = fr.parent
         /\ CallInProgress.name = fr.name /\ CallInProgress.kind = FrType
         /\ CallInProgress.data = fr.content
  BY DEF CallInProgress, Truncating!NoCall

(* The tree of a step that gives the new inode its name.                    *)
LEMMA NewTree ==
  ASSUME TypeOK, TypeOK', WellFormed, WellFormed', NEW q, NEW m, NEW j, NEW u, NEW p0, NEW x,
         NewName(q, m, j, u, p0, x), q \in LinkedDirs
  PROVE  /\ Tree' = Tree \cup {[dir |-> q, name |-> m, node |-> j, kind |-> u,
                                data |-> IF u = "dir" THEN <<>> ELSE read(j)]}
         /\ \A e \in Tree : e.node # j /\ ~(e.dir = q /\ e.name = m)
         /\ LinkedDirs \subseteq LinkedDirs'
  <1>0. Linked /\ Linked' /\ TreeIs /\ TreeIs'
    BY BothTrees
  <1>1. \A d \in LinkedDirs : d \in Inodes /\ IsNamed(d)
    BY <1>0 DEF Linked, DirOf
  <1>2. \A d \in LinkedDirs : \A n, i, t :
          Lists(d, n, i, t)' <=> Lists(d, n, i, t) \/ (d = q /\ n = m /\ i = j /\ t = u)
    BY <1>1, NewLists
  <1>3. u = "dir" => \A n, i, t : ~Lists(j, n, i, t)'
    BY NewKept
  <1>4. ASSUME NEW d \in LinkedDirs, NEW n, NEW i, NEW t, Lists(d, n, i, t), t # "dir"
        PROVE  read(i)' = read(i)
    <2>1. i \in Inodes /\ IsNamed(i) /\ inode_table[i].mode = t
      BY <1>4, ListedType
    <2>2. i # q /\ DirWrite(q, p0, x)
      BY <1>4, <2>1, NewKept DEF DirOf, NewName
    <2>. QED  BY <2>1, <2>2, OthersKept
  <1>5. Tree' = Tree \cup {TreeEntry(q, m, j, u)'} /\ LinkedDirs \subseteq LinkedDirs'
    BY <1>0, <1>2, <1>3, <1>4, GainedEntry
  <1>6. TreeEntry(q, m, j, u)' = [dir |-> q, name |-> m, node |-> j, kind |-> u,
                                  data |-> IF u = "dir" THEN <<>> ELSE read(j)]
    BY NewKept DEF TreeEntry
  <1>7. ASSUME NEW e \in Tree PROVE e.node # j /\ ~(e.dir = q /\ e.name = m)
    <2>1. PICK d, n, i, t :
            /\ d \in LinkedDirs /\ Lists(d, n, i, t) /\ IsNamed(i) /\ e.dir = d /\ e.name = n /\ e.node = i
      BY TreeRecord
    <2>2. i # j
      BY <2>1, NewKept
    <2>3. ~(d = q /\ n = m)
      <3>1. NameFree /\ q = fr.parent /\ m = fr.name
        BY DEF NewName, MakingNode
      <3>. QED  BY <2>1, <3>1 DEF NameFree, Lists
    <2>. QED  BY <2>1, <2>2, <2>3
  <1>. QED  BY <1>5, <1>6, <1>7

(* The new name appears in the tree, with content s, and the call returns 0. *)
Creates(s) ==
  /\ CallInProgress # Truncating!NoCall /\ CallInProgress.op = "write"
  /\ CallInProgress.parent \in Truncating!Dirs
  /\ Truncating!Named(CallInProgress.parent, CallInProgress.name) = {}
  /\ \E n \in Inodes \ ({ROOT_INODE_NO} \cup {e.node : e \in Tree}) :
       Tree' = Tree \cup {[dir |-> CallInProgress.parent, name |-> CallInProgress.name,
                           node |-> n, kind |-> CallInProgress.kind, data |-> s]}
  /\ Truncating!End(0)

(* That content is as much of the caller's as the new inode's blocks hold.  *)
Holding(s) ==
  \E m \in 0 .. Len(fr.content) :
    /\ s = SubSeq(fr.content, 1, m)
    /\ ~fr.dir => Filled(m) /\ m <= NDirect + NIndirect

(* write takes effect with the record of the new name.                      *)
LEMMA EntryStep ==
  ASSUME Orderly, TypeOK, TypeOK', WellFormed, WellFormed', CallGood, OpAt(Ahead), DotsHome,
         DoneAt(Ahead), AddEntry \/ GrowBlock
  PROVE  /\ DotsHome' /\ OpAt(Ahead)' /\ DoneAt(Ahead)'
         /\ \E s : Creates(s) /\ Holding(s)
  <1>. USE DEF MakingLabels, FileLabels, MappedLabels, EarlyLabels, DirLabels,
               BuiltLabels, NamingLabels, PendingLabels
  <1>0. PICK q, m, j, u, c : q = fr.parent /\ m = fr.name /\ j = fr.inum /\ u = FrType
                             /\ c = fr.content
    OBVIOUS
  <1>1. PICK p0, x : NewName(q, m, j, u, p0, x)
    BY <1>0, EntryNamed
  <1>2. pc \in {"add_entry", "grow_block"} /\ Ahead = pc /\ Return(0)
    BY AheadNext DEF AddEntry, GrowBlock, Meta
  <1>3. fr.op = "write" /\ (fr.dir => c = <<>>)
    BY <1>0, <1>2 DEF OpAt
  <1>4. q \in LinkedDirs /\ j \in Inodes /\ ~IsNamed(j) /\ j # ROOT_INODE_NO
    <2>1. q \in Inodes /\ j \in Inodes /\ ~IsNamed(j)
      BY <1>1, NewKept
    <2>2. q # 0
      BY <2>1 DEF Inodes
    <2>. QED  BY <1>0, <1>2, <2>1, <2>2 DEF DoneAt, IsNamed
  <1>5. DotsHome'
    BY <1>1, NewDots
  <1>6. OpAt(Ahead)' /\ DoneAt(Ahead)' /\ CallInProgress' = [op |-> "none"] /\ ~Effective'
    BY <1>2, ReturnDone DEF Return
  <1>7. PICK s : s = IF u = "dir" THEN <<>> ELSE read(j)
    OBVIOUS
  <1>8. /\ Tree' = Tree \cup {[dir |-> q, name |-> m, node |-> j, kind |-> u, data |-> s]}
        /\ \A e \in Tree : e.node # j /\ ~(e.dir = q /\ e.name = m)
    BY <1>1, <1>4, <1>7, NewTree
  <1>9. Holding(s)
    <2>1. CASE u = "dir"
      <3>1. fr.dir
        BY <1>0, <2>1 DEF FrType
      <3>2. fr.content = <<>> /\ s = <<>>
        BY <1>0, <1>3, <1>7, <2>1, <3>1
      <3>3. 0 \in 0 .. Len(fr.content) /\ s = SubSeq(fr.content, 1, 0)
        BY <3>2
      <3>. QED  BY <3>1, <3>3 DEF Holding
    <2>2. CASE u # "dir"
      <3>1. ~fr.dir
        BY <1>0, <2>2 DEF FrType
      <3>2. PrefixStored
        BY <1>2, <3>1 DEF DoneAt
      <3>3. Built /\ inode_table[j] = fr.node
        BY <1>1 DEF NewName
      <3>. QED  BY <1>0, <1>4, <1>7, <2>2, <3>2, <3>3, NewData DEF Holding
    <2>. QED  BY <2>1, <2>2
  <1>10. /\ CallInProgress # Truncating!NoCall /\ CallInProgress.op = "write"
         /\ CallInProgress.parent = q /\ CallInProgress.name = m /\ CallInProgress.kind = u
         /\ CallInProgress.data = c
    BY <1>0, <1>3, CallFields
  <1>11. q \in Truncating!Dirs
    BY <1>4, LinkedInDirs
  <1>12. Truncating!Named(q, m) = {}
    BY <1>8 DEF Truncating!Named
  <1>13. j \in Inodes \ ({ROOT_INODE_NO} \cup {e.node : e \in Tree})
    BY <1>4, <1>8
  <1>14. Truncating!End(0)
    BY <1>2, <1>6 DEF Truncating!End, Truncating!NoCall, Return, Effective
  <1>15. Creates(s)
    BY <1>8, <1>10, <1>11, <1>12, <1>13, <1>14 DEF Creates
  <1>. QED  BY <1>5, <1>6, <1>9, <1>15

(* So write creates a file with a prefix of its content.                    *)
LEMMA PrefixCreated ==
  ASSUME fr.op = "write", NEW s, Creates(s), Holding(s)
  PROVE  Truncating!Create
  <1>1. CallInProgress.data = fr.content
    BY CallFields
  <1>2. s \in Truncating!Stored(CallInProgress.data)
    BY <1>1 DEF Holding, Truncating!Stored, Truncating!Prefixes
  <1>. QED  BY <1>2 DEF Creates, Truncating!Create

-----------------------------------------------------------------------------
(* A name goes.                                                             *)

(* A directory is empty for delete exactly when it lists nothing: its first two
   records are the dots, and nothing else is one.                           *)
LEMMA EmptyDir ==
  ASSUME TypeOK, WellFormed, DotsHome, NEW t \in Inodes, DirOf(t)
  PROVE  /\ FirstChild(t) = {3}
         /\ is_directory_empty(t, 3) <=> \A n, i, u : ~Lists(t, n, i, u)
  <1>1. /\ inode_table[t].block[0] # 0
        /\ \E e \in Inodes \cup {0} : Dotted(t, e, DirEnts(t, 0))
        /\ \A p \in 1 .. NDirect - 1 : inode_table[t].block[p] # 0 => Dotless(DirEnts(t, p))
    BY DEF DotsHome
  <1>2. PICK e : Dotted(t, e, DirEnts(t, 0))
    BY <1>1
  <1>3. PICK b0 : b0 = inode_table[t].block[0]
    OBVIOUS
  <1>4. b0 \in Blocks /\ DirEnts(t, 0) = Ents(b0) /\ Ents(b0) \in Seq(Entry) /\ 0 \in Direct
    <2>1. inode_table[t].block \in [0 .. NDirect -> Blocks]
      BY DiskParts
    <2>2. 0 \in 0 .. NDirect /\ 0 \in Direct
      BY LayoutFacts DEF Direct
    <2>3. b0 \in Blocks
      BY <1>3, <2>1, <2>2
    <2>. QED  BY <1>3, <2>2, <2>3, DiskParts DEF DirEnts
  <1>5. FirstChild(t) = {3}
    <2>1. Len(DirEnts(t, 0)) >= 2 /\ Len(DirEnts(t, 0)) \in Nat
      BY <1>2, <1>4 DEF Dotted
    <2>2. Len(DirEnts(t, 0)) # 1 /\ DirEnts(t, 0) # <<>>
      BY <2>1
    <2>. QED  BY <2>2 DEF FirstChild
  <1>6. ASSUME is_directory_empty(t, 3), NEW n, NEW i, NEW u, Lists(t, n, i, u)
        PROVE  FALSE
    <2>1. PICK p \in Direct, b \in Blocks :
            /\ b = inode_table[t].block[p] /\ b # 0
            /\ \E k \in DOMAIN Ents(b) : Naming(Ents(b)[k])
      BY <1>6 DEF Lists
    <2>2. PICK k \in DOMAIN Ents(b) : Naming(Ents(b)[k])
      BY <2>1
    <2>3. <<p, k>> \in Slots(t) /\ At(t, <<p, k>>) = Ents(b)[k]
      BY <2>1, <2>2, RecordSlot
    <2>4. p = 0 /\ k < 3
      <3>1. PICK s : s = <<p, k>>
        OBVIOUS
      <3>2. s \in Slots(t) /\ At(t, s).inode # 0 /\ s[1] = p /\ s[2] = k
        BY <2>2, <2>3, <3>1 DEF Naming
      <3>. QED  BY <1>6, <3>2 DEF is_directory_empty
    <2>5. b = b0 /\ k \in Nat /\ k >= 1
      BY <1>3, <1>4, <2>1, <2>2, <2>4
    <2>6. k = 1 \/ k = 2
      BY <2>4, <2>5
    <2>7. Ents(b)[k].name \in Dots
      BY <1>2, <1>4, <2>5, <2>6 DEF Dotted, Dots
    <2>. QED  BY <2>2, <2>7 DEF Naming
  <1>7. ASSUME \A n, i, u : ~Lists(t, n, i, u), NEW s \in Slots(t)
        PROVE  (s[1] = 0 /\ s[2] < 3) \/ At(t, s).inode = 0
    <2>1. PICK p \in Direct, b \in Blocks : \E k \in DOMAIN Ents(b) :
            /\ b = inode_table[t].block[p] /\ b # 0
            /\ s = <<p, k>> /\ At(t, s) = Ents(b)[k]
      BY SlotRecord
    <2>2. PICK k \in DOMAIN Ents(b) : s = <<p, k>> /\ At(t, s) = Ents(b)[k]
      BY <2>1
    <2>3. ~Naming(Ents(b)[k])
      BY <1>7, <2>1, <2>2 DEF Lists
    <2>4. CASE p = 0
      <3>1. b = b0 /\ k \in 1 .. Len(Ents(b0)) /\ Len(Ents(b0)) \in Nat
        BY <1>3, <1>4, <2>1, <2>2, <2>4
      <3>2. CASE k < 3
        BY <2>2, <2>4, <3>2
      <3>3. CASE ~(k < 3)
        <4>1. k \in 3 .. Len(Ents(b0))
          BY <3>1, <3>3
        <4>2. Ents(b)[k].name \notin Dots
          BY <1>2, <1>4, <3>1, <4>1 DEF Dotted
        <4>. QED  BY <2>2, <2>3, <4>2 DEF Naming
      <3>. QED  BY <3>2, <3>3
    <2>5. CASE p # 0
      <3>1. p \in 1 .. NDirect - 1
        BY <2>5, LayoutFacts DEF Direct
      <3>2. Dotless(DirEnts(t, p)) /\ DirEnts(t, p) = Ents(b)
        BY <1>1, <2>1, <3>1 DEF DirEnts
      <3>. QED  BY <2>2, <2>3, <3>2 DEF Naming, Dotless
    <2>. QED  BY <2>4, <2>5
  <1>8. is_directory_empty(t, 3) <=> \A n, i, u : ~Lists(t, n, i, u)
    BY <1>6, <1>7 DEF is_directory_empty
  <1>. QED  BY <1>5, <1>8

(* The block x of directory q has lost the record of j, of type u, that was
   called m.                                                                *)
NameOut(x, m) ==
  /\ \A n, i, t : Holds(Ents(x)', n, i, t) <=> Holds(Ents(x), n, i, t) /\ n # m
  /\ \A d, e : Dotted(d, e, Ents(x)) => Dotted(d, e, Ents(x)')
  /\ Dotless(Ents(x)) => Dotless(Ents(x)')

(* A step that takes the name m of the inode j out of the block x of the
   directory q; a directory that loses its name lists nothing.              *)
LostName(q, m, j, u, p0, x) ==
  /\ q = fr.parent /\ m = fr.name /\ u = FrType
  /\ DirWrite(q, p0, x) /\ NameOut(x, m) /\ Holds(Ents(x), m, j, u)
  /\ u = "dir" => \A n, i, t : ~Lists(j, n, i, t)
  /\ \A i : IsNamed(i)' => IsNamed(i)

(* What the directories list then.                                          *)
LEMMA LostLists ==
  ASSUME TypeOK, TypeOK', WellFormed, NEW q, NEW m, NEW j, NEW u, NEW p0, NEW x,
         LostName(q, m, j, u, p0, x), NEW d \in Inodes, IsNamed(d), NEW n, NEW i, NEW t
  PROVE  /\ Lists(d, n, i, t)' <=> Lists(d, n, i, t) /\ ~(d = q /\ n = m)
         /\ d = q /\ n = m /\ Lists(d, n, i, t) => i = j /\ t = u
  <1>0. DirWrite(q, p0, x) /\ NameOut(x, m) /\ Holds(Ents(x), m, j, u)
    BY DEF LostName
  <1>1. CASE d # q
    BY <1>0, <1>1, OthersKept
  <1>2. CASE d = q
    <2>1. Holds(Ents(x)', n, i, t) <=> Holds(Ents(x), n, i, t) /\ n # m
      BY <1>0 DEF NameOut
    <2>2. PICK k \in DOMAIN Ents(x) : /\ Naming(Ents(x)[k]) /\ Ents(x)[k].name = m
                                      /\ Ents(x)[k].inode = j /\ Ents(x)[k].type = u
      BY <1>0 DEF Holds
    <2>3. OneEntry /\ q \in Inodes /\ DirOf(q) /\ p0 \in Direct /\ x \in Blocks
          /\ x = inode_table[q].block[p0] /\ x # 0
      BY <1>0 DEF WellFormed, DirWrite
    <2>4. ASSUME n = m, NEW p \in Direct, NEW b \in Blocks, b = inode_table[q].block[p], b # 0,
                 Holds(Ents(b), n, i, t)
          PROVE  p = p0 /\ i = j /\ t = u
      <3>1. PICK l \in DOMAIN Ents(b) : /\ Naming(Ents(b)[l]) /\ Ents(b)[l].name = n
                                        /\ Ents(b)[l].inode = i /\ Ents(b)[l].type = t
        BY <2>4 DEF Holds
      <3>2. p = p0 /\ l = k
        BY <2>2, <2>3, <2>4, <3>1 DEF OneEntry
      <3>. QED  BY <2>2, <2>3, <2>4, <3>1, <3>2
    <2>5. n = m /\ Lists(q, n, i, t) => i = j /\ t = u
      BY <2>4, ListsHolds
    <2>6. n = m => ~Lists(q, n, i, t)'
      <3>. SUFFICES ASSUME n = m, Lists(q, n, i, t)' PROVE FALSE
        OBVIOUS
      <3>1. PICK p \in Direct, b \in Blocks :
              b = inode_table'[q].block[p] /\ b # 0 /\ Holds(Ents(b)', n, i, t)
        BY ListsHolds
      <3>2. b # x
        BY <2>1, <3>1
      <3>3. Ents(b)' = Ents(b) /\ b = inode_table[q].block[p]
        BY <1>0, <3>1, <3>2 DEF DirWrite, Ents
      <3>4. p = p0
        BY <2>4, <3>1, <3>3
      <3>. QED  BY <2>3, <3>2, <3>3, <3>4
    <2>. QED  BY <1>0, <1>2, <2>1, <2>5, <2>6, WrittenLists
  <1>. QED  BY <1>1, <1>2

(* The dots of the directories that stay.                                   *)
LEMMA LostDots ==
  ASSUME TypeOK, TypeOK', WellFormed, DotsHome, NEW q, NEW m, NEW j, NEW u, NEW p0, NEW x,
         LostName(q, m, j, u, p0, x)
  PROVE  DotsHome'
  <1>0. /\ DirWrite(q, p0, x) /\ NameOut(x, m) /\ inode_table' = inode_table
        /\ x = inode_table[q].block[p0] /\ p0 \in Direct
        /\ \A i : IsNamed(i)' => IsNamed(i)
        /\ 0 \in Direct /\ \A p \in 1 .. NDirect - 1 : p \in Direct
    BY LayoutFacts DEF LostName, DirWrite, Direct
  <1>1. DirEnts(q, p0) = Ents(x) /\ DirEnts(q, p0)' = Ents(x)'
    BY <1>0 DEF DirEnts
  <1>2. ASSUME NEW d \in Inodes, IsNamed(d), NEW e, Dotted(d, e, DirEnts(d, 0))
        PROVE  Dotted(d, e, DirEnts(d, 0)')
    <2>1. CASE d = q /\ p0 = 0
      BY <1>0, <1>1, <1>2, <2>1 DEF NameOut
    <2>2. CASE ~(d = q /\ p0 = 0)
      BY <1>0, <1>2, <2>2, OthersKept
    <2>. QED  BY <2>1, <2>2
  <1>3. ASSUME NEW d \in Inodes, IsNamed(d), NEW p \in Direct, Dotless(DirEnts(d, p))
        PROVE  Dotless(DirEnts(d, p)')
    <2>1. CASE d = q /\ p0 = p
      BY <1>0, <1>1, <1>3, <2>1 DEF NameOut
    <2>2. CASE ~(d = q /\ p0 = p)
      BY <1>0, <1>3, <2>2, OthersKept
    <2>. QED  BY <2>1, <2>2
  <1>. SUFFICES ASSUME NEW d \in Inodes, DirOf(d)'
                PROVE  /\ inode_table[d].block[0] # 0
                       /\ \E e \in Inodes \cup {0} : Dotted(d, e, DirEnts(d, 0)')
                       /\ \A p \in 1 .. NDirect - 1 :
                            inode_table[d].block[p] # 0 => Dotless(DirEnts(d, p)')
                       /\ \A n \in Names, i \in Inodes :
                            Lists(d, n, i, "dir")' => Dotted(i, d, DirEnts(i, 0)')
    BY <1>0 DEF DotsHome, Dotted, Dotless
  <1>4. IsNamed(d) /\ DirOf(d)
    BY <1>0 DEF DirOf
  <1>5. /\ inode_table[d].block[0] # 0
        /\ \E e \in Inodes \cup {0} : Dotted(d, e, DirEnts(d, 0))
        /\ \A p \in 1 .. NDirect - 1 : inode_table[d].block[p] # 0 => Dotless(DirEnts(d, p))
    BY <1>4 DEF DotsHome
  <1>6. ASSUME NEW n \in Names, NEW i \in Inodes, Lists(d, n, i, "dir")'
        PROVE  Dotted(i, d, DirEnts(i, 0)')
    <2>1. Lists(d, n, i, "dir")
      BY <1>4, <1>6, LostLists
    <2>2. IsNamed(i) /\ Dotted(i, d, DirEnts(i, 0))
      BY <1>4, <2>1, ListedType DEF DotsHome
    <2>. QED  BY <1>2, <2>2
  <1>. QED  BY <1>0, <1>2, <1>3, <1>4, <1>5, <1>6

(* remove_entry_from_dir as delete calls it.                                *)
LEMMA UnlinkNamed ==
  ASSUME Orderly, TypeOK, TypeOK', WellFormed, CallGood, DotsHome, Unlink
  PROVE  \E j, p0, x : /\ LostName(fr.parent, fr.name, j, FrType, p0, x)
                       /\ fr'.inum = j /\ fr'.todo = BlocksOf(inode_table[j])
  <1>0. PICK q, m, u : q = fr.parent /\ m = fr.name /\ u = FrType
    OBVIOUS
  <1>1. pc = "delete" /\ fr.parent # 0 /\ UNCHANGED inode_table
    BY DEF Unlink
  <1>2. q \in Inodes /\ DirOf(q) /\ m \in Names /\ m \notin Dots
    <2>1. q \in Inodes /\ DirOf(q) /\ m \in Names
      BY <1>0, <1>1, GoodHere DEF GoodAt, Meta, ParentGood
    <2>. QED  BY <2>1 DEF Orderly
  <1>3. PICK s \in First(find_entry_in_dir(fr.parent, fr.name)) :
          /\ fr.dir = IsDir(Target(s))
          /\ fr.dir => \E from \in FirstChild(Target(s)) : is_directory_empty(Target(s), from)
          /\ LET b == inode_table[fr.parent].block[s[1]] IN
             blk' = [blk EXCEPT ![b] = DirBlock(RemoveEntry(Ents(b), s[2]))]
          /\ fr' = [fr EXCEPT !.inum = Target(s), !.todo = BlocksOf(inode_table[Target(s)])]
    BY Zenon DEF Unlink
  <1>4. s \in Slots(q) /\ At(q, s).inode # 0 /\ At(q, s).name = m
    BY <1>0 DEF First, find_entry_in_dir
  <1>5. PICK p \in Direct, b \in Blocks : \E k \in DOMAIN Ents(b) :
          /\ b = inode_table[q].block[p] /\ b # 0
          /\ s = <<p, k>> /\ At(q, s) = Ents(b)[k]
    BY <1>2, <1>4, SlotRecord
  <1>6. PICK k \in DOMAIN Ents(b) : s = <<p, k>> /\ At(q, s) = Ents(b)[k]
    BY <1>5
  <1>7. PICK j, new, old : /\ j = Ents(b)[k].inode /\ new = RemoveEntry(Ents(b), k)
                           /\ old = Ents(b)
    OBVIOUS
  <1>8. /\ s[1] = p /\ s[2] = k /\ Target(s) = j /\ Naming(old[k]) /\ old[k].name = m
        /\ b = inode_table[q].block[p] /\ b # 0
    <2>1. s[1] = p /\ s[2] = k
      BY <1>6
    <2>2. Target(s) = j
      BY <1>0, <1>6, <1>7 DEF Target
    <2>. QED  BY <1>2, <1>4, <1>5, <1>6, <1>7, <2>1, <2>2 DEF Naming
  <1>9. blk' = [blk EXCEPT ![b] = DirBlock(new)]
    BY <1>0, <1>3, <1>7, <1>8
  <1>10. Ents(b)' = new /\ \A c \in Blocks : c # b => blk'[c] = blk[c]
    BY <1>9 DEF Ents, DirBlock, TypeOK
  <1>11. DirWrite(q, p, b)
    BY <1>1, <1>2, <1>8, <1>10 DEF DirWrite
  <1>12. old \in Seq(Entry) /\ k \in DOMAIN old
    BY <1>7, DiskParts
  <1>13. RecordGone(new, old, k)
    BY <1>7, <1>12, RemoveGone
  <1>14. \A l \in DOMAIN old : Naming(old[l]) /\ old[l].name = old[k].name => l = k
    <2>1. OneEntry
      BY DEF WellFormed
    <2>. QED  BY <1>2, <1>7, <1>8, <2>1 DEF OneEntry
  <1>15. \A n, i, t : Holds(new, n, i, t) <=> Holds(old, n, i, t) /\ n # m
    <2>1. \A n, i, t : Holds(new, n, i, t) <=> Holds(old, n, i, t) /\ n # old[k].name
      BY <1>8, <1>12, <1>13, <1>14, RemoveHolds
    <2>. QED  BY <1>8, <2>1
  <1>16. (\A d, e : Dotted(d, e, old) => Dotted(d, e, new)) /\ (Dotless(old) => Dotless(new))
    BY <1>2, <1>8, <1>12, <1>13, RemoveDotted
  <1>17. NameOut(b, m)
    BY <1>7, <1>10, <1>15, <1>16 DEF NameOut
  <1>18. /\ j \in Inodes /\ IsNamed(j) /\ inode_table[j].mode = old[k].type
         /\ old[k] \in Entry
    BY <1>7, <1>8, NamingType DEF WellFormed, NamesUsed
  <1>19. old[k].type = u
    <2>1. fr.dir <=> inode_table[j].mode = "dir"
      BY <1>3, <1>8 DEF IsDir
    <2>. QED  BY <1>0, <1>18, <2>1 DEF FrType, Entry
  <1>20. Holds(Ents(b), m, j, u)
    BY <1>7, <1>8, <1>12, <1>19 DEF Holds
  <1>21. u = "dir" => \A n, i, t : ~Lists(j, n, i, t)
    <2>. SUFFICES ASSUME u = "dir" PROVE \A n, i, t : ~Lists(j, n, i, t)
      OBVIOUS
    <2>1. fr.dir /\ DirOf(j)
      BY <1>0, <1>18, <1>19 DEF FrType, DirOf
    <2>2. FirstChild(j) = {3}
      BY <1>18, <2>1, EmptyDir
    <2>3. \E from \in FirstChild(j) : is_directory_empty(j, from)
      BY <1>3, <1>8, <2>1
    <2>4. is_directory_empty(j, 3)
      BY <2>2, <2>3
    <2>. QED  BY <1>18, <2>1, <2>4, EmptyDir
  <1>22. \A i : IsNamed(i)' => IsNamed(i)
    BY UnlinkTree, FewerNamed
  <1>23. LostName(q, m, j, u, p, b)
    BY <1>0, <1>11, <1>17, <1>20, <1>21, <1>22 DEF LostName
  <1>24. fr'.inum = j /\ fr'.todo = BlocksOf(inode_table[j])
    <2>1. fr \in Frame
      BY DEF TypeOK
    <2>. QED  BY <1>3, <1>8, <2>1 DEF Frame
  <1>. QED  BY <1>0, <1>23, <1>24

(* The tree of a step that takes a name away.                               *)
LEMMA LostTree ==
  ASSUME TypeOK, TypeOK', WellFormed, WellFormed', NEW q, NEW m, NEW j, NEW u, NEW p0, NEW x,
         LostName(q, m, j, u, p0, x), q \in LinkedDirs
  PROVE  /\ Tree' = Tree \ {TreeEntry(q, m, j, u)} /\ TreeEntry(q, m, j, u) \in Tree
         /\ \A e \in Tree : e.dir # j
  <1>0. Linked /\ Linked' /\ TreeIs /\ TreeIs'
    BY BothTrees
  <1>1. \A d \in LinkedDirs : d \in Inodes /\ IsNamed(d)
    BY <1>0 DEF Linked, DirOf
  <1>2. \A d \in LinkedDirs : \A n, i, t :
          Lists(d, n, i, t)' <=> Lists(d, n, i, t) /\ ~(d = q /\ n = m)
    BY <1>1, LostLists
  <1>3. \A i, t : Lists(q, m, i, t) => i = j /\ t = u
    BY <1>1, LostLists
  <1>4. Lists(q, m, j, u) /\ DirWrite(q, p0, x) /\ DirOf(q)
    <2>1. DirWrite(q, p0, x) /\ Holds(Ents(x), m, j, u)
      BY DEF LostName
    <2>. QED  BY <2>1, WrittenLists DEF DirWrite
  <1>5. u = "dir" => \A n, i, t : ~Lists(j, n, i, t)
    BY DEF LostName
  <1>6. ASSUME NEW d \in LinkedDirs, NEW n, NEW i, NEW t, Lists(d, n, i, t), t # "dir"
        PROVE  read(i)' = read(i)
    <2>1. i \in Inodes /\ IsNamed(i) /\ inode_table[i].mode = t
      BY <1>6, ListedType
    <2>2. i # q
      BY <1>4, <1>6, <2>1 DEF DirOf
    <2>. QED  BY <1>4, <2>1, <2>2, OthersKept
  <1>7. /\ Tree' = Tree \ {TreeEntry(q, m, j, u)} /\ TreeEntry(q, m, j, u) \in Tree
    BY <1>0, <1>2, <1>3, <1>4, <1>5, <1>6, LostEntry
  <1>8. ASSUME NEW e \in Tree PROVE e.dir # j
    <2>1. PICK d, n, i, t : d \in LinkedDirs /\ Lists(d, n, i, t) /\ DirOf(d) /\ e.dir = d
      BY TreeRecord
    <2>2. CASE u = "dir"
      BY <1>5, <2>1, <2>2
    <2>3. CASE u # "dir"
      <3>1. inode_table[j].mode = u
        BY <1>4, ListedType
      <3>. QED  BY <2>1, <2>3, <3>1 DEF DirOf
    <2>. QED  BY <2>2, <2>3
  <1>. QED  BY <1>7, <1>8

(* delete takes effect with the record that goes.                           *)
LEMMA UnlinkStep ==
  ASSUME Orderly, TypeOK, TypeOK', WellFormed, WellFormed', CallGood, OpAt(Ahead), DotsHome,
         DoneAt(Ahead), Unlink
  PROVE  DotsHome' /\ OpAt(Ahead)' /\ DoneAt(Ahead)' /\ Truncating!Remove
  <1>0. PICK q, m, u : q = fr.parent /\ m = fr.name /\ u = FrType
    OBVIOUS
  <1>1. PICK j, p0, x : LostName(q, m, j, u, p0, x)
    BY <1>0, UnlinkNamed
  <1>2. pc = "delete" /\ Ahead = "delete" /\ pc' = "free" /\ ret' = ret /\ q # 0
    BY <1>0, AheadNext DEF Unlink, Goto, Meta
  <1>3. KeepsCall
    BY InCallKeeps DEF InCall
  <1>4. fr.op = "delete"
    BY <1>2 DEF OpAt, DeletingLabels
  <1>5. q \in LinkedDirs
    BY <1>0, <1>2 DEF DoneAt
  <1>6. DotsHome'
    BY <1>1, LostDots
  <1>7. Deleting /\ DoneAt(Ahead)'
    BY DeleteStages
  <1>8. OpAt(Ahead)'
    BY <1>3, <1>7, StageOp
  <1>9. PICK e : e = TreeEntry(q, m, j, u)
    OBVIOUS
  <1>10. Tree' = Tree \ {e} /\ e \in Tree /\ (\A f \in Tree : f.dir # j)
    BY <1>1, <1>5, <1>9, LostTree
  <1>11. e.dir = q /\ e.name = m /\ e.node = j /\ e.kind = u
    BY <1>9 DEF TreeEntry
  <1>12. /\ CallInProgress # Truncating!NoCall /\ CallInProgress.op = "delete"
         /\ CallInProgress.parent = q /\ CallInProgress.name = m /\ CallInProgress.kind = u
    BY <1>0, <1>4, CallFields
  <1>13. ~Effective /\ Effective' = TRUE
    BY <1>2, <1>3, <1>4 DEF Effective, KeepsCall
  <1>14. CallInProgress' = CallInProgress
    BY <1>3 DEF KeepsCall, CallInProgress, FrType
  <1>15. e \in Truncating!Named(q, m) /\ Truncating!Children(e.node) = {}
    BY <1>10, <1>11 DEF Truncating!Named, Truncating!Children
  <1>16. Truncating!Remove
    BY <1>2, <1>10, <1>11, <1>12, <1>13, <1>14, <1>15 DEF Truncating!Remove
  <1>. QED  BY <1>6, <1>7, <1>8, <1>16

-----------------------------------------------------------------------------
(* The steps FileSystem does not see.                                       *)

(* The inode of the directory that grows has one pointer more.              *)
LEMMA GrowMap ==
  ASSUME TypeOK, CallGood, GrowInode
  PROVE  /\ pc = "grow" /\ UNCHANGED blk /\ PendingBlock
         /\ fr.parent \in Inodes /\ DirOf(fr.parent)
         /\ inode_table'[fr.parent].mode = inode_table[fr.parent].mode
         /\ \A i \in Inodes : i # fr.parent => inode_table'[i] = inode_table[i]
         /\ \E c \in Direct :
              /\ inode_table[fr.parent].block[c] = 0
              /\ \A d \in Inodes, p \in 0 .. NDirect :
                   inode_table'[d].block[p] =
                     IF d = fr.parent /\ p = c THEN fr.got ELSE inode_table[d].block[p]
  <1>. USE DEF MakingLabels, FileLabels, MappedLabels, EarlyLabels, DirLabels,
               BuiltLabels, NamingLabels, PendingLabels
  <1>0. pc = "grow" /\ UNCHANGED blk
    BY DEF GrowInode
  <1>1. ParentGood /\ PendingBlock /\ \E c \in Direct : inode_table[fr.parent].block[c] = 0
    BY <1>0, GoodHere DEF GoodAt, Meta, MakingNode
  <1>2. PICK q, g : q = fr.parent /\ g = fr.got
    OBVIOUS
  <1>3. q \in Inodes /\ DirOf(q) /\ g \in Blocks
    BY <1>1, <1>2, GotBlock DEF ParentGood
  <1>4. PICK c : c = Cardinality(DirBlocks(q))
    OBVIOUS
  <1>5. c \in Direct /\ inode_table[q].block[c] = 0
    BY <1>1, <1>2, <1>3, <1>4, FirstFreePointer
  <1>6. inode_table' = [inode_table EXCEPT ![q].block[c] = g, ![q].size = @ + 1]
    BY <1>2, <1>4 DEF GrowInode
  <1>7. inode_table \in [Inodes -> Inode] /\ inode_table[q] \in Inode
    BY <1>3 DEF TypeOK
  <1>8. /\ inode_table'[q].mode = inode_table[q].mode
        /\ inode_table'[q].block = [inode_table[q].block EXCEPT ![c] = g]
        /\ \A i \in Inodes : i # q => inode_table'[i] = inode_table[i]
    BY <1>3, <1>6, <1>7 DEF Inode
  <1>9. inode_table[q].block \in [0 .. NDirect -> Blocks]
    BY <1>3, DiskParts
  <1>10. \A p \in 0 .. NDirect :
           inode_table'[q].block[p] = IF p = c THEN g ELSE inode_table[q].block[p]
    BY <1>5, <1>8, <1>9, LayoutFacts DEF Direct
  <1>11. \A d \in Inodes, p \in 0 .. NDirect :
           inode_table'[d].block[p] = IF d = q /\ p = c THEN g ELSE inode_table[d].block[p]
    BY <1>8, <1>10
  <1>. QED  BY <1>0, <1>1, <1>2, <1>3, <1>5, <1>8, <1>11

(* The block it grows by holds no records yet, so it lists what it listed.  *)
LEMMA GrowLists ==
  ASSUME TypeOK, CallGood, GrowInode, NEW d \in Inodes, NEW n, NEW i, NEW t
  PROVE  Lists(d, n, i, t)' <=> Lists(d, n, i, t)
  <1>1. PICK q, g : q = fr.parent /\ g = fr.got
    OBVIOUS
  <1>2. PICK c \in Direct :
          /\ inode_table[q].block[c] = 0
          /\ \A e \in Inodes, p \in 0 .. NDirect :
               inode_table'[e].block[p] = IF e = q /\ p = c THEN g ELSE inode_table[e].block[p]
    BY <1>1, GrowMap
  <1>3. \A p \in Direct : p \in 0 .. NDirect
    BY LayoutFacts DEF Direct
  <1>4. \A b : Ents(b)' = Ents(b)
    BY GrowMap DEF Ents
  <1>5. ~Holds(Ents(g), n, i, t)
    BY <1>1, GrowMap, GotBlock DEF Ents, Holds
  <1>6. ASSUME Lists(d, n, i, t)' PROVE Lists(d, n, i, t)
    <2>1. PICK p \in Direct, b \in Blocks :
            b = inode_table'[d].block[p] /\ b # 0 /\ Holds(Ents(b)', n, i, t)
      BY <1>6, ListsHolds
    <2>2. Holds(Ents(b), n, i, t) /\ b = inode_table[d].block[p]
      BY <1>2, <1>3, <1>4, <1>5, <2>1
    <2>. QED  BY <2>1, <2>2, ListsHolds
  <1>7. ASSUME Lists(d, n, i, t) PROVE Lists(d, n, i, t)'
    <2>1. PICK p \in Direct, b \in Blocks :
            b = inode_table[d].block[p] /\ b # 0 /\ Holds(Ents(b), n, i, t)
      BY <1>7, ListsHolds
    <2>2. Holds(Ents(b)', n, i, t) /\ b = inode_table'[d].block[p]
      BY <1>2, <1>3, <1>4, <2>1
    <2>. QED  BY <2>1, <2>2, ListsHolds
  <1>. QED  BY <1>6, <1>7

(* And the tree is what it was.                                             *)
LEMMA GrowQuiet ==
  ASSUME TypeOK, TypeOK', WellFormed, WellFormed', CallGood, DotsHome, GrowInode
  PROVE  Tree' = Tree /\ LinkedDirs' = LinkedDirs /\ DotsHome'
  <1>0. UNCHANGED blk
    BY GrowMap
  <1>2. PICK q, g : q = fr.parent /\ g = fr.got
    OBVIOUS
  <1>3. q \in Inodes /\ DirOf(q) /\ Ents(g) = <<>>
    BY <1>2, GrowMap, GotBlock DEF Ents
  <1>5. PICK c \in Direct :
          /\ inode_table[q].block[c] = 0
          /\ \A d \in Inodes, p \in 0 .. NDirect :
               inode_table'[d].block[p] = IF d = q /\ p = c THEN g ELSE inode_table[d].block[p]
    BY <1>2, GrowMap
  <1>8. /\ inode_table'[q].mode = inode_table[q].mode
        /\ \A i \in Inodes : i # q => inode_table'[i] = inode_table[i]
    BY <1>2, GrowMap
  <1>10. \A d \in Inodes, p \in Direct :
           inode_table'[d].block[p] = IF d = q /\ p = c THEN g ELSE inode_table[d].block[p]
    BY <1>5, LayoutFacts DEF Direct
  <1>11. \A b : Ents(b)' = Ents(b)
    BY <1>0 DEF Ents
  <1>12. \A i : IsNamed(i)' <=> IsNamed(i)
    BY GrowInodeTree
  <1>13. \A d \in Inodes : \A n, i, t : Lists(d, n, i, t)' <=> Lists(d, n, i, t)
    BY GrowLists
  <1>14. Linked /\ Linked' /\ TreeIs /\ TreeIs'
    BY BothTrees
  <1>15. \A d \in LinkedDirs : d \in Inodes
    BY <1>14 DEF Linked
  <1>16. LinkedDirs' = LinkedDirs
    BY <1>13, <1>14, <1>15, SameLinks
  <1>17. ASSUME NEW d \in LinkedDirs, NEW n, NEW i, NEW t, Lists(d, n, i, t), t # "dir"
         PROVE  read(i)' = read(i)
    <2>1. i \in Inodes /\ inode_table[i].mode = t
      BY <1>17, ListedType
    <2>2. inode_table'[i] = inode_table[i]
      BY <1>3, <1>8, <1>17, <2>1 DEF DirOf
    <2>. QED  BY <1>0, <2>1, <2>2, ReadSame
  <1>18. Tree' = Tree
    BY <1>13, <1>14, <1>15, <1>16, <1>17, SameEntries
  <1>19. c # 0 /\ 0 \in Direct /\ \A p \in 1 .. NDirect - 1 : p \in Direct
    BY <1>3, <1>5, LayoutFacts DEF DotsHome, Direct
  <1>20. ASSUME NEW d \in Inodes, DirOf(d)'
         PROVE  /\ inode_table'[d].block[0] # 0
                /\ \E e \in Inodes \cup {0} : Dotted(d, e, DirEnts(d, 0)')
                /\ \A p \in 1 .. NDirect - 1 :
                     inode_table'[d].block[p] # 0 => Dotless(DirEnts(d, p)')
                /\ \A n \in Names, i \in Inodes :
                     Lists(d, n, i, "dir")' => Dotted(i, d, DirEnts(i, 0)')
    <2>1. DirOf(d)
      BY <1>8, <1>12, <1>20 DEF DirOf
    <2>2. /\ inode_table[d].block[0] # 0
          /\ \E e \in Inodes \cup {0} : Dotted(d, e, DirEnts(d, 0))
          /\ \A p \in 1 .. NDirect - 1 : inode_table[d].block[p] # 0 => Dotless(DirEnts(d, p))
          /\ \A n \in Names, i \in Inodes :
               Lists(d, n, i, "dir") => Dotted(i, d, DirEnts(i, 0))
      BY <2>1 DEF DotsHome
    <2>3. \A i \in Inodes : /\ inode_table'[i].block[0] = inode_table[i].block[0]
                            /\ DirEnts(i, 0)' = DirEnts(i, 0)
      <3>1. \A i \in Inodes : inode_table'[i].block[0] = inode_table[i].block[0]
        BY <1>10, <1>19
      <3>. QED  BY <1>11, <3>1 DEF DirEnts
    <2>4. ASSUME NEW p \in 1 .. NDirect - 1, inode_table'[d].block[p] # 0
          PROVE  Dotless(DirEnts(d, p)')
      <3>0. p \in Direct
        BY <1>19
      <3>1. CASE d = q /\ p = c
        <4>1. DirEnts(d, p)' = Ents(g)
          BY <1>10, <1>11, <3>0, <3>1 DEF DirEnts
        <4>. QED  BY <1>3, <4>1 DEF Dotless
      <3>2. CASE ~(d = q /\ p = c)
        <4>1. inode_table'[d].block[p] = inode_table[d].block[p]
          BY <1>10, <3>0, <3>2
        <4>2. DirEnts(d, p)' = DirEnts(d, p)
          BY <1>11, <4>1 DEF DirEnts
        <4>. QED  BY <2>2, <2>4, <4>1, <4>2
      <3>. QED  BY <3>1, <3>2
    <2>5. \A n \in Names, i \in Inodes :
            Lists(d, n, i, "dir")' => Dotted(i, d, DirEnts(i, 0)')
      BY <1>13, <2>2, <2>3
    <2>. QED  BY <2>2, <2>3, <2>4, <2>5
  <1>21. DotsHome'
    BY <1>20 DEF DotsHome, Dotted, Dotless
  <1>. QED  BY <1>16, <1>18, <1>21

(* The other steps change nothing that has a name.                          *)
LEMMA QuietCalls ==
  ASSUME Inv, TypeOK', WellFormed, CallGood, InCall, ~Unlink, ~GrowInode
  PROVE  Quiet /\ \A i : IsNamed(i)' => IsNamed(i)
  <1>0. TypeOK
    BY DEF Inv
  <1>1. CASE QuietWrite
    BY <1>1, QuietWrites
  <1>2. CASE ~QuietWrite
    <2>1. UNCHANGED <<blk, inode_table>>
      <3>1. CASE DirectBlock
        BY <1>0, <3>1, TakeKeeps DEF DirectBlock, disk
      <3>2. CASE IndirectBlock
        BY <1>0, <3>2, TakeKeeps DEF IndirectBlock, disk
      <3>3. CASE PointerBlock
        BY <1>0, <3>3, TakeKeeps DEF PointerBlock, disk
      <3>4. CASE DirectoryBlock \/ GrowDirectory
        BY <1>0, <3>4, TakeKeeps DEF DirectoryBlock, GrowDirectory
      <3>5. CASE AllocateNode
        BY <3>5, Zenon DEF AllocateNode
      <3>6. CASE ClearNode \/ WriteSuperblock \/ WriteBgdt \/ IndirectTable
        BY <3>6 DEF ClearNode, WriteSuperblock, WriteBgdt, IndirectTable, disk
      <3>. QED  BY <1>2, <3>1, <3>2, <3>3, <3>4, <3>5, <3>6 DEF InCall, QuietWrite
    <2>. QED  BY <2>1, QuietUnchanged
  <1>. QED  BY <1>1, <1>2

(* Every step of a call but the one at which it takes effect.               *)
LEMMA InCallQuiet ==
  ASSUME Inv, TypeOK', WellFormed, WellFormed', CallGood, DotsHome, InCall, ~Unlink
  PROVE  Tree' = Tree /\ LinkedDirs' = LinkedDirs /\ DotsHome'
  <1>0. TypeOK
    BY DEF Inv
  <1>1. CASE GrowInode
    BY <1>0, <1>1, GrowQuiet
  <1>2. CASE ~GrowInode
    BY <1>0, <1>2, QuietCalls, QuietKept, QuietDots
  <1>. QED  BY <1>1, <1>2

(* What they have done stays to be known, and the caller sees nothing.      *)
LEMMA QuietStep ==
  ASSUME Inv, TypeOK', WellFormed, WellFormed', CallGood, OpAt(Ahead), DotsHome,
         DoneAt(Ahead), Roomy, InCall, ~Unlink
  PROVE  /\ DotsHome' /\ OpAt(Ahead)' /\ DoneAt(Ahead)'
         /\ UNCHANGED <<Tree, CallInProgress, Effective, ret>>
  <1>. USE DEF MakingLabels, FileLabels, MappedLabels, EarlyLabels, DirLabels,
               BuiltLabels, NamingLabels, PendingLabels
  <1>0. TypeOK
    BY DEF Inv
  <1>1. Tree' = Tree /\ LinkedDirs' = LinkedDirs /\ DotsHome'
    BY InCallQuiet
  <1>2. KeepsCall /\ ret' = ret
    BY <1>0, InCallKeeps
  <1>3. CallInProgress' = CallInProgress
    BY <1>2 DEF KeepsCall, CallInProgress, FrType
  <1>4. CASE WriteSuperblock \/ WriteBgdt
    <2>1. DoneAt(Ahead)' /\ Ahead' = Ahead
      BY <1>0, <1>1, <1>4, MetaDone
    <2>2. PICK l : Ahead = l /\ OpAt(l)
      OBVIOUS
    <2>3. OpAt(l)'
      BY <1>2, <2>2 DEF OpAt, KeepsCall
    <2>4. OpAt(Ahead)'
      BY <2>1, <2>2, <2>3, OpNext
    <2>5. pc \in Meta
      BY <1>4 DEF WriteSuperblock, WriteBgdt, Meta
    <2>6. fr.back \in MakingLabels \cup {"free", "done"}
      BY <2>5, GoodBack
    <2>7. pc # "delete" /\ pc' # "delete"
      BY <1>4, <2>5, <2>6 DEF WriteSuperblock, WriteBgdt, Meta, Goto
    <2>8. Effective' = Effective
      BY <1>2, <2>7 DEF Effective, KeepsCall
    <2>. QED  BY <1>1, <1>2, <1>3, <2>1, <2>4, <2>8
  <1>5. CASE FreeBlock \/ ClearInode \/ ClearNode
    <2>1. Deleting /\ DoneAt(Ahead)'
      BY <1>0, <1>5, DeleteStages
    <2>2. OpAt(Ahead)'
      BY <1>2, <2>1, StageOp
    <2>3. pc # "delete" /\ pc' # "delete"
      BY <1>5 DEF FreeBlock, ClearInode, ClearNode, Goto
    <2>4. Effective' = Effective
      BY <1>2, <2>3 DEF Effective, KeepsCall
    <2>. QED  BY <1>1, <1>2, <1>3, <2>1, <2>2, <2>4
  <1>6. CASE ~(WriteSuperblock \/ WriteBgdt \/ FreeBlock \/ ClearInode \/ ClearNode)
    <2>1. DoneAt(Ahead)' /\ Making
      <3>1. CASE StoreDirect \/ StorePointer
        BY <1>1, <3>1, StoreDone DEF Making
      <3>2. CASE DirectBlock \/ IndirectBlock \/ PointerBlock \/ DirectoryBlock \/ GrowDirectory
        BY <1>0, <1>1, <3>2, TakeDone DEF Making
      <3>3. CASE AllocateNode
        BY <1>0, <1>1, <3>3, AllocateNodeDone DEF Making
      <3>4. CASE IndirectTable \/ WriteTable \/ WriteDots \/ WriteInode \/ GrowInode
        BY <1>0, <1>1, <3>4, MakeDone DEF Making
      <3>. QED  BY <1>6, <3>1, <3>2, <3>3, <3>4 DEF InCall
    <2>2. OpAt(Ahead)' /\ fr.op = "write"
      BY <1>2, <2>1, StageOp
    <2>3. Effective' = Effective
      BY <1>2, <2>2 DEF Effective, KeepsCall
    <2>. QED  BY <1>1, <1>2, <1>3, <2>1, <2>2, <2>3
  <1>. QED  BY <1>4, <1>5, <1>6

-----------------------------------------------------------------------------
(* Calls, returns and power failures.                                       *)

(* A directory has one entry of a name.                                     *)
LEMMA OneListed ==
  ASSUME WellFormed, NEW d \in Inodes, DirOf(d), NEW n, NEW i, NEW t, NEW j, NEW u,
         Lists(d, n, i, t), Lists(d, n, j, u)
  PROVE  i = j /\ t = u
  <1>0. OneEntry
    BY DEF WellFormed
  <1>1. PICK p \in Direct, b \in Blocks :
          /\ b = inode_table[d].block[p] /\ b # 0
          /\ \E k \in DOMAIN Ents(b) : /\ Naming(Ents(b)[k]) /\ Ents(b)[k].name = n
                                       /\ Ents(b)[k].inode = i /\ Ents(b)[k].type = t
    BY DEF Lists
  <1>2. PICK k \in DOMAIN Ents(b) : /\ Naming(Ents(b)[k]) /\ Ents(b)[k].name = n
                                    /\ Ents(b)[k].inode = i /\ Ents(b)[k].type = t
    BY <1>1
  <1>3. PICK q \in Direct, c \in Blocks :
          /\ c = inode_table[d].block[q] /\ c # 0
          /\ \E l \in DOMAIN Ents(c) : /\ Naming(Ents(c)[l]) /\ Ents(c)[l].name = n
                                       /\ Ents(c)[l].inode = j /\ Ents(c)[l].type = u
    BY DEF Lists
  <1>4. PICK l \in DOMAIN Ents(c) : /\ Naming(Ents(c)[l]) /\ Ents(c)[l].name = n
                                    /\ Ents(c)[l].inode = j /\ Ents(c)[l].type = u
    BY <1>3
  <1>5. p = q /\ k = l
    BY <1>0, <1>1, <1>2, <1>3, <1>4 DEF OneEntry
  <1>6. b = c
    BY <1>1, <1>3, <1>5
  <1>. QED  BY <1>2, <1>4, <1>5, <1>6

(* What find_entry_in_dir finds is the entry of the tree.                   *)
LEMMA FoundEntry ==
  ASSUME TypeOK, WellFormed, NEW q \in LinkedDirs, NEW m, m \notin Dots,
         NEW s \in find_entry_in_dir(q, m), NEW t, t = At(q, s).inode
  PROVE  /\ t \in Inodes /\ IsNamed(t) /\ inode_table[t].mode \in {"file", "dir"}
         /\ Lists(q, m, t, inode_table[t].mode)
         /\ \A e \in Truncating!Named(q, m) : e.node = t /\ e.kind = inode_table[t].mode
         /\ \E e \in Truncating!Named(q, m) : e.node = t
  <1>0. Linked /\ TreeIs
    BY LinkedFacts, TreeLists
  <1>1. q \in Inodes /\ DirOf(q)
    BY <1>0 DEF Linked
  <1>2. s \in NamedIn(q) /\ At(q, s).name = m
    BY DEF find_entry_in_dir, NamedIn
  <1>3. Lists(q, m, t, At(q, s).type)
    BY <1>1, <1>2, NamedInLists
  <1>4. /\ t \in Inodes /\ IsNamed(t) /\ inode_table[t].mode = At(q, s).type
        /\ At(q, s).type \in {"file", "dir"}
    BY <1>3, ListedType
  <1>5. PICK u : u = inode_table[t].mode
    OBVIOUS
  <1>6. Lists(q, m, t, u)
    BY <1>3, <1>4, <1>5
  <1>7. ASSUME NEW e \in Truncating!Named(q, m) PROVE e.node = t /\ e.kind = u
    <2>1. e \in Tree /\ e.dir = q /\ e.name = m
      BY DEF Truncating!Named
    <2>2. PICK d, n, i, k :
            d \in LinkedDirs /\ Lists(d, n, i, k) /\ e.dir = d /\ e.name = n /\ e.node = i /\ e.kind = k
      BY <2>1, TreeRecord
    <2>3. Lists(q, m, i, k)
      BY <2>1, <2>2
    <2>4. i = t /\ k = u
      BY <1>1, <1>6, <2>3, OneListed
    <2>. QED  BY <2>2, <2>4
  <1>8. \E e \in Truncating!Named(q, m) : e.node = t
    <2>1. PICK e : e = TreeEntry(q, m, t, u)
      OBVIOUS
    <2>2. e \in Tree
      BY <1>0, <1>6, <2>1 DEF TreeIs
    <2>3. e.dir = q /\ e.name = m /\ e.node = t
      BY <2>1 DEF TreeEntry
    <2>. QED  BY <2>2, <2>3 DEF Truncating!Named
  <1>. QED  BY <1>4, <1>5, <1>6, <1>7, <1>8

(* And what it does not find is not there.                                  *)
LEMMA NotFound ==
  ASSUME TypeOK, WellFormed, NEW q \in LinkedDirs, NEW m, find_entry_in_dir(q, m) = {}
  PROVE  Truncating!Named(q, m) = {}
  <1>0. Linked
    BY LinkedFacts
  <1>1. q \in Inodes /\ DirOf(q)
    BY <1>0 DEF Linked
  <1>. SUFFICES ASSUME NEW e \in Truncating!Named(q, m) PROVE FALSE
    OBVIOUS
  <1>2. e \in Tree /\ e.dir = q /\ e.name = m
    BY DEF Truncating!Named
  <1>3. PICK d, n, i, k :
          d \in LinkedDirs /\ Lists(d, n, i, k) /\ e.dir = d /\ e.name = n
    BY <1>2, TreeRecord
  <1>4. Lists(q, m, i, k)
    BY <1>2, <1>3
  <1>5. PICK s \in NamedIn(q) : At(q, s).name = m
    BY <1>1, <1>4, NamedInLists
  <1>6. s \in find_entry_in_dir(q, m)
    BY <1>1, <1>5 DEF NamedIn, find_entry_in_dir, DirOf
  <1>. QED  BY <1>6

(* The steps that write neither the data area nor the inode table.          *)
LEMMA DiskQuiet ==
  ASSUME TypeOK, TypeOK', WellFormed, WellFormed', DotsHome, UNCHANGED <<blk, inode_table>>
  PROVE  Tree' = Tree /\ LinkedDirs' = LinkedDirs /\ DotsHome'
  <1>1. Quiet /\ \A i : IsNamed(i)' => IsNamed(i)
    BY QuietUnchanged
  <1>. QED  BY <1>1, QuietKept, QuietDots

(* A call that ends without effect has the reason its code names.           *)
LEMMA RefusedReason ==
  ASSUME Orderly, TypeOK, WellFormed, CallGood, OpAt(Ahead), DotsHome, DoneAt(Ahead),
         WriteRefused \/ NoEntry \/ DeleteRefused
  PROVE  /\ fr.op # "none" /\ ~Effective
         /\ \E code \in {-1, 1, 2, 3} : Truncating!Reason(code) /\ Return(code)
  <1>. USE DEF MakingLabels, FileLabels, MappedLabels, EarlyLabels, DirLabels,
               BuiltLabels, NamingLabels, PendingLabels
  <1>0. PICK q, m, u : q = fr.parent /\ m = fr.name /\ u = FrType
    OBVIOUS
  <1>1. CASE NoEntry
    <2>1. pc \in {"no_entry", "add_entry"} /\ Ahead = pc /\ Return(-1)
      BY <1>1, AheadNext DEF NoEntry, Meta
    <2>2. fr.op = "write"
      BY <2>1 DEF OpAt
    <2>. QED  BY <2>1, <2>2 DEF Effective, Truncating!Reason
  <1>2. CASE WriteRefused
    <2>1. pc = "write" /\ Ahead = "write"
      BY <1>2, AheadNext DEF WriteRefused, Meta
    <2>2. fr.op = "write" /\ (q # 0 => q \in LinkedDirs)
      BY <1>0, <2>1 DEF OpAt, DoneAt
    <2>3. m \notin Dots
      BY <1>0, <2>1, GoodHere DEF GoodAt, Meta, Orderly
    <2>4. /\ CallInProgress.op = "write" /\ CallInProgress.parent = q
          /\ CallInProgress.name = m /\ CallInProgress.kind = u
      BY <1>0, <2>2, CallFields
    <2>5. \/ Return(-1)
          \/ q = 0 /\ Return(2)
          \/ q # 0 /\ find_entry_in_dir(q, m) # {} /\ Return(1)
      BY <1>0, <1>2 DEF WriteRefused
    <2>6. CASE Return(-1)
      BY <2>2, <2>6 DEF Effective, Truncating!Reason
    <2>7. CASE q = 0 /\ Return(2)
      <3>1. Truncating!Reason(2)
        BY <2>4, <2>7 DEF Truncating!Reason
      <3>. QED  BY <2>2, <2>7, <3>1 DEF Effective
    <2>8. CASE q # 0 /\ find_entry_in_dir(q, m) # {} /\ Return(1)
      <3>1. PICK s : s \in find_entry_in_dir(q, m)
        BY <2>8
      <3>2. Truncating!Named(q, m) # {}
        BY <2>2, <2>3, <2>8, <3>1, FoundEntry
      <3>3. Truncating!Reason(1)
        BY <2>4, <3>2 DEF Truncating!Reason
      <3>. QED  BY <2>2, <2>8, <3>3 DEF Effective
    <2>. QED  BY <2>5, <2>6, <2>7, <2>8
  <1>3. CASE DeleteRefused
    <2>1. pc = "delete" /\ Ahead = "delete"
      BY <1>3, AheadNext DEF DeleteRefused, Meta
    <2>2. fr.op = "delete" /\ ~Effective /\ (q # 0 => q \in LinkedDirs)
      BY <1>0, <2>1 DEF OpAt, DoneAt, DeletingLabels, Effective
    <2>3. m \notin Dots
      BY <1>0, <2>1, GoodHere DEF GoodAt, Meta, Orderly
    <2>4. /\ CallInProgress.op = "delete" /\ CallInProgress.parent = q
          /\ CallInProgress.name = m /\ CallInProgress.kind = u
      BY <1>0, <2>2, CallFields
    <2>5. \/ Return(-1)
          \/ q = 0 /\ Return(3)
          \/ q # 0 /\ find_entry_in_dir(q, m) = {} /\ Return(1)
          \/ /\ q # 0
             /\ \E s \in First(find_entry_in_dir(q, m)) :
                  \/ fr.dir # IsDir(Target(s)) /\ Return(1)
                  \/ /\ fr.dir /\ IsDir(Target(s))
                     /\ \E from \in FirstChild(Target(s)) :
                          ~is_directory_empty(Target(s), from)
                     /\ Return(2)
      BY <1>0, <1>3 DEF DeleteRefused
    <2>6. CASE Return(-1)
      BY <2>2, <2>6 DEF Truncating!Reason
    <2>7. CASE q = 0 /\ Return(3)
      <3>1. Truncating!Reason(3)
        BY <2>4, <2>7 DEF Truncating!Reason
      <3>. QED  BY <2>2, <2>7, <3>1
    <2>8. CASE q # 0 /\ find_entry_in_dir(q, m) = {} /\ Return(1)
      <3>1. Truncating!Named(q, m) = {}
        BY <2>2, <2>8, NotFound
      <3>2. Truncating!Reason(1)
        BY <2>4, <3>1 DEF Truncating!Reason
      <3>. QED  BY <2>2, <2>8, <3>2
    <2>9. ASSUME q # 0, NEW s \in First(find_entry_in_dir(q, m)),
                 \/ fr.dir # IsDir(Target(s)) /\ Return(1)
                 \/ /\ fr.dir /\ IsDir(Target(s))
                    /\ \E from \in FirstChild(Target(s)) :
                         ~is_directory_empty(Target(s), from)
                    /\ Return(2)
          PROVE  \E code \in {-1, 1, 2, 3} : Truncating!Reason(code) /\ Return(code)
      <3>1. s \in find_entry_in_dir(q, m)
        BY DEF First
      <3>2. PICK t : t = At(q, s).inode
        OBVIOUS
      <3>3. Target(s) = t
        BY <1>0, <3>2 DEF Target
      <3>4. /\ t \in Inodes /\ IsNamed(t) /\ inode_table[t].mode \in {"file", "dir"}
            /\ Lists(q, m, t, inode_table[t].mode)
            /\ \A e \in Truncating!Named(q, m) : e.node = t /\ e.kind = inode_table[t].mode
            /\ \E e \in Truncating!Named(q, m) : e.node = t
        BY <2>2, <2>3, <2>9, <3>1, <3>2, FoundEntry
      <3>5. CASE fr.dir # IsDir(Target(s)) /\ Return(1)
        <4>1. u # inode_table[t].mode
          BY <1>0, <3>3, <3>4, <3>5, FrameParts DEF IsDir, FrType
        <4>2. Truncating!Reason(1)
          BY <2>4, <3>4, <4>1 DEF Truncating!Reason
        <4>. QED  BY <3>5, <4>2
      <3>6. CASE /\ fr.dir /\ IsDir(Target(s))
                 /\ \E from \in FirstChild(Target(s)) : ~is_directory_empty(Target(s), from)
                 /\ Return(2)
        <4>1. DirOf(t) /\ inode_table[t].mode = "dir" /\ u = "dir"
          BY <1>0, <3>3, <3>4, <3>6 DEF DirOf, IsDir, FrType
        <4>2. FirstChild(t) = {3}
          BY <3>4, <4>1, EmptyDir
        <4>3. ~is_directory_empty(t, 3)
          BY <3>3, <3>6, <4>2
        <4>4. PICK n, i, v : Lists(t, n, i, v)
          BY <3>4, <4>1, <4>3, EmptyDir
        <4>5. Linked /\ TreeIs
          BY LinkedFacts, TreeLists
        <4>6. t \in LinkedDirs
          BY <2>2, <2>9, <3>4, <4>1, <4>5 DEF Linked
        <4>7. PICK f : f = TreeEntry(t, n, i, v)
          OBVIOUS
        <4>8. f \in Tree /\ f.dir = t
          BY <4>4, <4>5, <4>6, <4>7 DEF TreeIs, TreeEntry
        <4>9. PICK e \in Truncating!Named(q, m) : e.node = t
          BY <3>4
        <4>10. Truncating!Children(e.node) # {}
          BY <4>8, <4>9 DEF Truncating!Children
        <4>11. Truncating!Reason(2)
          BY <2>4, <4>1, <4>9, <4>10 DEF Truncating!Reason
        <4>. QED  BY <3>6, <4>11
      <3>. QED  BY <2>9, <3>5, <3>6
    <2>. QED  BY <2>2, <2>5, <2>6, <2>7, <2>8, <2>9
  <1>. QED  BY <1>1, <1>2, <1>3

(* A call that returns.                                                     *)
LEMMA ReturnStep ==
  ASSUME Orderly, TypeOK, TypeOK', WellFormed, WellFormed', CallGood, OpAt(Ahead), DotsHome,
         DoneAt(Ahead), WriteRefused \/ NoEntry \/ DeleteRefused \/ DeleteDone
  PROVE  /\ DotsHome' /\ OpAt(Ahead)' /\ DoneAt(Ahead)'
         /\ Truncating!Refuse \/ Truncating!Removed
  <1>1. UNCHANGED <<blk, inode_table>> /\ pc' = "idle" /\ fr' = NoFrame
    <2>1. CASE WriteRefused
      BY <2>1 DEF WriteRefused, Return, disk
    <2>2. CASE NoEntry
      BY <2>2 DEF NoEntry, Return, disk
    <2>3. CASE DeleteRefused
      BY <2>3 DEF DeleteRefused, Return, disk
    <2>4. CASE DeleteDone
      BY <2>4 DEF DeleteDone, Return, disk
    <2>. QED  BY <2>1, <2>2, <2>3, <2>4
  <1>2. Tree' = Tree /\ DotsHome'
    BY <1>1, DiskQuiet
  <1>3. OpAt(Ahead)' /\ DoneAt(Ahead)' /\ CallInProgress' = [op |-> "none"] /\ ~Effective'
    BY <1>1, ReturnDone
  <1>4. CASE WriteRefused \/ NoEntry \/ DeleteRefused
    <2>1. PICK code \in {-1, 1, 2, 3} : Truncating!Reason(code) /\ Return(code)
      BY <1>4, RefusedReason
    <2>2. fr.op # "none" /\ ~Effective
      BY <1>4, RefusedReason
    <2>3. CallInProgress # Truncating!NoCall
      BY <2>2, CallFields
    <2>4. Truncating!End(code)
      BY <1>3, <2>1 DEF Truncating!End, Truncating!NoCall, Return, Effective
    <2>5. Truncating!Refuse
      BY <1>2, <2>1, <2>2, <2>3, <2>4 DEF Truncating!Refuse
    <2>. QED  BY <1>2, <1>3, <2>5
  <1>5. CASE DeleteDone
    <2>1. pc = "done" /\ Ahead = "done" /\ Return(0)
      BY <1>5, AheadNext DEF DeleteDone, Meta
    <2>2. Effective
      BY <2>1 DEF OpAt, DeletingLabels, Effective
    <2>3. Truncating!End(0)
      BY <1>3, <2>1 DEF Truncating!End, Truncating!NoCall, Return, Effective
    <2>4. Truncating!Removed
      BY <1>2, <2>2, <2>3 DEF Truncating!Removed
    <2>. QED  BY <1>2, <1>3, <2>4
  <1>. QED  BY <1>4, <1>5

(* A program calls write or delete.                                         *)
LEMMA CallBegins ==
  ASSUME Orderly, TypeOK, TypeOK', WellFormed, WellFormed', CallGood, OpAt(Ahead), DotsHome,
         DoneAt(Ahead), CallWrite \/ CallDelete
  PROVE  DotsHome' /\ OpAt(Ahead)' /\ DoneAt(Ahead)' /\ Truncating!Begin
  <1>1. PICK op \in {"write", "delete"}, q \in LinkedDirs \cup {0}, m \in Names,
             dir \in BOOLEAN, c \in Contents \cup {<<>>} :
          (dir => c = <<>>) /\ Call(Request(op, q, m, dir, c))
    <2>1. CASE CallWrite
      <3>1. PICK q \in LinkedDirs \cup {0}, m \in Names :
              \/ "file" \in Kinds /\ \E c \in Contents : Call(Request("write", q, m, FALSE, c))
              \/ "dir" \in Kinds /\ Call(Request("write", q, m, TRUE, <<>>))
        BY <2>1 DEF CallWrite
      <3>. QED  BY <3>1
    <2>2. CASE CallDelete
      <3>1. PICK q \in LinkedDirs \cup {0}, m \in DeleteNames, dir \in BOOLEAN :
              Call(Request("delete", q, m, dir, <<>>))
        BY <2>2 DEF CallDelete
      <3>. QED  BY <3>1 DEF Orderly
    <2>. QED  BY <2>1, <2>2
  <1>2. PICK f : f = Request(op, q, m, dir, c)
    OBVIOUS
  <1>3. /\ f.op = op /\ f.parent = q /\ f.name = m /\ f.dir = dir /\ f.content = c
        /\ f.n = 0
    BY <1>2 DEF Request, NoFrame
  <1>4. /\ pc = "idle" /\ fr' = f /\ pc' = op /\ ret' = NoCode
        /\ UNCHANGED <<blk, inode_table>>
    BY <1>1, <1>2, <1>3 DEF Call, disk
  <1>5. Tree' = Tree /\ LinkedDirs' = LinkedDirs /\ DotsHome'
    BY <1>4, DiskQuiet
  <1>6. Ahead = "idle" /\ Ahead' = op
    BY <1>4, AheadNext DEF Meta
  <1>7. fr.op = "none"
    BY <1>6 DEF OpAt
  <1>8. OpAt(op)'
    BY <1>1, <1>3, <1>4 DEF OpAt, MakingLabels, FileLabels, MappedLabels, EarlyLabels, DirLabels,
       BuiltLabels, NamingLabels, DeletingLabels, MkfsLabels, BitmapLabels, TableLabels,
       RootLabels, RootDirLabels
  <1>9. DoneAt(op)'
    BY <1>1, <1>3, <1>4, <1>5 DEF DoneAt, MakingLabels, FileLabels, MappedLabels, EarlyLabels,
       DirLabels, BuiltLabels, NamingLabels
  <1>10. OpAt(Ahead)' /\ DoneAt(Ahead)'
    BY <1>6, <1>8, <1>9, OpNext, DoneNext
  <1>11. CallInProgress = Truncating!NoCall
    BY <1>7 DEF CallInProgress, Truncating!NoCall
  <1>12. PICK u : u = IF dir THEN "dir" ELSE "file"
    OBVIOUS
  <1>13. CallInProgress' = [op |-> op, parent |-> q, name |-> m, kind |-> u, data |-> c]
    BY <1>1, <1>3, <1>4, <1>12 DEF CallInProgress, FrType
  <1>14. q \in Inodes \cup {0} /\ (q = 0 \/ q \in Truncating!Dirs)
    <2>1. Linked
      BY LinkedFacts
    <2>. QED  BY <2>1, LinkedInDirs DEF Linked
  <1>15. [op |-> op, parent |-> q, name |-> m, kind |-> u, data |-> c] \in Truncating!Calls
    BY <1>12, <1>14 DEF Truncating!Calls
  <1>16. Effective' = FALSE /\ ret' = Truncating!NoCode
    BY <1>1, <1>3, <1>4 DEF Effective, NoCode, Truncating!NoCode
  <1>17. Truncating!Begin
    <2>1. PICK r : r = [op |-> op, parent |-> q, name |-> m, kind |-> u, data |-> c]
      OBVIOUS
    <2>2. r \in Truncating!Calls /\ r.parent = q /\ CallInProgress' = r
      BY <1>13, <1>15, <2>1
    <2>. QED  BY <1>5, <1>11, <1>14, <1>16, <2>2 DEF Truncating!Begin
  <1>. QED  BY <1>5, <1>10, <1>17

(* A power failure in the course of a call, or outside.                     *)
LEMMA CrashStep ==
  ASSUME TypeOK, TypeOK', WellFormed, WellFormed', DotsHome, Crash
  PROVE  DotsHome' /\ OpAt(Ahead)' /\ DoneAt(Ahead)' /\ Truncating!PowerFailure
  <1>1. pc' = "off" /\ fr' = NoFrame /\ ret' = NoCode /\ UNCHANGED <<blk, inode_table>>
    BY DEF Crash, disk
  <1>2. Tree' = Tree /\ DotsHome'
    BY <1>1, DiskQuiet
  <1>3. OpAt(Ahead)' /\ DoneAt(Ahead)' /\ CallInProgress' = [op |-> "none"] /\ ~Effective'
    BY <1>1, ReturnDone
  <1>4. Truncating!PowerFailure
    BY <1>1, <1>2, <1>3 DEF Truncating!PowerFailure, Truncating!End, Truncating!NoCall,
       Truncating!NoCode, NoCode, Effective
  <1>. QED  BY <1>2, <1>3, <1>4

(* A boot from a formatted disk.                                            *)
LEMMA BootStep ==
  ASSUME TypeOK, TypeOK', WellFormed, WellFormed', OpAt(Ahead), DotsHome, signature, Boot
  PROVE  /\ DotsHome' /\ OpAt(Ahead)' /\ DoneAt(Ahead)'
         /\ UNCHANGED <<Tree, CallInProgress, Effective, ret>>
  <1>1. /\ pc = "off" /\ pc' = "idle" /\ fr' = fr /\ ret' = ret
        /\ UNCHANGED <<blk, inode_table>>
    BY DEF Boot, Goto
  <1>2. Tree' = Tree /\ DotsHome'
    BY <1>1, DiskQuiet
  <1>3. Ahead = "off" /\ Ahead' = "idle"
    BY <1>1, AheadNext DEF Meta
  <1>4. fr.op = "none" /\ (fr.dir => fr.content = <<>>)
    BY <1>3 DEF OpAt
  <1>5. OpAt("idle")'
    BY <1>1, <1>4 DEF OpAt, MakingLabels, FileLabels, MappedLabels, EarlyLabels, DirLabels,
       BuiltLabels, NamingLabels, DeletingLabels
  <1>6. DoneAt("idle")'
    BY DEF DoneAt, MakingLabels, FileLabels, MappedLabels, EarlyLabels, DirLabels,
       BuiltLabels, NamingLabels
  <1>7. OpAt(Ahead)' /\ DoneAt(Ahead)'
    BY <1>3, <1>5, <1>6, OpNext, DoneNext
  <1>8. CallInProgress' = CallInProgress /\ Effective' = Effective
    BY <1>1, <1>4 DEF CallInProgress, Effective, FrType
  <1>. QED  BY <1>1, <1>2, <1>7, <1>8

-----------------------------------------------------------------------------
(* The first states and the formatting.                                     *)

(* A fresh disk: the root, its dots, and an empty tree.                     *)
LEMMA FreshRef == TypeOK /\ FreshTree => DotsHome /\ Tree = {}
  <1>. SUFFICES ASSUME TypeOK, FreshTree PROVE DotsHome /\ Tree = {}
    OBVIOUS
  <1>1. /\ ROOT_DIR_BLOCK_LBA \in Blocks /\ ROOT_INODE_NO \in Inodes
        /\ ROOT_DIR_BLOCK_LBA \in Nat /\ ROOT_DIR_BLOCK_LBA > 0
    BY LayoutFacts, LayoutAssumption DEF ROOT_DIR_BLOCK_LBA, INODE_TABLE_LBA
  <1>2. /\ \A b \in Blocks : b # ROOT_DIR_BLOCK_LBA => blk[b] = Stale
        /\ blk[ROOT_DIR_BLOCK_LBA] = DirBlock(DotEntries(ROOT_INODE_NO, ROOT_INODE_NO))
    BY <1>1 DEF FreshTree
  <1>3. Ents(ROOT_DIR_BLOCK_LBA) = DotEntries(ROOT_INODE_NO, ROOT_INODE_NO)
    BY <1>2 DEF Ents, DirBlock
  <1>4. ASSUME NEW b \in Blocks, NEW k \in DOMAIN Ents(b) PROVE ~Naming(Ents(b)[k])
    <2>1. CASE b = ROOT_DIR_BLOCK_LBA
      BY <1>3, <1>4, <2>1, DotsDoNotName
    <2>2. CASE b # ROOT_DIR_BLOCK_LBA
      <3>1. Ents(b) = <<>>
        BY <1>2, <2>2 DEF Ents, Stale
      <3>. QED  BY <1>4, <3>1
    <2>. QED  BY <2>1, <2>2
  <1>5. Tree = {}
    <2>1. NamedSlots = {}
      <3>. SUFFICES ASSUME NEW x \in NamedSlots PROVE FALSE
        OBVIOUS
      <3>1. \E b \in Blocks : \E k \in DOMAIN Ents(b) : Naming(Ents(b)[k])
        BY SlotOf
      <3>. QED  BY <1>4, <3>1
    <2>. QED  BY <2>1 DEF Tree
  <1>6. inode_table[ROOT_INODE_NO] = RootInode
    BY <1>1 DEF FreshTree, BlankTable
  <1>7. /\ RootInode.mode = "dir" /\ RootInode.block[0] = ROOT_DIR_BLOCK_LBA
        /\ \A j \in 0 .. NDirect : j # 0 => RootInode.block[j] = 0
    BY PositionFacts DEF RootInode, ZeroInode
  <1>8. DirEnts(ROOT_INODE_NO, 0) = DotEntries(ROOT_INODE_NO, ROOT_INODE_NO)
    BY <1>3, <1>6, <1>7 DEF DirEnts
  <1>9. Dotted(ROOT_INODE_NO, ROOT_INODE_NO, DotEntries(ROOT_INODE_NO, ROOT_INODE_NO))
    BY RecLenType DEF Dotted, DotEntries, NewEntry, Dots
  <1>10. ASSUME NEW d \in Inodes, DirOf(d)
         PROVE  /\ inode_table[d].block[0] # 0
                /\ \E e \in Inodes \cup {0} : Dotted(d, e, DirEnts(d, 0))
                /\ \A p \in 1 .. NDirect - 1 :
                     inode_table[d].block[p] # 0 => Dotless(DirEnts(d, p))
                /\ \A n \in Names, i \in Inodes :
                     Lists(d, n, i, "dir") => Dotted(i, d, DirEnts(i, 0))
    <2>1. d = ROOT_INODE_NO
      BY <1>4, <1>10 DEF DirOf, IsNamed
    <2>2. \A p \in 1 .. NDirect - 1 : p \in 0 .. NDirect /\ p # 0
      BY LayoutFacts
    <2>3. \A n, i, t : ~Lists(d, n, i, t)
      BY <1>4 DEF Lists
    <2>. QED  BY <1>1, <1>6, <1>7, <1>8, <1>9, <2>1, <2>2, <2>3
  <1>. QED  BY <1>5, <1>10 DEF DotsHome

(* Outside calls nothing has been done.                                     *)
LEMMA DoneOutside == \A l \in {"idle", "off"} \cup MkfsLabels : DoneAt(l) /\ DoneAt(l)'
  BY DEF DoneAt, MakingLabels, FileLabels, MappedLabels, EarlyLabels, DirLabels, BuiltLabels,
     NamingLabels, MkfsLabels, BitmapLabels, TableLabels, RootLabels, RootDirLabels

(* While the disk is formatted the tree is empty.                           *)
LEMMA FormattingEmpty == TypeOK /\ Formatting => Tree = {}
  BY FormattingTree DEF Tree

(* Before the machine is started nothing is in the tree and no call runs.   *)
LEMMA RefInit ==
  ASSUME Orderly, Init
  PROVE  RefInv /\ Truncating!Init
  <1>0. TypeOK
    BY InitInv DEF Inv
  <1>1. pc = "off" /\ Ahead = "off" /\ fr = NoFrame /\ ret = NoCode
    BY AheadNext DEF Init, Meta
  <1>2. fr.op = "none" /\ fr.content = <<>>
    BY <1>1 DEF NoFrame
  <1>3. OpAt("off") /\ DoneAt("off")
    BY <1>2, DoneOutside DEF OpAt, MakingLabels, FileLabels, MappedLabels, EarlyLabels, DirLabels,
       BuiltLabels, NamingLabels, DeletingLabels
  <1>4. OpAt(Ahead) /\ DoneAt(Ahead)
    BY <1>1, <1>3
  <1>5. (Formatting \/ DotsHome) /\ Tree = {}
    <2>1. CASE FormatByKernel
      <3>1. Formatting
        BY <2>1, Ext2Assumption DEF Init, Formatting, Orderly, MkfsLabels, BitmapLabels,
           TableLabels, RootLabels, RootDirLabels
      <3>. QED  BY <1>0, <3>1, FormattingEmpty
    <2>2. CASE ~FormatByKernel
      <3>1. FreshTree
        BY <2>2 DEF Init, FreshTree
      <3>. QED  BY <1>0, <3>1, FreshRef
    <2>. QED  BY <2>1, <2>2, Ext2Assumption
  <1>6. CallInProgress = [op |-> "none"] /\ Effective = FALSE
    BY <1>2 DEF CallInProgress, Effective
  <1>. QED  BY <1>1, <1>4, <1>5, <1>6 DEF RefInv, Truncating!Init, Truncating!NoCall,
               Truncating!NoCode, NoCode

(* create_ext2 makes an empty tree.                                         *)
LEMMA FormatRef ==
  ASSUME TypeOK, TypeOK', Formatting, OpAt(Ahead), Next
  PROVE  RefInv' /\ UNCHANGED <<Tree, CallInProgress, Effective, ret>>
  <1>. USE DEF MkfsLabels, BitmapLabels, TableLabels, RootLabels, RootDirLabels
  <1>1. Boot \/ Mkfs
    <2>1. ~Crash
      BY DEF Crash, Formatting, TypeOK
    <2>2. ~(Write \/ Delete \/ WriteSuperblock \/ WriteBgdt \/ CallWrite \/ CallDelete)
      BY NotFormatting DEF Formatting
    <2>. QED  BY <2>1, <2>2 DEF Next, Step
  <1>2. pc \in MkfsLabels \cup {"off"}
    BY DEF Formatting
  <1>3. /\ fr' = fr /\ ret' = ret
        /\ IF MkfsRootDir THEN pc' = "idle" ELSE pc' \in MkfsLabels
    <2>1. CASE Boot
      BY <2>1 DEF Boot, Goto, Formatting, MkfsRootDir
    <2>2. CASE Mkfs
      BY <2>2 DEF Mkfs, MkfsSuperblock, MkfsBgdt, MkfsBlockBitmap, MkfsInodeBitmap, MkfsTable,
         MkfsRoot, MkfsRootDir, Goto
    <2>. QED  BY <1>1, <2>1, <2>2
  <1>4. Ahead = pc /\ Ahead' = pc' /\ pc' \in {"idle", "off"} \cup MkfsLabels
    BY <1>2, <1>3, AheadNext DEF Meta
  <1>5. fr.op = "none" /\ (fr.dir => fr.content = <<>>)
    BY <1>2, <1>4 DEF OpAt
  <1>6. PICK l \in {"idle", "off"} \cup MkfsLabels : l = pc'
    BY <1>4
  <1>7. OpAt(l)' /\ DoneAt(l)'
    BY <1>3, <1>5, <1>6, DoneOutside DEF OpAt, MakingLabels, FileLabels, MappedLabels, EarlyLabels,
       DirLabels, BuiltLabels, NamingLabels, DeletingLabels
  <1>8. OpAt(Ahead)' /\ DoneAt(Ahead)'
    BY <1>4, <1>6, <1>7, OpNext, DoneNext
  <1>9. (Formatting' \/ DotsHome') /\ Tree' = {}
    <2>1. CASE MkfsRootDir
      <3>1. FreshTree'
        BY <2>1 DEF MkfsRootDir, FreshTree, Formatting
      <3>2. (TypeOK /\ FreshTree => DotsHome /\ Tree = {})'
        BY FreshRef, PTL
      <3>. QED  BY <3>1, <3>2
    <2>2. CASE ~MkfsRootDir
      <3>1. pc' \in MkfsLabels
        BY <1>3, <2>2
      <3>2. ~CallGood'
        BY <3>1 DEF CallGood, CallLabels, MakingLabels, FileLabels, MappedLabels, EarlyLabels,
           DirLabels, BuiltLabels, NamingLabels, Meta
      <3>3. Formatting'
        BY <3>2, FormatStep DEF TreeInv
      <3>4. (TypeOK /\ Formatting => Tree = {})'
        BY FormattingEmpty, PTL
      <3>. QED  BY <3>3, <3>4
    <2>. QED  BY <2>1, <2>2
  <1>10. CallInProgress' = CallInProgress /\ Effective' = Effective
    BY <1>3, <1>5 DEF CallInProgress, Effective, FrType
  <1>11. RefInv'
    BY <1>8, <1>9 DEF RefInv
  <1>12. Tree' = Tree
    BY <1>9, FormattingEmpty
  <1>. QED  BY <1>3, <1>10, <1>11, <1>12

-----------------------------------------------------------------------------
(* Every step.                                                              *)

(* What a caller sees of a step: a name appears, or one of the others that do
   not depend on how much of a file is stored, or nothing.                  *)
Appears == /\ fr.op = "write" /\ Ahead \in NamingLabels
           /\ \E s : Creates(s) /\ Holding(s)
Seen == \/ Appears
        \/ Truncating!Begin \/ Truncating!Remove \/ Truncating!Removed
        \/ Truncating!Refuse \/ Truncating!PowerFailure
        \/ UNCHANGED <<Tree, CallInProgress, Effective, ret>>

(* A step of a formatted file system.                                       *)
LEMMA FormattedRef ==
  ASSUME Orderly, Inv, TypeOK', WellFormed, WellFormed', CallGood, signature,
         OpAt(Ahead), DotsHome, DoneAt(Ahead), Roomy, Next
  PROVE  DotsHome' /\ OpAt(Ahead)' /\ DoneAt(Ahead)' /\ Seen
  <1>0. TypeOK
    BY DEF Inv
  <1>1. ~Mkfs
    BY DEF CallGood, CallLabels, MakingLabels, FileLabels, MappedLabels, EarlyLabels,
       DirLabels, BuiltLabels, NamingLabels, Meta, Mkfs, MkfsSuperblock, MkfsBgdt,
       MkfsBlockBitmap, MkfsInodeBitmap, MkfsTable, MkfsRoot, MkfsRootDir
  <1>2. CASE Boot
    BY <1>0, <1>2, BootStep DEF Seen
  <1>3. CASE WriteRefused \/ NoEntry \/ DeleteRefused \/ DeleteDone
    BY <1>0, <1>3, ReturnStep DEF Seen
  <1>4. CASE CallWrite \/ CallDelete
    BY <1>0, <1>4, CallBegins DEF Seen
  <1>5. CASE AddEntry \/ GrowBlock
    <2>1. Ahead \in {"add_entry", "grow_block"}
      BY <1>5, AheadNext DEF AddEntry, GrowBlock, Meta
    <2>2. fr.op = "write"
      BY <2>1 DEF OpAt, MakingLabels, BuiltLabels, NamingLabels
    <2>. QED  BY <1>0, <1>5, <2>1, <2>2, EntryStep DEF Seen, Appears, NamingLabels
  <1>6. CASE Unlink
    BY <1>0, <1>6, UnlinkStep DEF Seen
  <1>7. CASE InCall /\ ~Unlink
    BY <1>7, QuietStep DEF Seen
  <1>8. CASE Crash
    BY <1>0, <1>8, CrashStep DEF Seen
  <1>. QED  BY <1>1, <1>2, <1>3, <1>4, <1>5, <1>6, <1>7, <1>8
            DEF Next, Step, Write, Delete, InCall

(* Every step keeps the invariant, and a caller sees a step of FileSystem or
   none.                                                                    *)
LEMMA RefStep ==
  ASSUME Orderly, Inv, Inv', TreeInv, TreeInv', RefInv, Roomy, [Next]_vars
  PROVE  RefInv' /\ Seen
  <1>0. TypeOK /\ TypeOK'
    BY DEF Inv
  <1>1. CASE UNCHANGED vars
    <2>1. /\ UNCHANGED <<signature, block_bitmap, inode_bitmap, inode_table, blk, pc, fr, ret,
                         crashes, bgd>>
      BY <1>1 DEF vars, disk, mem
    <2>2. Ahead' = Ahead /\ CallInProgress' = CallInProgress /\ Effective' = Effective
      BY <2>1 DEF Ahead, CallInProgress, Effective, FrType
    <2>3. OpAt(Ahead) => OpAt(Ahead)'
      BY <2>1, <2>2 DEF OpAt
    <2>4. CASE Formatting
      <3>1. Formatting'
        BY <2>1, <2>4 DEF Formatting
      <3>2. (TypeOK /\ Formatting => Tree = {})'
        BY FormattingEmpty, PTL
      <3>3. Tree' = Tree
        BY <1>0, <2>4, <3>1, <3>2, FormattingEmpty
      <3>. QED  BY <2>1, <2>2, <2>3, <3>1, <3>3 DEF RefInv, Seen
    <2>5. CASE ~Formatting
      <3>1. /\ WellFormed /\ DotsHome /\ DoneAt(Ahead)
        BY <2>5 DEF TreeInv, RefInv
      <3>2. WellFormed'
        <4>1. ~Formatting'
          BY <2>1, <2>5 DEF Formatting
        <4>. QED  BY <4>1 DEF TreeInv
      <3>3. Tree' = Tree /\ LinkedDirs' = LinkedDirs /\ DotsHome'
        BY <1>0, <2>1, <3>1, <3>2, DiskQuiet
      <3>4. fr' = fr /\ SameStored /\ (NoBlock' <=> NoBlock)
        BY <2>1 DEF SameStored, NoBlock, FreeBlocks
      <3>5. PICK l : l = Ahead
        OBVIOUS
      <3>6. DoneAt(l)'
        BY <3>1, <3>3, <3>4, <3>5, DoneSame
      <3>7. DoneAt(Ahead)'
        BY <2>2, <3>5, <3>6, DoneNext
      <3>. QED  BY <2>1, <2>2, <2>3, <3>3, <3>7 DEF RefInv, Seen
    <2>. QED  BY <2>4, <2>5
  <1>2. CASE Next /\ Formatting
    BY <1>0, <1>2, FormatRef DEF RefInv, Seen
  <1>3. CASE Next /\ ~Formatting
    <2>1. signature /\ WellFormed /\ CallGood /\ OpAt(Ahead) /\ DotsHome /\ DoneAt(Ahead)
      BY <1>3 DEF TreeInv, RefInv
    <2>2. WellFormed'
      BY <1>0, <1>3, <2>1, CallStep
    <2>. QED  BY <1>0, <1>3, <2>1, <2>2, FormattedRef DEF RefInv
  <1>. QED  BY <1>1, <1>2, <1>3

(* Which is a step of FileSystem where a file may keep a prefix.            *)
LEMMA SeenIsStep == Seen => [Truncating!Next]_(Truncating!vars)
  <1>1. Appears => Truncating!Create
    BY PrefixCreated DEF Appears
  <1>. QED  BY <1>1 DEF Seen, Truncating!Next, Truncating!vars

(* For every geometry, every set of names and contents and any number of power
   failures between the block writes of a call: write and delete are atomic.
   The record add_entry_to_dir writes last makes the new file or directory
   appear whole, with a prefix of its content when blocks ran out; the record
   remove_entry_from_dir takes out first makes it disappear; no other block
   write changes what a caller can see, and every error code has its reason.
   For orderly callers, as long as a new directory finds its block, and with a
   block nobody wrote read as zero-filled.                                  *)
THEOREM WriteAndDeleteAreAtomic ==
  ASSUME Orderly
  PROVE  Spec /\ []Roomy => ImplementsTruncatingFileSystem
  <1>1. Init => Inv /\ TreeInv /\ RefInv /\ Truncating!Init
    BY InitInv, TreeInit, RefInit DEF Inv
  <1>2. Inv /\ TreeInv /\ RefInv /\ Roomy /\ [Next]_vars =>
          (Inv /\ TreeInv /\ RefInv)' /\ [Truncating!Next]_(Truncating!vars)
    BY StepInv, TreeStep, RefStep, SeenIsStep
  <1>. QED  BY <1>1, <1>2, PTL DEF Spec, ImplementsTruncatingFileSystem, Truncating!Spec

(* Whatever is created and deleted: the first two records of a directory with
   a name are "." and "..", and lead to itself and to the directory that lists
   it.  add_entry_to_dir never splits ".", whose record is as short as it can
   be, and remove_entry_from_dir is never given a dot.                      *)
THEOREM DotsAlwaysLeadHome ==
  ASSUME Orderly
  PROVE  Spec /\ []Roomy => []DotsLeadHome
  <1>1. Init => Inv /\ TreeInv /\ RefInv
    BY InitInv, TreeInit, RefInit DEF Inv
  <1>2. Inv /\ TreeInv /\ RefInv /\ Roomy /\ [Next]_vars => (Inv /\ TreeInv /\ RefInv)'
    BY StepInv, TreeStep, RefStep
  <1>3. Inv /\ TreeInv /\ RefInv => DotsLeadHome
    <2>. SUFFICES ASSUME Inv, TreeInv, RefInv, NEW x \in NamedSlots, NEW i, i = EntryAt(x).inode,
                         EntryAt(x).type = "dir"
                  PROVE  /\ Len(DirEnts(i, 0)) >= 2
                         /\ DirEnts(i, 0)[1].name = "." /\ DirEnts(i, 0)[1].inode = i
                         /\ DirEnts(i, 0)[2].name = ".." /\ DirEnts(i, 0)[2].inode = x[1]
      BY DEF DotsLeadHome
    <2>0. TypeOK
      BY DEF Inv
    <2>1. ~Formatting
      BY <2>0, FormattingTree
    <2>2. WellFormed /\ DotsHome
      BY <2>1 DEF TreeInv, RefInv
    <2>3. PICK d \in LinkedDirs, p \in Direct, b \in Blocks : \E k \in DOMAIN Ents(b) :
            /\ d \in Inodes /\ x = <<d, <<p, k>>>>
            /\ b = inode_table[d].block[p] /\ b # 0
            /\ EntryAt(x) = Ents(b)[k] /\ Naming(Ents(b)[k])
      BY <2>0, SlotOf
    <2>4. PICK k \in DOMAIN Ents(b) :
            x = <<d, <<p, k>>>> /\ EntryAt(x) = Ents(b)[k] /\ Naming(Ents(b)[k])
      BY <2>3
    <2>5. PICK n : n = Ents(b)[k].name
      OBVIOUS
    <2>6. Lists(d, n, i, "dir")
      BY <2>3, <2>4, <2>5 DEF Lists
    <2>7. n \in Names /\ i \in Inodes
      BY <2>0, <2>2, <2>6, ListedType
    <2>8. DirOf(d) /\ d \in Inodes
      BY <2>0, <2>2, LinkedAreDirs
    <2>9. Dotted(i, d, DirEnts(i, 0))
      BY <2>2, <2>6, <2>7, <2>8 DEF DotsHome
    <2>. QED  BY <2>4, <2>9 DEF Dotted
  <1>. QED  BY <1>1, <1>2, <1>3, PTL DEF Spec

-----------------------------------------------------------------------------
(* A disk with room.                                                        *)

(* No file is longer than the pointers of an inode reach.                   *)
FilesFit == \A c \in Contents : Len(c) <= NDirect + NIndirect

(* Whenever a call asks for a block for what it writes there is one.        *)
Wanting == \/ pc = "dir"
           \/ pc = "direct" /\ fr.n < Len(fr.content) /\ fr.n < NDirect
           \/ pc = "indirect" /\ Len(fr.content) > NDirect
           \/ pc = "pointer" /\ fr.n < Len(fr.content) /\ fr.n - NDirect < NIndirect
Ample == Wanting => ~NoBlock

(* Then the loops over the direct and the indirect blocks end with the content,
   and a finished file holds all of it.                                     *)
WholeAt(l) ==
  /\ l = "indirect" => fr.n >= Len(fr.content) \/ fr.n >= NDirect
  /\ l = "write_table" => fr.n >= Len(fr.content)
  /\ l \in BuiltLabels /\ ~fr.dir => Filled(Len(fr.content))

WholeInv == fr.content \in Contents \cup {<<>>} /\ WholeAt(Ahead)

(* What WholeAt says of a place, once the step is known to lead there.      *)
LEMMA WholeNext ==
  ASSUME NEW l, Ahead' = l, WholeAt(l)'
  PROVE  WholeAt(Ahead)'
  BY DEF WholeAt

(* The places where there is nothing to say.                                *)
LEMMA WholeElsewhere ==
  ASSUME Ahead' \notin {"indirect", "write_table"} \cup BuiltLabels
  PROVE  WholeAt(Ahead)'
  <1>1. PICK l : l = Ahead' /\ l \notin {"indirect", "write_table"} \cup BuiltLabels
    OBVIOUS
  <1>2. WholeAt(l)'
    BY <1>1 DEF WholeAt
  <1>. QED  BY <1>1, <1>2, WholeNext

(* The content stored stays stored.                                         *)
LEMMA WholeKept ==
  ASSUME SameStored, Filled(Len(fr.content))
  PROVE  Filled(Len(fr.content))'
  <1>1. PICK m : m = Len(fr.content)
    OBVIOUS
  <1>2. Filled(m)'
    BY <1>1, StoredKept
  <1>3. Len(fr.content)' = m
    BY <1>1 DEF SameStored
  <1>. QED  BY <1>2, <1>3 DEF Filled

(* The loops of write.                                                      *)
LEMMA WholeLoops ==
  ASSUME TypeOK, TypeOK', WellFormed, CallGood, DoneAt(Ahead), WholeAt(Ahead), Ample,
         Len(fr.content) <= NDirect + NIndirect,
         \/ DirectBlock \/ IndirectBlock \/ PointerBlock \/ DirectoryBlock \/ WriteTable
         \/ GrowDirectory \/ WriteInode \/ GrowInode
  PROVE  WholeAt(Ahead)'
  <1>. USE DEF MakingLabels, FileLabels, MappedLabels, EarlyLabels, DirLabels,
               BuiltLabels, NamingLabels, PendingLabels
  <1>0. /\ fr.n \in Nat /\ Len(fr.content) \in Nat /\ NDirect \in Nat /\ NIndirect \in Nat
        /\ NDirect > 0
    BY FrameParts, LayoutFacts
  <1>1. CASE DirectBlock
    <2>1. pc = "direct"
      BY <1>1 DEF DirectBlock
    <2>2. CASE fr.n < Len(fr.content) /\ fr.n < NDirect
      <3>1. ~NoBlock /\ allocate_block("store_direct", "indirect")
        BY <1>1, <2>1, <2>2 DEF DirectBlock, Ample, Wanting
      <3>2. Ahead' = "store_direct"
        BY <3>1, TakeAhead DEF Meta
      <3>. QED  BY <3>2, WholeElsewhere
    <2>3. CASE ~(fr.n < Len(fr.content) /\ fr.n < NDirect)
      <3>1. pc' = "indirect" /\ fr' = fr
        BY <1>1, <2>3 DEF DirectBlock, Goto
      <3>2. Ahead' = "indirect"
        BY <3>1, AheadNext DEF Meta
      <3>3. WholeAt("indirect")'
        BY <1>0, <2>3, <3>1 DEF WholeAt
      <3>. QED  BY <3>2, <3>3, WholeNext
    <2>. QED  BY <2>2, <2>3
  <1>2. CASE IndirectBlock
    <2>1. pc = "indirect" /\ Ahead = "indirect"
      BY <1>2, AheadNext DEF IndirectBlock, Meta
    <2>2. CASE Len(fr.content) > NDirect
      <3>1. ~NoBlock /\ allocate_block("table", "inode")
        BY <1>2, <2>1, <2>2 DEF IndirectBlock, Ample, Wanting
      <3>2. Ahead' = "table"
        BY <3>1, TakeAhead DEF Meta
      <3>. QED  BY <3>2, WholeElsewhere
    <2>3. CASE ~(Len(fr.content) > NDirect)
      <3>1. pc' = "inode" /\ SameStored
        BY <1>2, <2>3 DEF IndirectBlock, Goto, SameStored, disk
      <3>2. Ahead' = "inode"
        BY <3>1, AheadNext DEF Meta
      <3>3. Filled(fr.n) /\ fr.n <= Len(fr.content)
        BY <2>1 DEF DoneAt, Filled
      <3>4. fr.n >= Len(fr.content)
        BY <1>0, <2>1, <2>3 DEF WholeAt
      <3>5. fr.n = Len(fr.content)
        BY <1>0, <3>3, <3>4
      <3>6. Filled(Len(fr.content))'
        BY <3>1, <3>3, <3>5, WholeKept
      <3>7. WholeAt("inode")'
        BY <3>6 DEF WholeAt
      <3>. QED  BY <3>2, <3>7, WholeNext
    <2>. QED  BY <2>2, <2>3
  <1>3. CASE PointerBlock
    <2>1. pc = "pointer"
      BY <1>3 DEF PointerBlock
    <2>2. CASE fr.n < Len(fr.content) /\ fr.n - NDirect < NIndirect
      <3>1. ~NoBlock /\ allocate_block("store_pointer", "write_table")
        BY <1>3, <2>1, <2>2 DEF PointerBlock, Ample, Wanting
      <3>2. Ahead' = "store_pointer"
        BY <3>1, TakeAhead DEF Meta
      <3>. QED  BY <3>2, WholeElsewhere
    <2>3. CASE ~(fr.n < Len(fr.content) /\ fr.n - NDirect < NIndirect)
      <3>1. pc' = "write_table" /\ fr' = fr
        BY <1>3, <2>3 DEF PointerBlock, Goto
      <3>2. Ahead' = "write_table"
        BY <3>1, AheadNext DEF Meta
      <3>3. fr.n >= Len(fr.content)
        BY <1>0, <2>3
      <3>4. WholeAt("write_table")'
        BY <3>1, <3>3 DEF WholeAt
      <3>. QED  BY <3>2, <3>4, WholeNext
    <2>. QED  BY <2>2, <2>3
  <1>4. CASE DirectoryBlock
    <2>1. pc = "dir" /\ allocate_block("dots", "inode") /\ ~NoBlock
      BY <1>4 DEF DirectoryBlock, Ample, Wanting
    <2>2. Ahead' = "dots"
      BY <2>1, TakeAhead DEF Meta
    <2>. QED  BY <2>2, WholeElsewhere
  <1>5. CASE WriteTable
    <2>1. pc = "write_table" /\ Ahead = "write_table" /\ Ahead' = "inode" /\ fr' = fr
      BY <1>5, AheadNext DEF WriteTable, Goto, Meta
    <2>2. Filled(fr.n) /\ fr.n <= Len(fr.content) /\ fr.n >= Len(fr.content)
      BY <2>1 DEF DoneAt, Filled, WholeAt
    <2>3. PICK m : m = fr.n
      OBVIOUS
    <2>4. m = Len(fr.content) /\ Filled(m)
      BY <1>0, <2>2, <2>3
    <2>5. Filled(m)'
      BY <1>5, <2>4, TableFilled
    <2>6. Filled(Len(fr.content))'
      BY <2>1, <2>4, <2>5 DEF Filled
    <2>7. WholeAt("inode")'
      BY <2>6 DEF WholeAt
    <2>. QED  BY <2>1, <2>7, WholeNext
  <1>6. CASE GrowDirectory \/ WriteInode \/ GrowInode
    <2>1. SameStored /\ Ahead \in BuiltLabels /\ Ahead' \in BuiltLabels
      <3>1. CASE GrowDirectory
        <4>1. pc = "add_entry" /\ allocate_block("grow", "no_entry")
          BY <3>1 DEF GrowDirectory
        <4>2. Ahead' \in {"grow", "no_entry"} /\ SameStored
          BY <4>1, TakeAhead, TakeStored DEF Meta
        <4>. QED  BY <4>1, <4>2, AheadNext DEF Meta
      <3>2. CASE WriteInode \/ GrowInode
        BY <3>2, AheadNext DEF WriteInode, GrowInode, Goto, Meta, SameStored
      <3>. QED  BY <1>6, <3>1, <3>2
    <2>2. PICK l, m : l = Ahead /\ m = Ahead'
      OBVIOUS
    <2>3. WholeAt(l) /\ l \in BuiltLabels /\ m \in BuiltLabels /\ fr'.dir = fr.dir
      BY <2>1, <2>2 DEF SameStored
    <2>4. ~fr.dir => Filled(Len(fr.content))'
      BY <2>1, <2>3, WholeKept DEF WholeAt
    <2>5. WholeAt(m)'
      BY <2>3, <2>4 DEF WholeAt
    <2>. QED  BY <2>2, <2>5, WholeNext
  <1>. QED  BY <1>1, <1>2, <1>3, <1>4, <1>5, <1>6

(* The steps that leave the locals and the blocks alone.                    *)
LEMMA WholeSame ==
  ASSUME WholeInv, fr' = fr, SameStored, Ahead' = Ahead
  PROVE  WholeInv'
  <1>1. PICK l : l = Ahead
    OBVIOUS
  <1>2. WholeAt(l)
    BY <1>1 DEF WholeInv
  <1>3. Filled(Len(fr.content)) => Filled(Len(fr.content))'
    BY WholeKept
  <1>4. WholeAt(l)'
    BY <1>2, <1>3 DEF WholeAt
  <1>5. WholeAt(Ahead)'
    BY <1>1, <1>4, WholeNext
  <1>. QED  BY <1>5 DEF WholeInv

(* A call returns, is made or ends in a power failure, or the disk is
   formatted.                                                               *)
LEMMA WholeOutside ==
  ASSUME WholeInv,
         \/ WriteRefused \/ NoEntry \/ DeleteRefused \/ DeleteDone \/ AddEntry \/ GrowBlock
         \/ CallWrite \/ CallDelete \/ Crash \/ Boot \/ Mkfs
  PROVE  WholeInv'
  <1>. USE DEF MkfsLabels, BitmapLabels, TableLabels, RootLabels, RootDirLabels
  <1>1. fr'.content \in Contents \cup {<<>>} /\ pc' \in {"idle", "off", "write", "delete"} \cup MkfsLabels
    <2>1. CASE \/ WriteRefused \/ NoEntry \/ DeleteRefused \/ DeleteDone \/ AddEntry \/ GrowBlock
               \/ Crash
      <3>1. fr' = NoFrame /\ pc' \in {"idle", "off"}
        <4>1. CASE WriteRefused
          BY <4>1 DEF WriteRefused, Return
        <4>2. CASE DeleteRefused
          BY <4>2 DEF DeleteRefused, Return
        <4>3. CASE NoEntry \/ DeleteDone \/ AddEntry \/ GrowBlock \/ Crash
          BY <4>3 DEF NoEntry, DeleteDone, AddEntry, GrowBlock, Return, Crash
        <4>. QED  BY <2>1, <4>1, <4>2, <4>3
      <3>. QED  BY <3>1 DEF NoFrame
    <2>2. CASE CallWrite \/ CallDelete
      <3>1. PICK op \in {"write", "delete"}, q \in LinkedDirs \cup {0},
                 m \in Names \cup DeleteNames, dir \in BOOLEAN, c \in Contents \cup {<<>>} :
              Call(Request(op, q, m, dir, c))
        <4>1. CASE CallWrite
          <5>1. PICK q \in LinkedDirs \cup {0}, m \in Names :
                  \/ "file" \in Kinds /\ \E c \in Contents : Call(Request("write", q, m, FALSE, c))
                  \/ "dir" \in Kinds /\ Call(Request("write", q, m, TRUE, <<>>))
            BY <4>1 DEF CallWrite
          <5>. QED  BY <5>1
        <4>2. CASE CallDelete
          <5>1. PICK q \in LinkedDirs \cup {0}, m \in DeleteNames, dir \in BOOLEAN :
                  Call(Request("delete", q, m, dir, <<>>))
            BY <4>2 DEF CallDelete
          <5>. QED  BY <5>1
        <4>. QED  BY <2>2, <4>1, <4>2
      <3>2. PICK f : f = Request(op, q, m, dir, c)
        OBVIOUS
      <3>3. f.op = op /\ f.content = c
        BY <3>2 DEF Request, NoFrame
      <3>. QED  BY <3>1, <3>2, <3>3 DEF Call
    <2>3. CASE Boot \/ Mkfs
      <3>1. fr' = fr /\ pc' \in {"idle"} \cup MkfsLabels
        BY <2>3 DEF Boot, Mkfs, MkfsSuperblock, MkfsBgdt, MkfsBlockBitmap, MkfsInodeBitmap,
           MkfsTable, MkfsRoot, MkfsRootDir, Goto
      <3>. QED  BY <3>1 DEF WholeInv
    <2>. QED  BY <2>1, <2>2, <2>3
  <1>2. Ahead' \in {"idle", "off", "write", "delete"} \cup MkfsLabels
    BY <1>1, AheadNext DEF Meta
  <1>3. WholeAt(Ahead)'
    BY <1>2, WholeElsewhere DEF BuiltLabels, NamingLabels
  <1>. QED  BY <1>1, <1>3 DEF WholeInv

(* The steps inside a call.                                                 *)
LEMMA WholeInCall ==
  ASSUME FilesFit, TypeOK, TypeOK', WellFormed, CallGood, DoneAt(Ahead), WholeInv, Ample, InCall
  PROVE  WholeInv'
  <1>. USE DEF MakingLabels, FileLabels, MappedLabels, EarlyLabels, DirLabels,
               BuiltLabels, NamingLabels, PendingLabels
  <1>0. KeepsCall /\ fr \in Frame
    BY InCallKeeps DEF TypeOK
  <1>1. fr'.content = fr.content /\ fr.content \in Contents \cup {<<>>}
    BY <1>0 DEF KeepsCall, WholeInv
  <1>2. Len(fr.content) <= NDirect + NIndirect
    BY <1>1, LayoutFacts DEF FilesFit
  <1>3. CASE WriteSuperblock \/ WriteBgdt
    BY <1>3, MetaSame, WholeSame
  <1>4. CASE \/ DirectBlock \/ IndirectBlock \/ PointerBlock \/ DirectoryBlock \/ WriteTable
             \/ GrowDirectory \/ WriteInode \/ GrowInode
    <2>1. WholeAt(Ahead)'
      BY <1>2, <1>4, WholeLoops DEF WholeInv
    <2>. QED  BY <1>1, <2>1 DEF WholeInv
  <1>5. CASE AllocateNode \/ StoreDirect \/ IndirectTable \/ StorePointer
    <2>1. Ahead' \in {"dir", "direct", "pointer"}
      <3>1. CASE AllocateNode
        <4>1. fr'.back \in {"dir", "direct"}
          BY <3>1, NodeTaken
        <4>2. pc' = "superblock"
          BY <3>1, Zenon DEF AllocateNode, Goto
        <4>. QED  BY <4>1, <4>2, AheadNext DEF Meta
      <3>2. CASE StoreDirect \/ IndirectTable \/ StorePointer
        BY <3>2, AheadNext DEF StoreDirect, IndirectTable, StorePointer, Goto, Meta
      <3>. QED  BY <1>5, <3>1, <3>2
    <2>. QED  BY <1>1, <2>1, WholeElsewhere DEF WholeInv
  <1>6. CASE WriteDots
    <2>1. pc = "dots" /\ pc' = "inode"
      BY <1>6 DEF WriteDots, Goto
    <2>2. fr.dir /\ fr'.dir
      BY <1>0, <2>1, GoodHere DEF GoodAt, Meta, KeepsCall
    <2>3. Ahead' = "inode" /\ WholeAt("inode")'
      BY <2>1, <2>2, AheadNext DEF Meta, WholeAt
    <2>4. WholeAt(Ahead)'
      BY <2>3, WholeNext
    <2>. QED  BY <1>1, <2>4 DEF WholeInv
  <1>7. CASE Unlink \/ FreeBlock \/ ClearInode \/ ClearNode
    <2>1. Ahead' \in DeletingLabels
      BY <1>7, DeleteStages DEF Deleting
    <2>. QED  BY <1>1, <2>1, WholeElsewhere DEF WholeInv, DeletingLabels
  <1>. QED  BY <1>3, <1>4, <1>5, <1>6, <1>7 DEF InCall

(* Every step keeps the invariant.                                          *)
LEMMA WholeStep ==
  ASSUME FilesFit, Inv, Inv', TreeInv, RefInv, WholeInv, Ample, [Next]_vars
  PROVE  WholeInv'
  <1>0. TypeOK /\ TypeOK'
    BY DEF Inv
  <1>1. CASE UNCHANGED vars
    <2>1. UNCHANGED <<blk, pc, fr>>
      BY <1>1 DEF vars, disk
    <2>2. fr' = fr /\ SameStored /\ Ahead' = Ahead
      BY <2>1 DEF SameStored, Ahead
    <2>. QED  BY <2>2, WholeSame
  <1>2. CASE InCall
    <2>1. ~Formatting
      <3>1. Write \/ Delete \/ WriteSuperblock \/ WriteBgdt
        BY <1>2 DEF InCall, Write, Delete
      <3>. QED  BY <1>0, <3>1, NotFormatting DEF Formatting
    <2>2. WellFormed /\ CallGood /\ DoneAt(Ahead)
      BY <2>1 DEF TreeInv, RefInv
    <2>. QED  BY <1>0, <1>2, <2>2, WholeInCall
  <1>3. CASE Next /\ ~InCall
    BY <1>3, WholeOutside DEF Next, Step, Write, Delete, InCall
  <1>. QED  BY <1>1, <1>2, <1>3

(* A name that appears has all of its content.                              *)
LEMMA WholeCreated ==
  ASSUME FilesFit, TypeOK, WholeInv, Appears, OpAt(Ahead)
  PROVE  Exact!Create
  <1>1. PICK s : Creates(s) /\ Holding(s)
    BY DEF Appears
  <1>2. CallInProgress.data = fr.content
    BY CallFields DEF Appears
  <1>3. PICK m \in 0 .. Len(fr.content) :
          /\ s = SubSeq(fr.content, 1, m)
          /\ ~fr.dir => Filled(m) /\ m <= NDirect + NIndirect
    BY <1>1 DEF Holding
  <1>4. /\ Len(fr.content) \in Nat /\ fr.content \in Seq(Chunks)
        /\ NDirect \in Nat /\ NIndirect \in Nat /\ m \in Nat
    BY FrameParts, LayoutFacts
  <1>5. m = Len(fr.content)
    <2>1. CASE fr.dir
      BY <1>3, <2>1 DEF OpAt
    <2>2. CASE ~fr.dir
      <3>1. Filled(m) /\ Filled(Len(fr.content))
        BY <1>3, <2>2 DEF WholeInv, WholeAt, Appears, BuiltLabels
      <3>2. Len(fr.content) <= NDirect + NIndirect
        BY <1>4 DEF WholeInv, FilesFit
      <3>3. ASSUME m < Len(fr.content) PROVE FALSE
        <4>1. m \in 0 .. NDirect + NIndirect - 1
          BY <1>4, <3>2, <3>3
        <4>. QED  BY <1>4, <3>1, <3>3, <4>1 DEF Filled
      <3>. QED  BY <1>3, <1>4, <3>3
    <2>. QED  BY <2>1, <2>2
  <1>6. s = fr.content
    BY <1>3, <1>4, <1>5
  <1>7. s \in Exact!Stored(CallInProgress.data)
    BY <1>2, <1>6 DEF Exact!Stored
  <1>. QED  BY <1>1, <1>7 DEF Creates, Exact!Create, Exact!NoCall, Truncating!NoCall, Exact!Dirs,
               Truncating!Dirs, Exact!Named, Truncating!Named, Exact!End, Truncating!End

(* A step of FileSystem where every file keeps what was written.            *)
LEMMA SeenIsExact ==
  ASSUME FilesFit, TypeOK, WholeInv, OpAt(Ahead), Seen
  PROVE  [Exact!Next]_(Exact!vars)
  <1>1. CASE Appears
    BY <1>1, WholeCreated DEF Exact!Next
  <1>2. CASE Truncating!Begin
    <2>1. Exact!Begin
      BY <1>2 DEF Truncating!Begin, Exact!Begin, Truncating!NoCall, Exact!NoCall, Truncating!Calls,
         Exact!Calls, Truncating!Dirs, Exact!Dirs, Truncating!NoCode, Exact!NoCode
    <2>. QED  BY <2>1 DEF Exact!Next
  <1>3. CASE Truncating!Remove
    <2>1. Exact!Remove
      BY <1>3 DEF Truncating!Remove, Exact!Remove, Truncating!NoCall, Exact!NoCall,
         Truncating!Named, Exact!Named, Truncating!Children, Exact!Children
    <2>. QED  BY <2>1 DEF Exact!Next
  <1>4. CASE Truncating!Removed
    <2>1. Exact!Removed
      BY <1>4 DEF Truncating!Removed, Exact!Removed, Truncating!End, Exact!End,
         Truncating!NoCall, Exact!NoCall
    <2>. QED  BY <2>1 DEF Exact!Next
  <1>5. CASE Truncating!Refuse
    <2>1. \A code : Truncating!Reason(code) => Exact!Reason(code)
      BY DEF Truncating!Reason, Exact!Reason, Truncating!Named, Exact!Named,
             Truncating!Children, Exact!Children
    <2>2. Exact!Refuse
      BY <1>5, <2>1 DEF Truncating!Refuse, Exact!Refuse, Truncating!End, Exact!End,
         Truncating!NoCall, Exact!NoCall
    <2>. QED  BY <2>2 DEF Exact!Next
  <1>6. CASE Truncating!PowerFailure
    <2>1. Exact!PowerFailure
      BY <1>6 DEF Truncating!PowerFailure, Exact!PowerFailure, Truncating!End, Exact!End,
         Truncating!NoCall, Exact!NoCall, Truncating!NoCode, Exact!NoCode
    <2>. QED  BY <2>1 DEF Exact!Next
  <1>7. CASE UNCHANGED <<Tree, CallInProgress, Effective, ret>>
    BY <1>7 DEF Exact!vars
  <1>. QED  BY <1>1, <1>2, <1>3, <1>4, <1>5, <1>6, <1>7 DEF Seen

(* Before the machine is started there is nothing to say.                   *)
LEMMA WholeInit == Init /\ Truncating!Init => WholeInv /\ Exact!Init
  <1>. SUFFICES ASSUME Init, Truncating!Init PROVE WholeInv /\ Exact!Init
    OBVIOUS
  <1>1. pc = "off" /\ Ahead = "off" /\ fr.content = <<>>
    BY AheadNext DEF Init, Meta, NoFrame
  <1>2. WholeInv
    BY <1>1 DEF WholeInv, WholeAt, BuiltLabels, NamingLabels
  <1>. QED  BY <1>2 DEF Truncating!Init, Exact!Init, Truncating!NoCall, Exact!NoCall,
               Truncating!NoCode, Exact!NoCode

(* For every geometry, every set of names and any number of power failures, as
   long as the disk has room and no file is longer than an inode can point at:
   a file that has got its name holds exactly what the caller wrote, over the
   direct blocks and the indirect ones, and write and delete are atomic.    *)
THEOREM WrittenFilesAreWhole ==
  ASSUME Orderly, FilesFit
  PROVE  Spec /\ []Ample => ImplementsFileSystem
  <1>1. Init => Inv /\ TreeInv /\ RefInv /\ WholeInv /\ Exact!Init
    BY InitInv, TreeInit, RefInit, WholeInit DEF Inv
  <1>2. Inv /\ TreeInv /\ RefInv /\ WholeInv /\ Ample /\ [Next]_vars =>
          (Inv /\ TreeInv /\ RefInv /\ WholeInv)' /\ [Exact!Next]_(Exact!vars)
    <2>. SUFFICES ASSUME Inv, TreeInv, RefInv, WholeInv, Ample, [Next]_vars
                  PROVE  (Inv /\ TreeInv /\ RefInv /\ WholeInv)' /\ [Exact!Next]_(Exact!vars)
      OBVIOUS
    <2>1. Roomy
      BY DEF Ample, Wanting, Roomy
    <2>2. Inv' /\ TreeInv'
      BY StepInv, TreeStep
    <2>3. RefInv' /\ Seen
      BY <2>1, <2>2, RefStep
    <2>4. WholeInv'
      BY <2>2, WholeStep
    <2>5. TypeOK /\ OpAt(Ahead)
      BY DEF Inv, RefInv
    <2>. QED  BY <2>2, <2>3, <2>4, <2>5, SeenIsExact
  <1>. QED  BY <1>1, <1>2, PTL DEF Spec, ImplementsFileSystem, Exact!Spec

-----------------------------------------------------------------------------
(* What is marked used is in use.                                           *)

(* The entry of a new name always finds a place: add_entry_to_dir never gives up
   with the inode and its blocks already taken.                             *)
Placed ==
  /\ pc # "no_entry"
  /\ pc = "add_entry" /\ Rooms(fr.parent, fr.name) = {} =>
       DirBlocks(fr.parent) # 0 .. NDirect - 1

(* Every inode with a name can be reached: a directory that can be reached
   lists it.                                                                *)
Reached(i) == \E d \in LinkedDirs, n \in Names, t \in {"file", "dir"} : Lists(d, n, i, t)
AllReached == \A i \in Inodes : IsNamed(i) => i = ROOT_INODE_NO \/ Reached(i)

(* The inode of the call in progress is marked and has no name, yet or any more. *)
BusyLabels == MakingLabels \cup {"free", "clear_node"}

(* The reserved inodes stay, and so does the block of the root.             *)
Reserved(l) ==
  /\ FreshInodeBitmap \subseteq inode_bitmap
  /\ inode_table[ROOT_INODE_NO].block[0] = ROOT_DIR_BLOCK_LBA
  /\ \A i \in FreshInodeBitmap : IsNamed(i) => i = ROOT_INODE_NO
  /\ l \in BusyLabels => fr.inum \notin FreshInodeBitmap

(* Every inode marked used is reserved, has a name, or is the call's.       *)
Taken(l, i) == l \in BusyLabels /\ i = fr.inum
InodesMarked(l) ==
  \A i \in inode_bitmap : i \in FreshInodeBitmap \/ IsNamed(i) \/ Taken(l, i)

(* Every block marked used is reserved, belongs to something with a name, or is
   the call's: the inode being made has it or is about to have it, or delete
   still has it to free.                                                    *)
Claimed(l, b) ==
  \/ l \in MakingLabels /\ \E j \in Positions : Held(j) = b
  \/ l \in PendingLabels /\ fr.got = b
  \/ l = "free" /\ \E n \in DOMAIN fr.todo : fr.todo[n] = b
BlocksMarked(l) ==
  \A b \in block_bitmap : b \in FreshBlockBitmap \/ Owned(b) \/ Claimed(l, b)

(* The inductive invariant.                                                 *)
MarkedAt(l) ==
  /\ Reserved(l) /\ InodesMarked(l) /\ BlocksMarked(l)
  /\ l \in MakingLabels /\ fr.dir => fr.ptr = NoPointers

MarkInv == Formatting \/ crashes > 0 \/ (AllReached /\ MarkedAt(Ahead))

(* What is marked stays accounted for while names, owners and the call do.  *)
Kept == /\ AllReached' /\ \A i : IsNamed(i)' <=> IsNamed(i)
        /\ \A b : b # 0 /\ Owned(b) => Owned(b)'
        /\ inode_table'[ROOT_INODE_NO].block[0] = inode_table[ROOT_INODE_NO].block[0]

(* An inode that stays listed stays reached.                                *)
LEMMA StaysReached ==
  ASSUME NEW i, Reached(i), LinkedDirs \subseteq LinkedDirs',
         \A d \in LinkedDirs : \A n, t : Lists(d, n, i, t) => Lists(d, n, i, t)'
  PROVE  Reached(i)'
  <1>1. PICK d \in LinkedDirs, n \in Names, t \in {"file", "dir"} : Lists(d, n, i, t)
    BY DEF Reached
  <1>. QED  BY <1>1 DEF Reached

(* And what is reached has a name.                                          *)
ReachesNamed == \A i : Reached(i) => i \in Inodes /\ IsNamed(i)

(* In any state of a tree.                                                  *)
LEMMA ReachedNamed == TypeOK /\ WellFormed => ReachesNamed
  <1>. SUFFICES ASSUME TypeOK, WellFormed, NEW i, Reached(i) PROVE i \in Inodes /\ IsNamed(i)
    BY DEF ReachesNamed
  <1>1. PICK d \in LinkedDirs, n \in Names, t \in {"file", "dir"} : Lists(d, n, i, t)
    BY DEF Reached
  <1>. QED  BY <1>1, ListedType

(* And so after a step.                                                     *)
LEMMA ReachedNamedNext ==
  ASSUME TypeOK', WellFormed'
  PROVE  ReachesNamed'
  <1>1. (TypeOK /\ WellFormed => ReachesNamed)'
    BY ReachedNamed, PTL
  <1>. QED  BY <1>1

(* A named inode is one of the inodes.                                      *)
LEMMA NamedType ==
  ASSUME TypeOK, NEW i, IsNamed(i)
  PROVE  i \in Inodes
  BY NamingType, LayoutFacts DEF IsNamed

(* A step that changes nothing that has a name.                             *)
LEMMA QuietMarks ==
  ASSUME TypeOK, TypeOK', WellFormed, WellFormed', Quiet, \A i : IsNamed(i)' => IsNamed(i),
         AllReached
  PROVE  Kept
  <1>1. LinkedDirs' = LinkedDirs
    BY QuietKept
  <1>2. \A d \in LinkedDirs : d \in Inodes /\ IsNamed(d)
    BY LinkedAreDirs DEF DirOf
  <1>3. \A i : Reached(i) => Reached(i)'
    BY <1>1, <1>2, QuietLists, StaysReached
  <1>4. AllReached'
    BY <1>3 DEF AllReached
  <1>5. \A i : IsNamed(i)' <=> IsNamed(i)
    <2>1. ASSUME NEW i, IsNamed(i) PROVE IsNamed(i)'
      <3>1. CASE i = ROOT_INODE_NO
        BY <3>1 DEF IsNamed
      <3>2. CASE i # ROOT_INODE_NO
        BY <1>3, <2>1, <3>2, NamedType, ReachedNamedNext DEF AllReached, ReachesNamed
      <3>. QED  BY <3>1, <3>2
    <2>. QED  BY <2>1
  <1>6. ASSUME NEW b, Owned(b) PROVE Owned(b)'
    <2>1. PICK i \in Inodes : IsNamed(i) /\ \E j \in Positions : PtrAt(i, j) = b
      BY <1>6 DEF Owned
    <2>2. inode_table'[i] = inode_table[i] /\ \A c \in Blocks :
            c = 0 \/ (\E j \in Positions : PtrAt(i, j) = c) => blk'[c] = blk[c]
      BY <2>1 DEF Quiet, Owned
    <2>3. \A j \in Positions : PtrAt(i, j)' = PtrAt(i, j)
      BY <2>2, ReadSame
    <2>. QED  BY <1>5, <2>1, <2>3 DEF Owned
  <1>7. inode_table'[ROOT_INODE_NO] = inode_table[ROOT_INODE_NO]
    BY LayoutFacts DEF Quiet, IsNamed
  <1>. QED  BY <1>4, <1>5, <1>6, <1>7 DEF Kept

(* A directory that grows keeps the pointers it had.                        *)
LEMMA GrowMarks ==
  ASSUME TypeOK, TypeOK', WellFormed, WellFormed', CallGood, DotsHome, GrowInode, AllReached,
         NEW g, g = fr.got
  PROVE  Kept /\ Owned(g)'
  <1>1. PICK q : q = fr.parent
    OBVIOUS
  <1>2. PICK c \in Direct :
          /\ inode_table[q].block[c] = 0
          /\ \A d \in Inodes, p \in 0 .. NDirect :
               inode_table'[d].block[p] = IF d = q /\ p = c THEN g ELSE inode_table[d].block[p]
    BY <1>1, GrowMap
  <1>3. UNCHANGED blk /\ q \in Inodes /\ DirOf(q)
    BY <1>1, GrowMap
  <1>4. LinkedDirs' = LinkedDirs /\ \A i : IsNamed(i)' <=> IsNamed(i)
    BY GrowQuiet, GrowInodeTree
  <1>5. \A d \in LinkedDirs : d \in Inodes
    BY LinkedAreDirs
  <1>6. AllReached'
    <2>1. \A i : Reached(i) => Reached(i)'
      BY <1>4, <1>5, GrowLists, StaysReached
    <2>. QED  BY <1>4, <2>1 DEF AllReached
  <1>7. ASSUME NEW i \in Inodes, NEW j \in Positions, PtrAt(i, j) # 0
        PROVE  PtrAt(i, j)' = PtrAt(i, j)
    <2>1. inode_table'[i].block[NDirect] = inode_table[i].block[NDirect]
      BY <1>2, LayoutFacts DEF Direct
    <2>2. CASE j <= NDirect
      <3>1. j \in 0 .. NDirect /\ inode_table[i].block[j] # 0
        BY <1>7, <2>2, LayoutFacts DEF Positions, PtrAt
      <3>2. inode_table'[i].block[j] = inode_table[i].block[j]
        BY <1>2, <3>1
      <3>. QED  BY <2>2, <3>2 DEF PtrAt
    <2>3. CASE ~(j <= NDirect)
      BY <1>3, <2>1, <2>3 DEF PtrAt
    <2>. QED  BY <2>2, <2>3
  <1>8. \A b : b # 0 /\ Owned(b) => Owned(b)'
    BY <1>4, <1>7 DEF Owned
  <1>9. Owned(g)'
    <2>1. c \in Positions /\ c <= NDirect /\ c \in 0 .. NDirect
      BY LayoutFacts DEF Direct, Positions
    <2>2. PtrAt(q, c)' = g
      BY <1>2, <1>3, <2>1 DEF PtrAt
    <2>3. IsNamed(q)'
      BY <1>3, <1>4 DEF DirOf
    <2>. QED  BY <1>3, <2>1, <2>2, <2>3 DEF Owned
  <1>10. inode_table'[ROOT_INODE_NO].block[0] = inode_table[ROOT_INODE_NO].block[0]
    <2>1. q = ROOT_INODE_NO => inode_table[q].block[0] # 0
      BY <1>3 DEF DotsHome
    <2>. QED  BY <1>2, <2>1, LayoutFacts
  <1>. QED  BY <1>4, <1>6, <1>8, <1>9, <1>10 DEF Kept

(* The new inode on the disk points at every block write has taken for it.  *)
LEMMA HeldMapped ==
  ASSUME TypeOK, Built, inode_table[fr.inum] = fr.node,
         IF fr.dir THEN fr.ptr = NoPointers ELSE PrefixStored,
         NEW l \in Positions, Held(l) # 0
  PROVE  PtrAt(fr.inum, l) = Held(l)
  <1>1. CASE l <= NDirect \/ fr.node.block[NDirect] # 0
    BY <1>1, NewPtr
  <1>2. CASE ~(l <= NDirect) /\ fr.node.block[NDirect] = 0
    <2>1. l - 1 \in 0 .. NDirect + NIndirect - 1 /\ l - 1 >= NDirect /\ DataAt(l - 1) = l
      BY <1>2, LayoutFacts DEF Positions, DataAt
    <2>2. CASE fr.dir
      <3>1. Held(l) = NoPointers[l - NDirect - 1] /\ l - NDirect - 1 \in 0 .. NIndirect - 1
        BY <1>2, <2>2, LayoutFacts DEF Held, Positions
      <3>. QED  BY <3>1 DEF NoPointers
    <2>3. CASE ~fr.dir
      <3>1. PICK m \in 0 .. NDirect + NIndirect : Filled(m) /\ ~(m > NDirect)
        BY <1>2, <2>3 DEF PrefixStored
      <3>2. Held(DataAt(l - 1)) = 0
        BY <2>1, <3>1, LayoutFacts DEF Filled
      <3>. QED  BY <2>1, <3>2
    <2>. QED  BY <2>2, <2>3
  <1>. QED  BY <1>1, <1>2

(* add_entry_to_dir: the inode that gets its name is reached, and its blocks are
   owned.                                                                   *)
LEMMA NewMarks ==
  ASSUME Orderly, TypeOK, TypeOK', WellFormed, WellFormed', CallGood, DoneAt(Ahead), AllReached,
         fr.dir => fr.ptr = NoPointers, AddEntry \/ GrowBlock, NEW j, j = fr.inum
  PROVE  /\ AllReached' /\ inode_table' = inode_table
         /\ \A i : IsNamed(i)' <=> IsNamed(i) \/ i = j
         /\ \A b : b # 0 /\ (Owned(b) \/ \E l \in Positions : Held(l) = b) => Owned(b)'
  <1>. USE DEF MakingLabels, FileLabels, MappedLabels, EarlyLabels, DirLabels,
               BuiltLabels, NamingLabels
  <1>1. PICK q, m, u : q = fr.parent /\ m = fr.name /\ u = FrType
    OBVIOUS
  <1>2. PICK p0, x : NewName(q, m, j, u, p0, x)
    BY <1>1, EntryNamed
  <1>3. Ahead \in NamingLabels
    BY AheadNext DEF AddEntry, GrowBlock, Meta
  <1>4. q \in Inodes /\ q \in LinkedDirs /\ m \in Names /\ u \in {"file", "dir"}
    <2>1. MakingNode
      BY <1>2 DEF NewName
    <2>2. q \in Inodes /\ m \in Names
      BY <1>1, <2>1 DEF MakingNode, ParentGood
    <2>3. q # 0
      BY <2>2 DEF Inodes
    <2>. QED  BY <1>1, <1>3, <2>2, <2>3 DEF DoneAt, FrType
  <1>5. LinkedDirs \subseteq LinkedDirs'
    BY <1>2, <1>4, NewTree
  <1>6. \A d \in LinkedDirs : d \in Inodes /\ IsNamed(d)
    BY LinkedAreDirs DEF DirOf
  <1>7. \A d \in LinkedDirs : \A n, i, t :
          Lists(d, n, i, t)' <=> Lists(d, n, i, t) \/ (d = q /\ n = m /\ i = j /\ t = u)
    BY <1>2, <1>6, NewLists
  <1>8. \A i : Reached(i) => Reached(i)'
    BY <1>5, <1>7, StaysReached
  <1>9. Reached(j)'
    BY <1>4, <1>5, <1>7 DEF Reached
  <1>10. inode_table' = inode_table /\ \A i : IsNamed(i)' => IsNamed(i) \/ i = j
    BY <1>2 DEF NewName, DirWrite
  <1>11. AllReached'
    BY <1>8, <1>9, <1>10 DEF AllReached
  <1>12. \A i : IsNamed(i)' <=> IsNamed(i) \/ i = j
    <2>1. ReachesNamed'
      BY ReachedNamedNext
    <2>2. IsNamed(ROOT_INODE_NO)'
      BY DEF IsNamed
    <2>. QED  BY <1>8, <1>9, <1>10, <2>1, <2>2, NamedType DEF AllReached, ReachesNamed
  <1>13. OneMoreMap
    BY AddEntryTree, GrowBlockTree
  <1>14. ASSUME NEW b, Owned(b) PROVE Owned(b)'
    <2>1. PICK i \in Inodes, l \in Positions : IsNamed(i) /\ PtrAt(i, l) = b
      BY <1>14 DEF Owned
    <2>2. IsNamed(i)' /\ PtrAt(i, l)' = b
      BY <1>12, <1>13, <2>1 DEF OneMoreMap
    <2>. QED  BY <2>2 DEF Owned
  <1>15. ASSUME NEW b, b # 0, NEW l \in Positions, Held(l) = b PROVE Owned(b)'
    <2>1. Built /\ inode_table[j] = fr.node
      BY <1>2 DEF NewName
    <2>2. IF fr.dir THEN fr.ptr = NoPointers ELSE PrefixStored
      BY <1>3 DEF DoneAt
    <2>3. PtrAt(j, l) = b
      BY <1>15, <2>1, <2>2, HeldMapped
    <2>4. j \in Inodes
      BY <1>2, NewKept
    <2>5. IsNamed(j)' /\ PtrAt(j, l)' = b
      BY <1>12, <1>13, <2>3, <2>4 DEF OneMoreMap
    <2>. QED  BY <2>4, <2>5 DEF Owned
  <1>. QED  BY <1>10, <1>11, <1>12, <1>14, <1>15

(* deallocate_node misses no block the inode points at.                     *)
LEMMA MapInBlocks ==
  ASSUME TypeOK, NEW i \in Inodes, NEW p \in Positions, PtrAt(i, p) # 0
  PROVE  \E n \in DOMAIN BlocksOf(inode_table[i]) : BlocksOf(inode_table[i])[n] = PtrAt(i, p)
  <1>. DEFINE node == inode_table[i]
              ind == node.block[NDirect]
              ptr == IF blk[ind].kind = "table" THEN blk[ind].ptr ELSE NoPointers
              a == [m \in 1 .. NDirect |-> node.block[m - 1]]
              b == [m \in 1 .. NIndirect |-> ptr[m - 1]]
              c == IF ind = 0 THEN <<>> ELSE b \o <<ind>>
  <1>1. node.block \in [0 .. NDirect -> Blocks] /\ NDirect \in Nat /\ NIndirect \in Nat
    BY DiskParts, LayoutFacts
  <1>2. ind \in Blocks
    BY <1>1
  <1>3. ptr \in [0 .. NIndirect - 1 -> Blocks]
    <2>1. blk[ind] \in Content
      BY <1>2 DEF TypeOK
    <2>2. NoPointers \in [0 .. NIndirect - 1 -> Blocks]
      BY LayoutFacts DEF NoPointers
    <2>. HIDE DEF ind
    <2>. QED  BY <2>1, <2>2, ContentParts
  <1>4. BlocksOf(node) = a \o c
    BY DEF BlocksOf
  <1>5. PtrAt(i, p) = IF p <= NDirect THEN node.block[p]
                      ELSE IF ind # 0 THEN ptr[p - NDirect - 1] ELSE 0
    <2>1. p > NDirect => p - NDirect - 1 \in 0 .. NIndirect - 1
      BY <1>1 DEF Positions
    <2>. QED  BY <1>1, <2>1 DEF PtrAt, NoPointers, Positions
  <1>. HIDE DEF ptr, ind, node
  <1>6. a \in Seq(Blocks) /\ Len(a) = NDirect /\ \A m \in 1 .. NDirect : a[m] = node.block[m - 1]
    <2>1. \A m \in 1 .. NDirect : node.block[m - 1] \in Blocks
      BY <1>1
    <2>. QED  BY <1>1, <2>1, IsASeq
  <1>7. b \in Seq(Blocks) /\ Len(b) = NIndirect /\ \A m \in 1 .. NIndirect : b[m] = ptr[m - 1]
    BY <1>1, <1>3, IsASeq
  <1>. HIDE DEF a, b
  <1>8. /\ c \in Seq(Blocks)
        /\ ind # 0 => /\ Len(c) = NIndirect + 1 /\ c[NIndirect + 1] = ind
                      /\ \A m \in 1 .. NIndirect : c[m] = b[m]
    <2>1. <<ind>> \in Seq(Blocks) /\ Len(<<ind>>) = 1 /\ <<ind>>[1] = ind
      BY <1>2
    <2>2. /\ b \o <<ind>> \in Seq(Blocks) /\ Len(b \o <<ind>>) = NIndirect + 1
          /\ \A m \in 1 .. NIndirect + 1 :
               (b \o <<ind>>)[m] = IF m <= NIndirect THEN b[m] ELSE <<ind>>[m - NIndirect]
      BY <1>7, <2>1, ConcatProperties
    <2>3. (b \o <<ind>>)[NIndirect + 1] = ind /\ \A m \in 1 .. NIndirect : (b \o <<ind>>)[m] = b[m]
      <3>1. NIndirect + 1 \in 1 .. NIndirect + 1 /\ ~(NIndirect + 1 <= NIndirect)
            /\ (NIndirect + 1) - NIndirect = 1
            /\ \A m \in 1 .. NIndirect : m \in 1 .. NIndirect + 1 /\ m <= NIndirect
        BY <1>1
      <3>. QED  BY <2>1, <2>2, <3>1
    <2>4. CASE ind = 0
      BY <2>4
    <2>5. CASE ind # 0
      <3>1. c = b \o <<ind>>
        BY <2>5
      <3>. QED  BY <2>2, <2>3, <3>1
    <2>. QED  BY <2>4, <2>5
  <1>. HIDE DEF c
  <1>9. /\ a \o c \in Seq(Blocks) /\ Len(a \o c) = NDirect + Len(c) /\ Len(c) \in Nat
        /\ \A m \in 1 .. NDirect + Len(c) : (a \o c)[m] = IF m <= NDirect THEN a[m] ELSE c[m - NDirect]
    <2>1. a \in Seq(Blocks) /\ c \in Seq(Blocks) /\ Len(a) = NDirect
      BY <1>6, <1>8
    <2>2. /\ a \o c \in Seq(Blocks) /\ Len(a \o c) = Len(a) + Len(c)
          /\ \A m \in 1 .. Len(a) + Len(c) :
               (a \o c)[m] = IF m <= Len(a) THEN a[m] ELSE c[m - Len(a)]
      BY <2>1, ConcatProperties
    <2>. QED  BY <2>1, <2>2
  <1>10. \A m \in 1 .. NDirect + Len(c) : m \in DOMAIN (a \o c)
    BY <1>9
  <1>11. PICK z : z = PtrAt(i, p)
    OBVIOUS
  <1>12. CASE p < NDirect
    <2>1. p + 1 \in 1 .. NDirect /\ p + 1 \in 1 .. NDirect + Len(c) /\ (p + 1) - 1 = p
      BY <1>1, <1>9, <1>12 DEF Positions
    <2>2. (a \o c)[p + 1] = z
      BY <1>1, <1>5, <1>6, <1>9, <1>11, <1>12, <2>1 DEF Positions
    <2>. QED  BY <1>4, <1>10, <1>11, <2>1, <2>2 DEF node
  <1>13. CASE p = NDirect
    <2>1. ind # 0 /\ z = ind
      BY <1>1, <1>5, <1>11, <1>13 DEF ind
    <2>2. /\ NDirect + NIndirect + 1 \in 1 .. NDirect + Len(c)
          /\ ~(NDirect + NIndirect + 1 <= NDirect)
          /\ (NDirect + NIndirect + 1) - NDirect = NIndirect + 1
      BY <1>1, <1>8, <2>1
    <2>3. (a \o c)[NDirect + NIndirect + 1] = z
      BY <1>8, <1>9, <2>1, <2>2
    <2>. QED  BY <1>4, <1>10, <1>11, <2>2, <2>3 DEF node
  <1>14. CASE p > NDirect
    <2>1. ind # 0 /\ z = ptr[p - NDirect - 1]
      BY <1>1, <1>5, <1>11, <1>14 DEF Positions
    <2>2. /\ p \in 1 .. NDirect + Len(c) /\ p - NDirect \in 1 .. NIndirect
          /\ ~(p <= NDirect) /\ (p - NDirect) - 1 = p - NDirect - 1
      BY <1>1, <1>8, <1>14, <2>1 DEF Positions
    <2>3. (a \o c)[p] = z
      BY <1>7, <1>8, <1>9, <2>1, <2>2
    <2>. QED  BY <1>4, <1>10, <1>11, <2>2, <2>3 DEF node
  <1>. QED  BY <1>1, <1>12, <1>13, <1>14 DEF Positions

(* delete takes out the name of an inode: everything else stays reached, and its
   blocks are on the list of what to free.                                  *)
LEMMA LostMarks ==
  ASSUME Orderly, TypeOK, TypeOK', WellFormed, WellFormed', CallGood, DotsHome, DoneAt(Ahead),
         AllReached, Unlink, NEW j, j = fr'.inum
  PROVE  /\ AllReached' /\ inode_table' = inode_table /\ IsNamed(j) /\ j # ROOT_INODE_NO
         /\ \A i : IsNamed(i)' <=> IsNamed(i) /\ i # j
         /\ \A b : b # 0 /\ Owned(b) =>
              Owned(b)' \/ \E n \in DOMAIN fr'.todo : fr'.todo[n] = b
  <1>1. PICK q, m, u : q = fr.parent /\ m = fr.name /\ u = FrType
    OBVIOUS
  <1>2. PICK p0, x : LostName(q, m, j, u, p0, x)
    BY <1>1, UnlinkNamed
  <1>3. fr'.todo = BlocksOf(inode_table[j])
    BY UnlinkNamed
  <1>4. pc = "delete" /\ pc' = "free" /\ fr.parent # 0
    BY DEF Unlink, Goto
  <1>5. q \in LinkedDirs
    BY <1>1, <1>4, AheadNext DEF DoneAt, Meta
  <1>6. Linked /\ Linked'
    BY BothTrees
  <1>7. \A d \in LinkedDirs : d \in Inodes /\ IsNamed(d) /\ inode_table[d].mode = "dir"
    BY <1>6 DEF Linked, DirOf
  <1>8. \A d \in LinkedDirs : \A n, i, t :
          /\ Lists(d, n, i, t)' <=> Lists(d, n, i, t) /\ ~(d = q /\ n = m)
          /\ d = q /\ n = m /\ Lists(d, n, i, t) => i = j
    BY <1>2, <1>7, LostLists
  <1>9. Lists(q, m, j, u)
    <2>1. DirWrite(q, p0, x) /\ Holds(Ents(x), m, j, u)
      BY <1>2 DEF LostName
    <2>. QED  BY <2>1, WrittenLists
  <1>10. j \in Inodes /\ IsNamed(j) /\ inode_table[j].mode = u /\ j # ROOT_INODE_NO
    BY <1>9, ListedType
  <1>11. j \in LinkedDirs => \A n, i, t : ~Lists(j, n, i, t)
    BY <1>2, <1>7, <1>10 DEF LostName
  <1>12. LinkedDirs \subseteq LinkedDirs' \cup {j}
    <2>. DEFINE D == LinkedDirs \cap (LinkedDirs' \cup {j})
    <2>1. ROOT_INODE_NO \in D
      BY <1>6 DEF Linked
    <2>2. ASSUME NEW d \in D, NEW n, NEW i, Lists(d, n, i, "dir")
          PROVE  i \in D
      <3>1. d \in LinkedDirs' /\ i \in LinkedDirs
        BY <1>6, <1>11, <2>2 DEF Linked
      <3>2. CASE d = q /\ n = m
        BY <1>8, <2>2, <3>1, <3>2
      <3>3. CASE ~(d = q /\ n = m)
        <4>1. Lists(d, n, i, "dir")'
          BY <1>8, <2>2, <3>3
        <4>. QED  BY <1>6, <3>1, <4>1 DEF Linked
      <3>. QED  BY <3>2, <3>3
    <2>3. D \in SUBSET LinkedDirs
      OBVIOUS
    <2>. HIDE DEF D
    <2>4. LinkedDirs \subseteq D
      BY <1>6, <2>1, <2>2, <2>3 DEF Linked
    <2>. QED  BY <2>4 DEF D
  <1>13. ASSUME NEW i, Reached(i), i # j PROVE Reached(i)'
    <2>1. PICK d \in LinkedDirs, n \in Names, t \in {"file", "dir"} : Lists(d, n, i, t)
      BY <1>13 DEF Reached
    <2>2. Lists(d, n, i, t)'
      BY <1>8, <1>13, <2>1
    <2>3. d \in LinkedDirs'
      BY <1>11, <1>12, <2>1
    <2>. QED  BY <2>2, <2>3 DEF Reached
  <1>14. ~IsNamed(j)' /\ \A i : IsNamed(i)' => IsNamed(i)
    <2>1. CallGood'
      BY UnlinkTree
    <2>2. (CallGood /\ pc \notin Meta => GoodAt(pc))'
      BY GoodHere, PTL
    <2>3. Removing'
      BY <1>4, <2>1, <2>2 DEF GoodAt, Meta
    <2>. QED  BY <1>2, <2>3 DEF Removing, LostName
  <1>15. AllReached'
    BY <1>13, <1>14 DEF AllReached
  <1>16. \A i : IsNamed(i)' <=> IsNamed(i) /\ i # j
    <2>1. ReachesNamed'
      BY ReachedNamedNext
    <2>2. IsNamed(ROOT_INODE_NO)'
      BY DEF IsNamed
    <2>. QED  BY <1>13, <1>14, <2>1, <2>2, NamedType DEF AllReached, ReachesNamed
  <1>17. ASSUME NEW b, b # 0, Owned(b)
         PROVE  Owned(b)' \/ \E n \in DOMAIN fr'.todo : fr'.todo[n] = b
    <2>1. PICK i \in Inodes, l \in Positions : IsNamed(i) /\ PtrAt(i, l) = b
      BY <1>17 DEF Owned
    <2>2. CASE i = j
      BY <1>3, <1>17, <2>1, <2>2, MapInBlocks
    <2>3. CASE i # j
      <3>1. IsNamed(i)' /\ PtrAt(i, l)' = b
        BY <1>16, <2>1, <2>3, UnlinkTree DEF MapsKept
      <3>. QED  BY <3>1 DEF Owned
    <2>. QED  BY <2>2, <2>3
  <1>18. inode_table' = inode_table
    BY DEF Unlink
  <1>. QED  BY <1>10, <1>15, <1>16, <1>17, <1>18

-----------------------------------------------------------------------------
(* What is marked, step by step.                                            *)

(* Block 0 is reserved.                                                     *)
LEMMA ZeroReserved == 0 \in FreshBlockBitmap
  BY LayoutFacts, LayoutAssumption DEF FreshBlockBitmap, ROOT_DIR_BLOCK_LBA, INODE_TABLE_LBA

(* What MarkedAt says of a place, once the step is known to lead there.     *)
LEMMA MarkedNext ==
  ASSUME NEW l, Ahead' = l, MarkedAt(l)'
  PROVE  MarkedAt(Ahead)'
  OBVIOUS

(* A step from k to l after which all that was accounted for still is.      *)
LEMMA MarksKept ==
  ASSUME Kept, NEW k, NEW l, MarkedAt(k), FreshInodeBitmap \subseteq inode_bitmap',
         l \in BusyLabels => fr'.inum \notin FreshInodeBitmap,
         \A i \in inode_bitmap' : Taken(l, i)' \/ (i \in inode_bitmap /\ ~Taken(k, i)),
         \A b \in block_bitmap' : b # 0 =>
           Claimed(l, b)' \/ Owned(b)' \/ (b \in block_bitmap /\ ~Claimed(k, b)),
         l \in MakingLabels /\ fr'.dir => fr'.ptr = NoPointers
  PROVE  MarkedAt(l)'
  <1>1. Reserved(l)'
    BY DEF MarkedAt, Reserved, Kept, FreshInodeBitmap
  <1>2. InodesMarked(l)'
    BY DEF MarkedAt, InodesMarked, Kept, FreshInodeBitmap
  <1>3. BlocksMarked(l)'
    BY ZeroReserved DEF MarkedAt, BlocksMarked, Kept, FreshBlockBitmap
  <1>. QED  BY <1>1, <1>2, <1>3 DEF MarkedAt

(* A step that takes and gives back no inode.                               *)
LEMMA BlocksKept ==
  ASSUME Kept, NEW k, NEW l, MarkedAt(k), k \in BusyLabels, l \in BusyLabels,
         inode_bitmap' = inode_bitmap, fr'.inum = fr.inum,
         \A b \in block_bitmap' : b # 0 =>
           Claimed(l, b)' \/ Owned(b)' \/ (b \in block_bitmap /\ ~Claimed(k, b)),
         l \in MakingLabels /\ fr'.dir => fr'.ptr = NoPointers
  PROVE  MarkedAt(l)'
  <1>1. FreshInodeBitmap \subseteq inode_bitmap' /\ fr'.inum \notin FreshInodeBitmap
    BY DEF MarkedAt, Reserved
  <1>2. \A i \in inode_bitmap' : Taken(l, i)' \/ (i \in inode_bitmap /\ ~Taken(k, i))
    BY DEF Taken
  <1>. QED  BY <1>1, <1>2, MarksKept

(* allocate_block: the block taken is the one the call goes on with.        *)
LEMMA TakenBlock ==
  ASSUME TypeOK, WellFormed, NEW ok, NEW full, full \notin Meta, allocate_block(ok, full)
  PROVE  /\ inode_bitmap' = inode_bitmap
         /\ \/ Ahead' = ok /\ block_bitmap' = block_bitmap \cup {fr'.got}
            \/ Ahead' = full /\ block_bitmap' = block_bitmap
  <1>1. CASE NoBlock /\ Goto(full) /\ UNCHANGED <<disk, mem, fr>>
    BY <1>1, AheadNext DEF Goto, disk
  <1>2. CASE ~NoBlock /\ allocate_block(ok, full)
    <2>1. PICK b \in FreeBlocks :
            /\ block_bitmap' = block_bitmap \cup {b} /\ UNCHANGED inode_bitmap
            /\ fr' = [fr EXCEPT !.got = b, !.back = IF b = 0 THEN full ELSE ok]
      BY <1>2, Zenon DEF allocate_block
    <2>2. fr'.got = b
      BY <2>1 DEF TypeOK, Frame
    <2>3. Ahead' = ok
      BY <1>2, TakeAhead
    <2>. QED  BY <2>1, <2>2, <2>3
  <1>. QED  BY <1>1, <1>2, Zenon DEF allocate_block

(* The steps of write that ask for a block.                                 *)
LEMMA TakeMarks ==
  ASSUME TypeOK, WellFormed, CallGood, Kept, MarkedAt(Ahead),
         \/ DirectBlock \/ IndirectBlock \/ PointerBlock \/ DirectoryBlock
         \/ GrowDirectory
  PROVE  MarkedAt(Ahead)'
  <1>. USE DEF MakingLabels, FileLabels, MappedLabels, EarlyLabels, DirLabels,
               BuiltLabels, NamingLabels, PendingLabels, BusyLabels
  <1>1. PICK k, l : k = Ahead /\ l = Ahead'
    OBVIOUS
  <1>2. k \in {"direct", "indirect", "pointer", "dir", "add_entry"}
    BY <1>1, AheadNext DEF DirectBlock, IndirectBlock, PointerBlock, DirectoryBlock,
       GrowDirectory, Meta
  <1>3. \/ \E ok \in PendingLabels, full \in {"indirect", "inode", "write_table", "no_entry"} :
             allocate_block(ok, full)
        \/ pc' \in {"indirect", "inode", "write_table"} /\ UNCHANGED <<disk, mem, fr>>
    BY DEF DirectBlock, IndirectBlock, PointerBlock, DirectoryBlock, GrowDirectory, Goto
  <1>4. /\ inode_bitmap' = inode_bitmap /\ l \in MakingLabels
        /\ fr'.node = fr.node /\ fr'.ptr = fr.ptr /\ fr'.dir = fr.dir /\ fr'.inum = fr.inum
        /\ \/ block_bitmap' = block_bitmap
           \/ l \in PendingLabels /\ block_bitmap' = block_bitmap \cup {fr'.got}
    <2>1. CASE \E ok \in PendingLabels, full \in {"indirect", "inode", "write_table", "no_entry"} :
                 allocate_block(ok, full)
      <3>1. PICK ok \in PendingLabels, full \in {"indirect", "inode", "write_table", "no_entry"} :
                 allocate_block(ok, full)
        BY <2>1
      <3>2. full \notin Meta
        BY DEF Meta
      <3>3. /\ inode_bitmap' = inode_bitmap
            /\ \/ Ahead' = ok /\ block_bitmap' = block_bitmap \cup {fr'.got}
               \/ Ahead' = full /\ block_bitmap' = block_bitmap
        BY <3>1, <3>2, TakenBlock
      <3>4. /\ fr'.node = fr.node /\ fr'.ptr = fr.ptr /\ fr'.dir = fr.dir /\ fr'.inum = fr.inum
        BY <3>1, TakeKeeps DEF KeepsCall
      <3>. QED  BY <1>1, <3>3, <3>4
    <2>2. CASE pc' \in {"indirect", "inode", "write_table"} /\ UNCHANGED <<disk, mem, fr>>
      BY <1>1, <2>2, AheadNext DEF disk, Meta
    <2>. QED  BY <1>3, <2>1, <2>2
  <1>5. \A j : Held(j)' = Held(j)
    BY <1>4 DEF Held
  <1>6. \A b \in block_bitmap' :
          Claimed(l, b)' \/ (b \in block_bitmap /\ ~Claimed(k, b))
    BY <1>2, <1>4, <1>5 DEF Claimed
  <1>7. fr'.dir => fr'.ptr = NoPointers
    BY <1>1, <1>2, <1>4 DEF MarkedAt
  <1>8. MarkedAt(l)'
    BY <1>1, <1>2, <1>4, <1>6, <1>7, BlocksKept
  <1>. QED  BY <1>1, <1>8, MarkedNext

(* The steps that put the block taken into the map of the new inode: the pointer
   it overwrites was none.                                                  *)
LEMMA StoreMarks ==
  ASSUME Inv, TypeOK', WellFormed, CallGood, DoneAt(Ahead), Kept, MarkedAt(Ahead),
         StoreDirect \/ StorePointer \/ WriteDots \/ IndirectTable
  PROVE  MarkedAt(Ahead)'
  <1>. USE DEF MakingLabels, FileLabels, MappedLabels, EarlyLabels, DirLabels,
               BuiltLabels, NamingLabels, PendingLabels, BusyLabels
  <1>0. TypeOK /\ fr \in Frame
    BY DEF Inv, TypeOK
  <1>1. PICK k, l, g : k = Ahead /\ l = Ahead' /\ g = fr.got
    OBVIOUS
  <1>2. /\ pc \in {"store_direct", "store_pointer", "dots", "table"} /\ pc \notin Meta
        /\ pc' \in {"direct", "pointer", "inode"} /\ pc' \notin Meta
        /\ UNCHANGED <<block_bitmap, inode_bitmap>>
    BY DEF StoreDirect, StorePointer, WriteDots, IndirectTable, Goto, disk, Meta
  <1>3. k = pc /\ l = pc'
    BY <1>1, <1>2, AheadNext
  <1>4. fr'.inum = fr.inum /\ fr'.dir = fr.dir
    BY <1>0 DEF StoreDirect, StorePointer, WriteDots, IndirectTable, Frame
  <1>5. fr'.dir => fr'.ptr = NoPointers
    <2>1. pc # "dots" => ~fr.dir
      BY <1>2, GoodHere DEF GoodAt
    <2>2. pc = "dots" => fr'.ptr = fr.ptr
      BY <1>0 DEF StoreDirect, StorePointer, WriteDots, IndirectTable, Frame
    <2>. QED  BY <1>1, <1>2, <1>3, <1>4, <2>1, <2>2 DEF MarkedAt
  <1>6. PICK p \in Positions :
          Held(p) = 0 /\ \A j \in Positions : Held(j)' = IF j = p THEN g ELSE Held(j)
    <2>0. NDirect \in Nat /\ NDirect > 0 /\ NIndirect \in Nat
      BY PositionFacts
    <2>1. CASE StoreDirect
      <3>1. pc = "store_direct"
        BY <2>1 DEF StoreDirect
      <3>2. fr.n \in Nat /\ fr.n < NDirect /\ Filled(fr.n)
        BY <1>0, <1>1, <1>3, <3>1 DEF DoneAt, Inv, IndicesInBounds, Reaching, Frame
      <3>3. fr.n \in 0 .. NDirect + NIndirect - 1 /\ DataAt(fr.n) = fr.n /\ ~(fr.n < fr.n)
            /\ fr.n \in Positions
        BY <2>0, <3>2 DEF DataAt, Positions
      <3>4. Held(fr.n) = 0
        BY <3>2, <3>3 DEF Filled
      <3>. QED  BY <1>1, <2>1, <3>3, <3>4, StoreDirectTree
    <2>2. CASE StorePointer
      <3>1. pc = "store_pointer"
        BY <2>2 DEF StorePointer
      <3>2. fr.n \in Nat /\ fr.n - NDirect \in 0 .. NIndirect - 1 /\ Filled(fr.n)
        BY <1>0, <1>1, <1>3, <3>1 DEF DoneAt, Inv, IndicesInBounds, Reaching, Frame
      <3>3. fr.n \in 0 .. NDirect + NIndirect - 1 /\ DataAt(fr.n) = fr.n + 1 /\ ~(fr.n < fr.n)
            /\ fr.n + 1 \in Positions
        BY <2>0, <3>2 DEF DataAt, Positions
      <3>4. Held(fr.n + 1) = 0
        BY <3>2, <3>3 DEF Filled
      <3>. QED  BY <1>1, <2>2, <3>3, <3>4, StorePointerTree
    <2>3. CASE WriteDots
      <3>1. pc = "dots"
        BY <2>3 DEF WriteDots
      <3>2. fr.node.block[0] = 0
        BY <1>2, <3>1, GoodHere DEF GoodAt
      <3>3. Held(0) = 0
        BY <2>0, <3>2 DEF Held
      <3>. QED  BY <1>0, <1>1, <2>3, <3>3, WriteDotsTree, PositionFacts
    <2>4. CASE IndirectTable
      <3>1. pc = "table"
        BY <2>4 DEF IndirectTable
      <3>2. fr.node.block[NDirect] = 0
        BY <1>2, <3>1, GoodHere DEF GoodAt
      <3>3. Held(NDirect) = 0
        BY <2>0, <3>2 DEF Held
      <3>. QED  BY <1>0, <1>1, <2>4, <3>3, IndirectTableTree, PositionFacts
    <2>. QED  BY <2>1, <2>2, <2>3, <2>4
  <1>7. \A b \in block_bitmap' : b # 0 =>
          Claimed(l, b)' \/ (b \in block_bitmap /\ ~Claimed(k, b))
    <2>. SUFFICES ASSUME NEW b \in block_bitmap', b # 0, Claimed(k, b) PROVE Claimed(l, b)'
      BY <1>2
    <2>1. \E j \in Positions : Held(j)' = b
      BY <1>1, <1>2, <1>3, <1>6 DEF Claimed
    <2>. QED  BY <1>2, <1>3, <2>1 DEF Claimed
  <1>8. MarkedAt(l)'
    BY <1>1, <1>2, <1>3, <1>4, <1>5, <1>7, BlocksKept
  <1>. QED  BY <1>1, <1>8, MarkedNext

(* The steps that keep the call's locals.                                   *)
LEMMA SameMarks ==
  ASSUME CallGood, Kept, MarkedAt(Ahead), GrowInode => Owned(fr.got)',
         WriteTable \/ WriteInode \/ GrowInode
  PROVE  MarkedAt(Ahead)'
  <1>. USE DEF MakingLabels, FileLabels, MappedLabels, EarlyLabels, DirLabels,
               BuiltLabels, NamingLabels, PendingLabels, BusyLabels
  <1>1. PICK k, l : k = Ahead /\ l = Ahead'
    OBVIOUS
  <1>2. /\ UNCHANGED <<fr, block_bitmap, inode_bitmap>>
        /\ pc \in {"write_table", "inode", "grow"} /\ pc \notin Meta
        /\ pc' \in {"inode", "add_entry", "grow_block"} /\ pc' \notin Meta
        /\ pc = "grow" => GrowInode
    BY DEF WriteTable, WriteInode, GrowInode, Goto, Meta
  <1>3. k = pc /\ l = pc'
    BY <1>1, <1>2, AheadNext
  <1>4. \A b \in block_bitmap' : b # 0 =>
          Claimed(l, b)' \/ Owned(b)' \/ (b \in block_bitmap /\ ~Claimed(k, b))
    <2>. SUFFICES ASSUME NEW b \in block_bitmap', Claimed(k, b) PROVE Claimed(l, b)' \/ Owned(b)'
      BY <1>2
    <2>1. CASE \E j \in Positions : Held(j) = b
      <3>1. \E j \in Positions : Held(j)' = b
        BY <1>2, <2>1 DEF Held
      <3>. QED  BY <1>2, <1>3, <3>1 DEF Claimed
    <2>2. CASE pc = "grow" /\ fr.got = b
      <3>1. Owned(fr.got)'
        BY <1>2, <2>2
      <3>2. fr'.got = b
        BY <1>2, <2>2
      <3>. QED  BY <3>1, <3>2
    <2>. QED  BY <1>2, <1>3, <2>1, <2>2 DEF Claimed
  <1>5. l \in MakingLabels /\ fr'.dir => fr'.ptr = NoPointers
    BY <1>1, <1>2, <1>3 DEF MarkedAt
  <1>6. MarkedAt(l)'
    BY <1>1, <1>2, <1>3, <1>4, <1>5, BlocksKept
  <1>. QED  BY <1>1, <1>6, MarkedNext

(* While the counters are written nothing else changes.                     *)
LEMMA MetaMarks ==
  ASSUME CallGood, Kept, MarkedAt(Ahead), WriteSuperblock \/ WriteBgdt
  PROVE  MarkedAt(Ahead)'
  <1>1. PICK k : k = Ahead
    OBVIOUS
  <1>2. fr' = fr /\ Ahead' = k
    BY <1>1, MetaSame
  <1>3. UNCHANGED <<block_bitmap, inode_bitmap>>
    BY DEF WriteSuperblock, WriteBgdt
  <1>4. \A b : Claimed(k, b)' <=> Claimed(k, b)
    BY <1>2 DEF Claimed, Held
  <1>5. \A i : Taken(k, i)' <=> Taken(k, i)
    BY <1>2 DEF Taken
  <1>6. /\ FreshInodeBitmap \subseteq inode_bitmap'
        /\ k \in BusyLabels => fr'.inum \notin FreshInodeBitmap
        /\ k \in MakingLabels /\ fr'.dir => fr'.ptr = NoPointers
    BY <1>1, <1>2, <1>3 DEF MarkedAt, Reserved
  <1>7. MarkedAt(k)'
    BY <1>1, <1>3, <1>4, <1>5, <1>6, MarksKept
  <1>. QED  BY <1>2, <1>7, MarkedNext

(* allocate_node: the inode taken is not one of the reserved.               *)
LEMMA NodeMarks ==
  ASSUME TypeOK, TypeOK', WellFormed, CallGood, Kept, MarkedAt(Ahead), AllocateNode
  PROVE  MarkedAt(Ahead)'
  <1>. USE DEF MakingLabels, FileLabels, MappedLabels, EarlyLabels, DirLabels,
               BuiltLabels, NamingLabels, PendingLabels, BusyLabels
  <1>1. PICK k, l : k = Ahead /\ l = Ahead'
    OBVIOUS
  <1>2. pc = "write" /\ pc' = "superblock" /\ UNCHANGED block_bitmap
    BY Zenon DEF AllocateNode, Goto
  <1>3. k = "write" /\ l \in {"dir", "direct"}
    BY <1>1, <1>2, NodeTaken, AheadNext DEF Meta
  <1>4. PICK i \in FreeInodes : inode_bitmap' = inode_bitmap \cup {i} /\ fr'.inum = i
            /\ fr'.ptr = fr.ptr
    <2>1. PICK i \in FreeInodes :
            /\ inode_bitmap' = inode_bitmap \cup {i}
            /\ fr' = [fr EXCEPT
                        !.inum = i,
                        !.node.mode = IF fr.dir THEN "dir" ELSE "file",
                        !.node.size = IF fr.dir THEN 0 ELSE Len(fr.content),
                        !.back = IF fr.dir THEN "dir" ELSE "direct"]
      BY Zenon DEF AllocateNode
    <2>2. fr'.inum = i /\ fr'.ptr = fr.ptr
      BY <2>1 DEF TypeOK, Frame
    <2>. QED  BY <2>1, <2>2
  <1>5. FreshInodeBitmap \subseteq inode_bitmap
    BY DEF MarkedAt, Reserved
  <1>6. FreshInodeBitmap \subseteq inode_bitmap' /\ fr'.inum \notin FreshInodeBitmap
    BY <1>4, <1>5 DEF FreeInodes
  <1>7. \A n \in inode_bitmap' : Taken(l, n)' \/ (n \in inode_bitmap /\ ~Taken(k, n))
    BY <1>3, <1>4 DEF Taken
  <1>8. \A b : ~Claimed(k, b)
    BY <1>3 DEF Claimed
  <1>9. fr'.ptr = NoPointers
    BY <1>2, <1>4, GoodHere DEF GoodAt, Meta
  <1>10. MarkedAt(l)'
    BY <1>1, <1>2, <1>6, <1>7, <1>8, <1>9, MarksKept
  <1>. QED  BY <1>1, <1>10, MarkedNext

(* The head of a list and the rest of it.                                   *)
LEMMA HeadOrTail ==
  ASSUME NEW s \in Seq(Blocks), s # <<>>, NEW n \in DOMAIN s
  PROVE  s[n] = Head(s) \/ \E m \in DOMAIN Tail(s) : Tail(s)[m] = s[n]
  <1>1. CASE n = 1
    BY <1>1
  <1>2. CASE n # 1
    <2>1. n - 1 \in DOMAIN Tail(s) /\ Tail(s)[n - 1] = s[n]
      BY <1>2
    <2>. QED  BY <2>1
  <1>. QED  BY <1>1, <1>2

(* deallocate_node: a block that leaves the list is free.                   *)
LEMMA FreeMarks ==
  ASSUME TypeOK, CallGood, Kept, MarkedAt(Ahead), FreeBlock \/ ClearInode
  PROVE  MarkedAt(Ahead)'
  <1>. USE DEF MakingLabels, FileLabels, MappedLabels, EarlyLabels, DirLabels,
               BuiltLabels, NamingLabels, PendingLabels, BusyLabels
  <1>1. PICK k, l : k = Ahead /\ l = Ahead'
    OBVIOUS
  <1>2. fr \in Frame /\ fr.todo \in Seq(Blocks)
    BY FrameParts DEF TypeOK
  <1>3. CASE FreeBlock
    <2>1. /\ pc = "free" /\ fr.todo # <<>> /\ UNCHANGED inode_bitmap
          /\ pc' = "free" \/ (pc' \in Meta /\ fr'.back = "free")
          /\ fr'.inum = fr.inum /\ fr'.todo = Tail(fr.todo)
      BY <1>2, <1>3 DEF FreeBlock, Goto, Meta, Frame
    <2>2. k = "free" /\ l = "free"
      BY <1>1, <2>1, AheadNext DEF Meta
    <2>3. PICK x : x = Head(fr.todo)
      OBVIOUS
    <2>4. block_bitmap' \subseteq block_bitmap /\ (x = 0 \/ x \notin block_bitmap')
      BY <1>3, <2>3 DEF FreeBlock
    <2>5. ASSUME NEW b \in block_bitmap', b # 0, Claimed(k, b) PROVE Claimed(l, b)'
      <3>1. PICK n \in DOMAIN fr.todo : fr.todo[n] = b
        BY <2>2, <2>5 DEF Claimed
      <3>2. b # Head(fr.todo)
        BY <2>3, <2>4, <2>5
      <3>3. \E m \in DOMAIN fr'.todo : fr'.todo[m] = b
        <4>1. PICK s \in Seq(Blocks) : s = fr.todo
          BY <1>2
        <4>2. s # <<>> /\ n \in DOMAIN s /\ s[n] = b /\ b # Head(s) /\ fr'.todo = Tail(s)
          BY <2>1, <3>1, <3>2, <4>1
        <4>3. \E m \in DOMAIN Tail(s) : Tail(s)[m] = s[n]
          BY <4>2, HeadOrTail
        <4>. QED  BY <4>2, <4>3
      <3>. QED  BY <2>2, <3>3 DEF Claimed
    <2>6. \A b \in block_bitmap' : b # 0 =>
            Claimed(l, b)' \/ Owned(b)' \/ (b \in block_bitmap /\ ~Claimed(k, b))
      BY <2>4, <2>5
    <2>7. MarkedAt(l)'
      BY <1>1, <2>1, <2>2, <2>6, BlocksKept
    <2>. QED  BY <1>1, <2>7, MarkedNext
  <1>4. CASE ClearInode
    <2>1. /\ pc = "free" /\ fr.todo = <<>> /\ pc' = "clear_node"
          /\ UNCHANGED <<fr, block_bitmap, inode_bitmap>>
      BY <1>4 DEF ClearInode, Goto
    <2>2. k = "free" /\ l = "clear_node"
      BY <1>1, <2>1, AheadNext DEF Meta
    <2>3. \A b : ~Claimed(k, b)
      BY <2>1, <2>2 DEF Claimed
    <2>4. MarkedAt(l)'
      BY <1>1, <2>1, <2>2, <2>3, BlocksKept
    <2>. QED  BY <1>1, <2>4, MarkedNext
  <1>. QED  BY <1>3, <1>4

(* And at last its inode is, which is none of the reserved.                 *)
LEMMA ClearMarks ==
  ASSUME TypeOK, CallGood, Kept, MarkedAt(Ahead), ClearNode
  PROVE  MarkedAt(Ahead)'
  <1>. USE DEF MakingLabels, FileLabels, MappedLabels, EarlyLabels, DirLabels,
               BuiltLabels, NamingLabels, PendingLabels, BusyLabels
  <1>1. PICK k, l : k = Ahead /\ l = Ahead'
    OBVIOUS
  <1>2. /\ pc = "clear_node" /\ pc' = "superblock" /\ fr'.back = "done"
        /\ UNCHANGED block_bitmap /\ inode_bitmap' = inode_bitmap \ {fr.inum}
    BY DEF ClearNode, Goto, TypeOK, Frame
  <1>3. k = "clear_node" /\ l = "done"
    BY <1>1, <1>2, AheadNext DEF Meta
  <1>4. FreshInodeBitmap \subseteq inode_bitmap /\ fr.inum \notin FreshInodeBitmap
    BY <1>1, <1>3 DEF MarkedAt, Reserved
  <1>5. FreshInodeBitmap \subseteq inode_bitmap'
    BY <1>2, <1>4
  <1>6. \A i \in inode_bitmap' : i \in inode_bitmap /\ ~Taken(k, i)
    BY <1>2 DEF Taken
  <1>7. \A b : ~Claimed(k, b)
    BY <1>3 DEF Claimed
  <1>8. MarkedAt(l)'
    BY <1>1, <1>2, <1>3, <1>5, <1>6, <1>7, MarksKept
  <1>. QED  BY <1>1, <1>8, MarkedNext

(* Every step of a call but the one at which it takes effect.               *)
LEMMA InCallMarks ==
  ASSUME Inv, TypeOK', WellFormed, WellFormed', CallGood, DotsHome, DoneAt(Ahead), AllReached,
         MarkedAt(Ahead), InCall, ~Unlink
  PROVE  AllReached' /\ MarkedAt(Ahead)'
  <1>0. TypeOK
    BY DEF Inv
  <1>1. Kept /\ (GrowInode => Owned(fr.got)')
    <2>1. CASE GrowInode
      <3>1. PICK g : g = fr.got
        OBVIOUS
      <3>2. Kept /\ Owned(g)'
        BY <1>0, <2>1, <3>1, GrowMarks
      <3>3. fr' = fr
        BY <2>1 DEF GrowInode
      <3>. QED  BY <3>1, <3>2, <3>3
    <2>2. CASE ~GrowInode
      <3>1. Quiet /\ \A i : IsNamed(i)' => IsNamed(i)
        BY <2>2, QuietCalls
      <3>. QED  BY <1>0, <2>2, <3>1, QuietMarks
    <2>. QED  BY <2>1, <2>2
  <1>2. MarkedAt(Ahead)'
    <2>1. CASE DirectBlock \/ IndirectBlock \/ PointerBlock \/ DirectoryBlock \/ GrowDirectory
      BY <1>0, <1>1, <2>1, TakeMarks
    <2>2. CASE StoreDirect \/ StorePointer \/ WriteDots \/ IndirectTable
      BY <1>1, <2>2, StoreMarks
    <2>3. CASE WriteTable \/ WriteInode \/ GrowInode
      BY <1>1, <2>3, SameMarks
    <2>4. CASE WriteSuperblock \/ WriteBgdt
      BY <1>1, <2>4, MetaMarks
    <2>5. CASE AllocateNode
      BY <1>0, <1>1, <2>5, NodeMarks
    <2>6. CASE FreeBlock \/ ClearInode
      BY <1>0, <1>1, <2>6, FreeMarks
    <2>7. CASE ClearNode
      BY <1>0, <1>1, <2>7, ClearMarks
    <2>. QED  BY <2>1, <2>2, <2>3, <2>4, <2>5, <2>6, <2>7 DEF InCall
  <1>. QED  BY <1>1, <1>2 DEF Kept

(* delete takes a name away: its inode and its blocks are the call's.       *)
LEMMA UnlinkMarks ==
  ASSUME Orderly, TypeOK, TypeOK', WellFormed, WellFormed', CallGood, DotsHome, DoneAt(Ahead),
         AllReached, MarkedAt(Ahead), Unlink
  PROVE  AllReached' /\ MarkedAt(Ahead)'
  <1>. USE DEF MakingLabels, FileLabels, MappedLabels, EarlyLabels, DirLabels,
               BuiltLabels, NamingLabels, PendingLabels, BusyLabels
  <1>1. PICK j : j = fr'.inum
    OBVIOUS
  <1>2. /\ AllReached' /\ inode_table' = inode_table /\ IsNamed(j) /\ j # ROOT_INODE_NO
        /\ \A i : IsNamed(i)' <=> IsNamed(i) /\ i # j
        /\ \A b : b # 0 /\ Owned(b) =>
             Owned(b)' \/ \E n \in DOMAIN fr'.todo : fr'.todo[n] = b
    BY <1>1, LostMarks
  <1>3. pc = "delete" /\ pc' = "free" /\ UNCHANGED <<block_bitmap, inode_bitmap>>
    BY Zenon DEF Unlink, Goto
  <1>4. Ahead = "delete" /\ Ahead' = "free"
    BY <1>3, AheadNext DEF Meta
  <1>5. Reserved("free")'
    BY <1>1, <1>2, <1>3 DEF MarkedAt, Reserved, FreshInodeBitmap
  <1>6. InodesMarked("free")'
    <2>1. \A i \in inode_bitmap : i \in FreshInodeBitmap \/ IsNamed(i)
      BY <1>4 DEF MarkedAt, InodesMarked, Taken
    <2>. QED  BY <1>1, <1>2, <1>3, <2>1 DEF InodesMarked, Taken, FreshInodeBitmap
  <1>7. BlocksMarked("free")'
    <2>1. \A b \in block_bitmap : b \in FreshBlockBitmap \/ Owned(b)
      BY <1>4 DEF MarkedAt, BlocksMarked, Claimed
    <2>. QED  BY <1>2, <1>3, <2>1, ZeroReserved DEF BlocksMarked, Claimed, FreshBlockBitmap
  <1>8. MarkedAt("free")'
    BY <1>5, <1>6, <1>7 DEF MarkedAt
  <1>. QED  BY <1>2, <1>4, <1>8, MarkedNext

(* add_entry_to_dir names the inode, and what was the call's has an owner.  *)
LEMMA EntryMarks ==
  ASSUME Orderly, TypeOK, TypeOK', WellFormed, WellFormed', CallGood, DoneAt(Ahead),
         AllReached, MarkedAt(Ahead), AddEntry \/ GrowBlock
  PROVE  AllReached' /\ MarkedAt(Ahead)'
  <1>. USE DEF MakingLabels, FileLabels, MappedLabels, EarlyLabels, DirLabels,
               BuiltLabels, NamingLabels, PendingLabels, BusyLabels
  <1>1. PICK j, k : j = fr.inum /\ k = Ahead
    OBVIOUS
  <1>2. pc \in {"add_entry", "grow_block"} /\ pc' = "idle" /\ UNCHANGED <<block_bitmap, inode_bitmap>>
    BY DEF AddEntry, GrowBlock, Return
  <1>3. k \in {"add_entry", "grow_block"} /\ Ahead' = "idle"
    BY <1>1, <1>2, AheadNext DEF Meta
  <1>4. MarkedAt(k)
    BY <1>1
  <1>5. fr.dir => fr.ptr = NoPointers
    BY <1>3, <1>4 DEF MarkedAt
  <1>6. /\ AllReached' /\ inode_table' = inode_table
        /\ \A i : IsNamed(i)' <=> IsNamed(i) \/ i = j
        /\ \A b : b # 0 /\ (Owned(b) \/ \E l \in Positions : Held(l) = b) => Owned(b)'
    BY <1>1, <1>5, NewMarks
  <1>7. j \notin FreshInodeBitmap
    BY <1>1, <1>3, <1>4 DEF MarkedAt, Reserved
  <1>8. Reserved("idle")'
    BY <1>2, <1>4, <1>6, <1>7 DEF MarkedAt, Reserved, FreshInodeBitmap
  <1>9. InodesMarked("idle")'
    <2>1. \A i \in inode_bitmap : i \in FreshInodeBitmap \/ IsNamed(i) \/ i = j
      BY <1>1, <1>4 DEF MarkedAt, InodesMarked, Taken
    <2>. QED  BY <1>2, <1>6, <2>1 DEF InodesMarked, FreshInodeBitmap
  <1>10. BlocksMarked("idle")'
    <2>1. \A b \in block_bitmap : \/ b \in FreshBlockBitmap \/ Owned(b)
                                  \/ \E l \in Positions : Held(l) = b
      BY <1>3, <1>4 DEF MarkedAt, BlocksMarked, Claimed
    <2>. QED  BY <1>2, <1>6, <2>1, ZeroReserved DEF BlocksMarked, FreshBlockBitmap
  <1>11. MarkedAt("idle")'
    BY <1>8, <1>9, <1>10 DEF MarkedAt
  <1>. QED  BY <1>3, <1>6, <1>11, MarkedNext

(* Calls, returns without effect and booting.                               *)
LEMMA OutsideMarks ==
  ASSUME TypeOK, TypeOK', WellFormed, WellFormed', AllReached, MarkedAt(Ahead), UNCHANGED disk,
         pc \in {"off", "idle", "write", "delete", "done"}, pc' \in {"idle", "write", "delete"}
  PROVE  AllReached' /\ MarkedAt(Ahead)'
  <1>. USE DEF MakingLabels, FileLabels, MappedLabels, EarlyLabels, DirLabels,
               BuiltLabels, NamingLabels, PendingLabels, BusyLabels
  <1>1. PICK k, l : k = Ahead /\ l = Ahead'
    OBVIOUS
  <1>2. k = pc /\ l = pc'
    BY <1>1, AheadNext DEF Meta
  <1>3. UNCHANGED <<blk, inode_table, block_bitmap, inode_bitmap>>
    BY DEF disk
  <1>4. Kept
    BY <1>3, QuietUnchanged, QuietMarks
  <1>5. FreshInodeBitmap \subseteq inode_bitmap'
    BY <1>3 DEF MarkedAt, Reserved
  <1>6. (\A i : ~Taken(k, i)) /\ (\A b : ~Claimed(k, b))
    BY <1>2 DEF Taken, Claimed
  <1>7. MarkedAt(l)'
    BY <1>1, <1>2, <1>3, <1>4, <1>5, <1>6, MarksKept
  <1>. QED  BY <1>1, <1>4, <1>7, MarkedNext DEF Kept

(* On a fresh disk the metadata, the root's block and the reserved inodes are
   marked, and only the root has a name.                                    *)
Outside == pc \in {"idle", "off"}

(* That is what the invariant asks for.                                     *)
LEMMA FreshMarks == FreshTree /\ Outside => MarkInv
  <1>. SUFFICES ASSUME FreshTree, Outside PROVE MarkInv
    OBVIOUS
  <1>. USE DEF MakingLabels, FileLabels, MappedLabels, EarlyLabels, DirLabels,
               BuiltLabels, NamingLabels, PendingLabels, BusyLabels
  <1>1. /\ ROOT_DIR_BLOCK_LBA \in Blocks /\ ROOT_INODE_NO \in Inodes
        /\ \A b \in Blocks : b # ROOT_DIR_BLOCK_LBA => blk[b] = Stale
        /\ blk[ROOT_DIR_BLOCK_LBA] = DirBlock(DotEntries(ROOT_INODE_NO, ROOT_INODE_NO))
    BY LayoutFacts DEF FreshTree
  <1>2. \A i : IsNamed(i) => i = ROOT_INODE_NO
    <2>. SUFFICES ASSUME NEW b \in Blocks, NEW k \in DOMAIN Ents(b) PROVE ~Naming(Ents(b)[k])
      BY DEF IsNamed
    <2>1. CASE b = ROOT_DIR_BLOCK_LBA
      <3>1. Ents(b) = DotEntries(ROOT_INODE_NO, ROOT_INODE_NO)
        BY <1>1, <2>1 DEF Ents, DirBlock
      <3>. QED  BY <3>1, DotsDoNotName
    <2>2. CASE b # ROOT_DIR_BLOCK_LBA
      BY <1>1, <2>2 DEF Ents, Stale
    <2>. QED  BY <2>1, <2>2
  <1>3. AllReached
    BY <1>2 DEF AllReached
  <1>4. Ahead \in {"idle", "off"}
    BY AheadNext DEF Outside, Meta
  <1>5. inode_table[ROOT_INODE_NO].block[0] = ROOT_DIR_BLOCK_LBA
    BY <1>1, PositionFacts DEF FreshTree, BlankTable, RootInode, ZeroInode
  <1>6. MarkedAt(Ahead)
    BY <1>2, <1>4, <1>5 DEF FreshTree, MarkedAt, Reserved, InodesMarked, BlocksMarked
  <1>. QED  BY <1>3, <1>6 DEF MarkInv

(* A disk the inserter has formatted, or a blank one.                       *)
LEMMA MarkInit == Orderly /\ Init => MarkInv
  <1>. SUFFICES ASSUME Orderly, Init PROVE MarkInv
    OBVIOUS
  <1>1. CASE FormatByKernel
    BY <1>1 DEF Orderly, Init, Formatting, MarkInv, MkfsLabels, BitmapLabels, TableLabels, RootLabels, RootDirLabels
  <1>2. CASE ~FormatByKernel
    <2>1. FreshTree /\ Outside
      BY <1>2 DEF Init, FreshTree, Outside
    <2>. QED  BY <2>1, FreshMarks
  <1>. QED  BY <1>1, <1>2

(* create_ext2 ends with a fresh disk.                                      *)
LEMMA FormatMarks ==
  ASSUME TypeOK, TypeOK', Formatting, Next
  PROVE  MarkInv'
  <1>1. CASE MkfsRootDir
    <2>1. FreshTree' /\ Outside'
      BY <1>1 DEF MkfsRootDir, FreshTree, Formatting, Outside, Goto, MkfsLabels, BitmapLabels,
         TableLabels, RootLabels, RootDirLabels
    <2>2. (FreshTree /\ Outside => MarkInv)'
      BY FreshMarks, PTL
    <2>. QED  BY <2>1, <2>2
  <1>2. CASE ~MkfsRootDir
    <2>1. Boot \/ Mkfs
      <3>1. ~Crash
        BY DEF Crash, Formatting, TypeOK
      <3>2. ~(Write \/ Delete \/ WriteSuperblock \/ WriteBgdt \/ CallWrite \/ CallDelete)
        BY NotFormatting DEF Formatting
      <3>. QED  BY <3>1, <3>2 DEF Next, Step
    <2>2. pc' \in MkfsLabels
      <3>. USE DEF MkfsLabels, BitmapLabels, TableLabels, RootLabels, RootDirLabels
      <3>1. CASE Boot
        BY <3>1 DEF Boot, Goto, Formatting
      <3>2. CASE Mkfs
        BY <1>2, <3>2 DEF Mkfs, MkfsSuperblock, MkfsBgdt, MkfsBlockBitmap, MkfsInodeBitmap,
           MkfsTable, MkfsRoot, Goto
      <3>. QED  BY <2>1, <3>1, <3>2
    <2>3. ~CallGood'
      BY <2>2 DEF CallGood, CallLabels, MakingLabels, FileLabels, MappedLabels, EarlyLabels,
         DirLabels, BuiltLabels, NamingLabels, Meta, MkfsLabels, BitmapLabels, TableLabels,
         RootLabels, RootDirLabels
    <2>4. Formatting'
      BY <2>3, FormatStep DEF TreeInv
    <2>. QED  BY <2>4 DEF MarkInv
  <1>. QED  BY <1>1, <1>2

(* A call starts where nothing is going on.                                 *)
LEMMA CallGiven ==
  ASSUME CallWrite \/ CallDelete
  PROVE  pc = "idle" /\ pc' \in {"write", "delete"} /\ UNCHANGED <<disk, crashes>>
  <1>1. CASE CallWrite
    <2>1. PICK parent, name, dir, c : Call(Request("write", parent, name, dir, c))
      BY <1>1, Zenon DEF CallWrite
    <2>2. Request("write", parent, name, dir, c).op = "write"
      BY DEF Request, NoFrame
    <2>. QED  BY <2>1, <2>2 DEF Call
  <1>2. CASE CallDelete
    <2>1. PICK parent, name, dir, c : Call(Request("delete", parent, name, dir, c))
      BY <1>2, Zenon DEF CallDelete
    <2>2. Request("delete", parent, name, dir, c).op = "delete"
      BY DEF Request, NoFrame
    <2>. QED  BY <2>1, <2>2 DEF Call
  <1>. QED  BY <1>1, <1>2

(* Only a power failure counts as one.                                      *)
LEMMA CrashesCounted ==
  ASSUME Next, ~Crash
  PROVE  crashes' = crashes
  <1>1. CASE Boot \/ Mkfs \/ WriteSuperblock \/ WriteBgdt
    BY <1>1 DEF Boot, Mkfs, MkfsSuperblock, MkfsBgdt, MkfsBlockBitmap, MkfsInodeBitmap,
       MkfsTable, MkfsRoot, MkfsRootDir, WriteSuperblock, WriteBgdt
  <1>2. CASE \/ WriteRefused \/ DirectBlock \/ IndirectBlock \/ IndirectTable \/ PointerBlock
             \/ DirectoryBlock \/ AddEntry \/ GrowDirectory \/ NoEntry
    BY <1>2 DEF WriteRefused, DirectBlock, IndirectBlock, IndirectTable, PointerBlock,
       DirectoryBlock, AddEntry, GrowDirectory, NoEntry
  <1>3. CASE \/ StoreDirect \/ StorePointer \/ WriteTable \/ WriteDots \/ WriteInode
             \/ GrowInode \/ GrowBlock
    BY <1>3 DEF StoreDirect, StorePointer, WriteTable, WriteDots, WriteInode, GrowInode, GrowBlock
  <1>4. CASE AllocateNode \/ Unlink
    BY <1>4, Zenon DEF AllocateNode, Unlink
  <1>5. CASE DeleteRefused \/ FreeBlock \/ ClearInode \/ ClearNode \/ DeleteDone
    BY <1>5 DEF DeleteRefused, FreeBlock, ClearInode, ClearNode, DeleteDone
  <1>6. CASE CallWrite \/ CallDelete
    BY <1>6, CallGiven
  <1>. QED  BY <1>1, <1>2, <1>3, <1>4, <1>5, <1>6 DEF Next, Step, Write, Delete

(* A step of a formatted file system whose power has not failed.            *)
LEMMA FormattedMarks ==
  ASSUME Orderly, Inv, TypeOK', WellFormed, WellFormed', CallGood, signature, DotsHome,
         DoneAt(Ahead), AllReached, MarkedAt(Ahead), Placed, Next, ~Crash
  PROVE  AllReached' /\ MarkedAt(Ahead)'
  <1>0. TypeOK
    BY DEF Inv
  <1>1. ~Mkfs
    BY DEF CallGood, CallLabels, MakingLabels, FileLabels, MappedLabels, EarlyLabels,
       DirLabels, BuiltLabels, NamingLabels, Meta, Mkfs, MkfsSuperblock, MkfsBgdt,
       MkfsBlockBitmap, MkfsInodeBitmap, MkfsTable, MkfsRoot, MkfsRootDir
  <1>2. ~NoEntry
    BY DEF NoEntry, Placed
  <1>3. CASE Boot
    <2>1. pc = "off" /\ pc' = "idle" /\ UNCHANGED disk
      BY <1>3 DEF Boot, Goto, disk
    <2>. QED  BY <1>0, <2>1, OutsideMarks
  <1>4. CASE WriteRefused \/ DeleteRefused \/ DeleteDone
    <2>1. pc \in {"write", "delete", "done"} /\ pc' = "idle" /\ UNCHANGED disk
      BY <1>4 DEF WriteRefused, DeleteRefused, DeleteDone, Return
    <2>. QED  BY <1>0, <2>1, OutsideMarks
  <1>5. CASE CallWrite \/ CallDelete
    <2>1. pc = "idle" /\ pc' \in {"write", "delete"} /\ UNCHANGED disk
      BY <1>5, CallGiven
    <2>. QED  BY <1>0, <2>1, OutsideMarks
  <1>6. CASE AddEntry \/ GrowBlock
    BY <1>0, <1>6, EntryMarks
  <1>7. CASE Unlink
    BY <1>0, <1>7, UnlinkMarks
  <1>8. CASE InCall /\ ~Unlink
    BY <1>8, InCallMarks
  <1>. QED  BY <1>1, <1>2, <1>3, <1>4, <1>5, <1>6, <1>7, <1>8
            DEF Next, Step, Write, Delete, InCall

(* Every step keeps the invariant.                                          *)
LEMMA MarkStep ==
  ASSUME Orderly, Inv, Inv', TreeInv, TreeInv', RefInv, MarkInv, Placed, [Next]_vars
  PROVE  MarkInv'
  <1>0. TypeOK /\ TypeOK' /\ crashes \in Nat
    BY Ext2Assumption DEF Inv, TypeOK
  <1>1. CASE UNCHANGED vars
    <2>1. UNCHANGED <<signature, block_bitmap, inode_bitmap, inode_table, blk, pc, fr, crashes>>
      BY <1>1 DEF vars, disk, mem
    <2>2. CASE Formatting
      BY <2>1, <2>2 DEF Formatting, MarkInv
    <2>3. CASE crashes > 0
      BY <2>1, <2>3 DEF MarkInv
    <2>4. CASE ~Formatting /\ ~(crashes > 0)
      <3>1. WellFormed /\ AllReached /\ MarkedAt(Ahead)
        BY <2>4 DEF TreeInv, MarkInv
      <3>2. WellFormed'
        <4>1. ~Formatting'
          BY <2>1, <2>4 DEF Formatting
        <4>. QED  BY <4>1 DEF TreeInv
      <3>3. Kept
        BY <1>0, <2>1, <3>1, <3>2, QuietUnchanged, QuietMarks
      <3>4. PICK k : k = Ahead
        OBVIOUS
      <3>5. Ahead' = k
        BY <2>1, <3>4 DEF Ahead
      <3>6. /\ \A b : Claimed(k, b)' <=> Claimed(k, b)
            /\ \A i : Taken(k, i)' <=> Taken(k, i)
        BY <2>1 DEF Claimed, Taken, Held
      <3>7. /\ FreshInodeBitmap \subseteq inode_bitmap'
            /\ k \in BusyLabels => fr'.inum \notin FreshInodeBitmap
            /\ k \in MakingLabels /\ fr'.dir => fr'.ptr = NoPointers
        BY <2>1, <3>1, <3>4 DEF MarkedAt, Reserved
      <3>8. MarkedAt(k)'
        BY <2>1, <3>1, <3>3, <3>4, <3>6, <3>7, MarksKept
      <3>. QED  BY <3>3, <3>5, <3>8, MarkedNext DEF MarkInv, Kept
    <2>. QED  BY <2>2, <2>3, <2>4
  <1>2. CASE Next /\ Formatting
    BY <1>0, <1>2, FormatMarks
  <1>3. CASE Crash
    BY <1>0, <1>3 DEF Crash, MarkInv
  <1>4. CASE Next /\ ~Crash /\ ~Formatting /\ crashes > 0
    <2>1. crashes' = crashes
      BY <1>4, CrashesCounted
    <2>. QED  BY <1>4, <2>1 DEF MarkInv
  <1>5. CASE Next /\ ~Crash /\ ~Formatting /\ ~(crashes > 0)
    <2>1. /\ signature /\ WellFormed /\ CallGood /\ DotsHome /\ DoneAt(Ahead)
          /\ AllReached /\ MarkedAt(Ahead)
      BY <1>5 DEF TreeInv, RefInv, MarkInv
    <2>2. WellFormed'
      BY <1>0, <1>5, <2>1, CallStep
    <2>. QED  BY <1>0, <1>5, <2>1, <2>2, FormattedMarks DEF MarkInv
  <1>. QED  BY <1>1, <1>2, <1>3, <1>4, <1>5

(* Between calls no inode and no block is the call's.                       *)
LEMMA MarkedInUse ==
  ASSUME TypeOK, TreeInv, MarkInv, crashes = 0
  PROVE  NothingLeaks
  <1>. SUFFICES ASSUME pc = "idle"
                PROVE  /\ inode_bitmap = FreshInodeBitmap \cup LiveInodes
                       /\ block_bitmap = FreshBlockBitmap \cup {PtrAt(x[1], x[2]) : x \in Owners}
    BY DEF NothingLeaks
  <1>1. WellFormed /\ AllReached /\ MarkedAt(Ahead) /\ Ahead = "idle"
    <2>1. ~Formatting
      BY DEF Formatting, MkfsLabels, BitmapLabels, TableLabels, RootLabels, RootDirLabels
    <2>. QED  BY <2>1, AheadNext DEF TreeInv, MarkInv, Meta
  <1>2. \A i \in Inodes : IsNamed(i) => i \in LiveInodes
    <2>. SUFFICES ASSUME NEW i \in Inodes, IsNamed(i), i # ROOT_INODE_NO PROVE i \in LiveInodes
      BY DEF LiveInodes
    <2>1. PICK d \in LinkedDirs, n \in Names, t \in {"file", "dir"} : Lists(d, n, i, t)
      BY <1>1 DEF AllReached, Reached
    <2>2. d \in Inodes /\ DirOf(d)
      BY <1>1, LinkedAreDirs
    <2>3. PICK s \in NamedIn(d) : At(d, s).inode = i
      BY <1>1, <2>1, <2>2, NamedInLists
    <2>4. <<d, s>> \in NamedSlots /\ EntryAt(<<d, s>>).inode = i
      BY <2>3 DEF NamedSlots, EntryAt
    <2>. QED  BY <2>4 DEF LiveInodes
  <1>3. inode_bitmap = FreshInodeBitmap \cup LiveInodes
    <2>1. FreshInodeBitmap \subseteq inode_bitmap
      BY <1>1 DEF MarkedAt, Reserved
    <2>2. \A i \in LiveInodes : i \in inode_bitmap
      BY <1>1, LiveNamed, FreeUnnamed
    <2>3. \A i \in inode_bitmap : i \in FreshInodeBitmap \/ IsNamed(i)
      BY <1>1 DEF MarkedAt, InodesMarked, Taken, BusyLabels, MakingLabels, FileLabels,
         MappedLabels, EarlyLabels, DirLabels, BuiltLabels, NamingLabels
    <2>4. inode_bitmap \subseteq Inodes
      BY DEF TypeOK
    <2>. QED  BY <1>2, <2>1, <2>2, <2>3, <2>4
  <1>4. BlocksUsed
    BY <1>1 DEF WellFormed
  <1>5. \A b \in block_bitmap :
          b \in FreshBlockBitmap \/ b \in {PtrAt(x[1], x[2]) : x \in Owners}
    <2>. SUFFICES ASSUME NEW b \in block_bitmap, b \notin FreshBlockBitmap
                  PROVE  b \in {PtrAt(x[1], x[2]) : x \in Owners}
      OBVIOUS
    <2>1. Owned(b) /\ b # 0
      BY <1>1, ZeroReserved DEF MarkedAt, BlocksMarked, Claimed, MakingLabels, FileLabels,
         MappedLabels, EarlyLabels, DirLabels, BuiltLabels, NamingLabels, PendingLabels
    <2>2. PICK i \in Inodes, j \in Positions : IsNamed(i) /\ PtrAt(i, j) = b
      BY <2>1 DEF Owned
    <2>3. <<i, j>> \in Owners
      BY <1>2, <2>1, <2>2 DEF Owners, Positions
    <2>. QED  BY <2>2, <2>3
  <1>6. \A b \in FreshBlockBitmap : b \in block_bitmap
    <2>. SUFFICES ASSUME NEW b \in FreshBlockBitmap PROVE b \in block_bitmap
      OBVIOUS
    <2>1. b \in Blocks /\ (b < ROOT_DIR_BLOCK_LBA \/ b = ROOT_DIR_BLOCK_LBA)
      BY LayoutAssumption DEF FreshBlockBitmap, Blocks, ROOT_DIR_BLOCK_LBA, INODE_TABLE_LBA
    <2>2. CASE b < ROOT_DIR_BLOCK_LBA
      BY <1>4, <2>1, <2>2 DEF BlocksUsed
    <2>3. CASE b = ROOT_DIR_BLOCK_LBA
      <3>1. PtrAt(ROOT_INODE_NO, 0) = b
        BY <1>1, <2>3, PositionFacts DEF MarkedAt, Reserved, PtrAt
      <3>2. Owned(b)
        BY <3>1, LayoutFacts, PositionFacts DEF Owned, IsNamed
      <3>3. b # 0
        BY <2>3, LayoutAssumption DEF ROOT_DIR_BLOCK_LBA, INODE_TABLE_LBA
      <3>. QED  BY <1>4, <2>1, <3>2, <3>3 DEF BlocksUsed
    <2>. QED  BY <2>1, <2>2, <2>3
  <1>7. \A x \in Owners : PtrAt(x[1], x[2]) \in block_bitmap
    <2>. SUFFICES ASSUME NEW x \in Owners PROVE PtrAt(x[1], x[2]) \in block_bitmap
      OBVIOUS
    <2>1. x[1] \in LiveInodes /\ x[2] \in Positions /\ PtrAt(x[1], x[2]) # 0
      BY DEF Owners, Positions
    <2>2. x[1] \in Inodes /\ IsNamed(x[1])
      BY <2>1, LiveNamed
    <2>3. Owned(PtrAt(x[1], x[2])) /\ PtrAt(x[1], x[2]) \in Blocks
      BY <2>1, <2>2, PtrType DEF Owned
    <2>. QED  BY <1>4, <2>1, <2>3 DEF BlocksUsed
  <1>. QED  BY <1>3, <1>5, <1>6, <1>7

(* For every geometry and every set of names and contents: until the power first
   fails, whatever allocate_block and allocate_node have marked used is, between
   calls, in use by something that can be reached by name, or reserved; and what
   is in use is marked.  write leaves nothing behind, also when blocks run out
   half way through a file, and delete gives back every block of the inode and
   the inode.  For orderly callers, as long as a new directory finds its block
   and the entry of a new name its place: where add_entry_to_dir gives up, write
   returns without giving back what it took.                                *)
THEOREM NothingEverLeaks ==
  ASSUME Orderly
  PROVE  Spec /\ []Roomy /\ []Placed => [](crashes = 0 => NothingLeaks)
  <1>1. Init => Inv /\ TreeInv /\ RefInv /\ MarkInv
    BY InitInv, TreeInit, RefInit, MarkInit DEF Inv
  <1>2. Inv /\ TreeInv /\ RefInv /\ MarkInv /\ Roomy /\ Placed /\ [Next]_vars =>
          (Inv /\ TreeInv /\ RefInv /\ MarkInv)'
    BY StepInv, TreeStep, RefStep, MarkStep
  <1>3. Inv /\ TreeInv /\ MarkInv => (crashes = 0 => NothingLeaks)
    BY MarkedInUse DEF Inv
  <1>. QED  BY <1>1, <1>2, <1>3, PTL DEF Spec

-----------------------------------------------------------------------------
(* Both file systems the driver is compared with satisfy the hypothesis of the
   theorems about FileSystem.                                               *)
LEMMA DriverIsInstance ==
  Truncating!FileSystemAssumption /\ Exact!FileSystemAssumption
  BY Ext2Assumption, LayoutAssumption
     DEF Truncating!FileSystemAssumption, Exact!FileSystemAssumption, Inodes, ROOT_INODE_NO
=============================================================================
