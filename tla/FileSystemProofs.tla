-------------------------- MODULE FileSystemProofs --------------------------
(***************************************************************************)
(* For every set of nodes, names and contents: what FileSystem promises is *)
(* a tree.  Together with the refinement proved for Ext2 this is the       *)
(* shape of the directory structure on disk at every block write.          *)
(***************************************************************************)
EXTENDS FileSystem, TLAPS

Inv == TypeOK /\ TreeOK /\ NoCycle /\ CallOK

(* A freshly formatted file system satisfies the invariant.                 *)
LEMMA InitInv == ASSUME FileSystemAssumption PROVE Init => Inv
  BY DEF FileSystemAssumption, Init, Inv, TypeOK, TreeOK, NoCycle, CallOK, NoCode

(* What a file keeps of a content is again a content.                       *)
LEMMA StoredType ==
  ASSUME NEW s \in Seq(Chunks), NEW x \in Stored(s)
  PROVE  x \in Seq(Chunks)
  BY DEF Stored, Prefixes

(* The fields of a call in progress have their types.                       *)
LEMMA CallType ==
  ASSUME FileSystemAssumption, TypeOK, req # NoCall
  PROVE  /\ req \in Calls
         /\ req.parent \in Nodes \cup {0} /\ req.name \in Names
         /\ req.kind \in {"file", "dir"} /\ req.data \in Seq(Chunks)
  <1>1. req \in Calls
    BY DEF TypeOK
  <1>2. /\ req.parent \in Nodes \cup {0} /\ req.name \in Names
        /\ req.kind \in {"file", "dir"} /\ req.data \in Contents \cup {<<>>}
    BY <1>1 DEF Calls
  <1>3. Contents \subseteq Seq(Chunks)
    BY DEF FileSystemAssumption
  <1>4. <<>> \in Seq(Chunks)
    OBVIOUS
  <1>. QED  BY <1>1, <1>2, <1>3, <1>4

(* write keeps the invariant: the new name is not in use and the new node is
   no directory yet, so it closes no cycle.                                 *)
LEMMA CreateInv == ASSUME FileSystemAssumption, Inv, Create PROVE Inv'
  <1>. USE DEF Inv
  <1>1. req # NoCall /\ req.parent \in Dirs /\ Named(req.parent, req.name) = {}
    BY DEF Create
  <1>2. PICK n \in Nodes \ ({Root} \cup {e.node : e \in tree}),
             s \in Stored(req.data) :
          tree' = tree \cup {[dir |-> req.parent, name |-> req.name, node |-> n,
                              kind |-> req.kind, data |-> s]}
    BY DEF Create
  <1>. DEFINE new == [dir |-> req.parent, name |-> req.name, node |-> n,
                      kind |-> req.kind, data |-> s]
  <1>3. Dirs \subseteq Nodes
    BY DEF FileSystemAssumption, Dirs, TypeOK, Entries
  <1>4. new \in Entries
    BY <1>1, <1>2, <1>3, CallType, StoredType DEF Entries
  <1>5. /\ new.dir = req.parent /\ new.name = req.name /\ new.node = n
        /\ new.kind = req.kind
    OBVIOUS
  <1>. HIDE DEF new
  <1>6. tree' = tree \cup {new}
    BY <1>2 DEF new
  <1>7. Dirs \subseteq Dirs'
    BY <1>6 DEF Dirs
  <1>8. \A e \in tree : e.node # n /\ e.dir # n /\ n # Root
    BY <1>2 DEF TreeOK, Dirs
  <1>9. n # req.parent
    BY <1>1, <1>2 DEF Dirs
  <1>10. TypeOK'
    BY <1>4, <1>6 DEF TypeOK, Create, End
  <1>11. TreeOK'
    <2>1. \A e \in tree : ~(e.dir = new.dir /\ e.name = new.name)
      BY <1>1, <1>5 DEF Named
    <2>2. \A e, f \in tree' : e.dir = f.dir /\ e.name = f.name => e = f
      BY <1>6, <2>1 DEF TreeOK
    <2>3. \A e, f \in tree' : e.node = f.node => e = f
      BY <1>5, <1>6, <1>8 DEF TreeOK
    <2>4. \A e \in tree' : e.node # Root /\ e.dir \in Dirs'
      BY <1>1, <1>2, <1>5, <1>6, <1>7 DEF TreeOK
    <2>. QED  BY <2>2, <2>3, <2>4 DEF TreeOK
  <1>12. NoCycle'
    <2>. SUFFICES ASSUME NEW S \in SUBSET Nodes,
                         \A m \in S : \E e \in tree' : e.node = m /\ e.dir \in S
                  PROVE  S = {}
      BY DEF NoCycle
    <2>1. \A m \in S \ {n} : \E e \in tree : e.node = m /\ e.dir \in S \ {n}
      BY <1>5, <1>6, <1>8
    <2>2. S \ {n} = {}
      BY <2>1 DEF NoCycle
    <2>3. n \in S => \E e \in tree' : e.node = n /\ e.dir = n
      BY <2>2
    <2>. QED  BY <2>2, <2>3, <1>5, <1>6, <1>8, <1>9
  <1>13. CallOK'
    BY DEF CallOK, Create, End
  <1>. QED  BY <1>10, <1>11, <1>12, <1>13

(* delete keeps the invariant: nothing is inside the node it removes, so no
   entry loses its directory.                                               *)
LEMMA RemoveInv == ASSUME Inv, Remove PROVE Inv'
  <1>. USE DEF Inv
  <1>1. PICK e \in Named(req.parent, req.name) :
          Children(e.node) = {} /\ tree' = tree \ {e}
    BY DEF Remove
  <1>2. done' = TRUE /\ UNCHANGED <<req, ret>>
    BY DEF Remove
  <1>3. TypeOK'
    BY <1>1, <1>2 DEF TypeOK
  <1>4. TreeOK'
    <2>1. \A f \in tree' : f.dir \in Dirs'
      BY <1>1 DEF TreeOK, Dirs, Children, Named
    <2>. QED  BY <1>1, <2>1 DEF TreeOK
  <1>5. NoCycle'
    BY <1>1 DEF NoCycle
  <1>6. CallOK'
    BY <1>2 DEF CallOK
  <1>. QED  BY <1>3, <1>4, <1>5, <1>6

(* Every step keeps the invariant.                                          *)
LEMMA StepInv == ASSUME FileSystemAssumption PROVE Inv /\ [Next]_vars => Inv'
  <1>. SUFFICES ASSUME Inv, [Next]_vars PROVE Inv'
    OBVIOUS
  <1>0. ASSUME UNCHANGED tree PROVE TreeOK' /\ NoCycle'
    BY <1>0 DEF Inv, TreeOK, NoCycle, Dirs
  <1>1. CASE Begin
    <2>1. TypeOK'
      BY <1>1 DEF Begin, Inv, TypeOK
    <2>2. CallOK'
      BY <1>1 DEF Begin, CallOK, Dirs
    <2>. QED  BY <1>0, <1>1, <2>1, <2>2 DEF Begin, Inv
  <1>2. CASE Removed \/ PowerFailure
    <2>1. TypeOK'
      BY <1>2 DEF Removed, PowerFailure, End, Inv, TypeOK
    <2>. QED  BY <1>0, <1>2, <2>1 DEF Removed, PowerFailure, End, Inv, CallOK
  <1>3. CASE Refuse
    <2>1. TypeOK'
      BY <1>3 DEF Refuse, End, Inv, TypeOK
    <2>. QED  BY <1>0, <1>3, <2>1 DEF Refuse, End, Inv, CallOK
  <1>4. CASE UNCHANGED vars
    BY <1>0, <1>4 DEF vars, Inv, TypeOK, CallOK, Dirs
  <1>. QED  BY <1>1, <1>2, <1>3, <1>4, CreateInv, RemoveInv DEF Next

(* The promised file system is a tree of uniquely named entries, no entry is
   in a directory that is gone, and no call loses its parent directory.     *)
THEOREM TreeInvariant ==
  ASSUME FileSystemAssumption
  PROVE  Spec => [](TypeOK /\ TreeOK /\ CallOK)
  <1>1. Inv => TypeOK /\ TreeOK /\ CallOK
    BY DEF Inv
  <1>. QED  BY InitInv, StepInv, <1>1, PTL DEF Spec

(* It has no cycles: every name is below the root.                          *)
THEOREM TreeHasNoCycle == ASSUME FileSystemAssumption PROVE Spec => []NoCycle
  <1>1. Inv => NoCycle
    BY DEF Inv
  <1>. QED  BY InitInv, StepInv, <1>1, PTL DEF Spec
=============================================================================
