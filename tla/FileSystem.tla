----------------------------- MODULE FileSystem -----------------------------
(***************************************************************************)
(* What the EXT2 driver promises its callers: a tree of named files and    *)
(* directories, and calls that create or remove one name atomically.  A    *)
(* call takes effect at most once, it returns 0 exactly when it took       *)
(* effect, an error code names its reason, and a power failure in the      *)
(* middle of a call leaves the tree as before or as after it.              *)
(***************************************************************************)
EXTENDS Integers, Sequences

CONSTANTS
  Nodes,     \* identities of files and directories
  Root,      \* the root directory
  Names,     \* names of files and directories
  Chunks,    \* contents of one block of a file
  Contents,  \* what a write may carry
  Truncates  \* TRUE: a file may keep only a prefix of what was written

(* What the theorems about FileSystem ask of its constants; they are statements
   about an abstract specification, so it is a hypothesis there.            *)
FileSystemAssumption ==
  /\ Root \in Nodes /\ 0 \notin Nodes
  /\ Contents \subseteq Seq(Chunks)
  /\ Truncates \in BOOLEAN

VARIABLES
  tree,  \* set of entries: who (node) is called name in which directory
  req,   \* the call in progress
  done,  \* it has taken effect but not returned
  ret    \* code of the last call

vars == <<tree, req, done, ret>>

Entries == [dir : Nodes, name : Names, node : Nodes,
            kind : {"file", "dir"}, data : Seq(Chunks)]

NoCall == [op |-> "none"]
Calls == [op : {"write", "delete"}, parent : Nodes \cup {0}, name : Names,
          kind : {"file", "dir"}, data : Contents \cup {<<>>}]
NoCode == 99

Dirs == {Root} \cup {e.node : e \in {f \in tree : f.kind = "dir"}}
Children(n) == {e \in tree : e.dir = n}
Named(p, name) == {e \in tree : e.dir = p /\ e.name = name}

Prefixes(s) == {SubSeq(s, 1, k) : k \in 0 .. Len(s)}
Stored(s) == IF Truncates THEN Prefixes(s) ELSE {s}

Init == tree = {} /\ req = NoCall /\ done = FALSE /\ ret = NoCode

Begin ==
  /\ req = NoCall
  /\ \E c \in Calls :
       /\ c.parent = 0 \/ c.parent \in Dirs
       /\ req' = c
  /\ done' = FALSE /\ ret' = NoCode
  /\ UNCHANGED tree

End(code) == req' = NoCall /\ done' = FALSE /\ ret' = code

(* write takes effect and returns: a new node under a name not in use.  As in the
   code, and against ext2.h:356, a folder's name is in use for a file too.  *)
Create ==
  /\ req # NoCall /\ req.op = "write"
  /\ req.parent \in Dirs
  /\ Named(req.parent, req.name) = {}
  /\ \E n \in Nodes \ ({Root} \cup {e.node : e \in tree}) :
     \E s \in Stored(req.data) :
       tree' = tree \cup {[dir |-> req.parent, name |-> req.name, node |-> n,
                           kind |-> req.kind, data |-> s]}
  /\ End(0)

(* delete takes effect: the name of a file or of an empty directory goes.   *)
Remove ==
  /\ req # NoCall /\ req.op = "delete" /\ ~done
  /\ \E e \in Named(req.parent, req.name) :
       /\ e.kind = req.kind
       /\ Children(e.node) = {}
       /\ tree' = tree \ {e}
  /\ done' = TRUE
  /\ UNCHANGED <<req, ret>>

Removed == done /\ End(0) /\ UNCHANGED tree

(* An error code is returned for its reason and without effect; -1 stands for
   an unmounted disk or for a resource that ran out.                        *)
Reason(code) ==
  \/ code = -1
  \/ /\ req.op = "write"
     /\ \/ code = 2 /\ req.parent = 0
        \/ code = 1 /\ Named(req.parent, req.name) # {}
  \/ /\ req.op = "delete"
     /\ \/ code = 3 /\ req.parent = 0
        \/ /\ code = 1
           /\ \A e \in Named(req.parent, req.name) : e.kind # req.kind
        \/ /\ code = 2 /\ req.kind = "dir"
           /\ \E e \in Named(req.parent, req.name) : Children(e.node) # {}

Refuse ==
  /\ req # NoCall /\ ~done
  /\ \E code \in {-1, 1, 2, 3} : Reason(code) /\ End(code)
  /\ UNCHANGED tree

PowerFailure == End(NoCode) /\ UNCHANGED tree

Next == Begin \/ Create \/ Remove \/ Removed \/ Refuse \/ PowerFailure

Spec == Init /\ [][Next]_vars

-----------------------------------------------------------------------------
(* The variables keep their types.                                          *)
TypeOK ==
  /\ tree \subseteq Entries
  /\ req \in Calls \cup {NoCall}
  /\ done \in BOOLEAN
  /\ ret \in {-1, 0, 1, 2, 3, NoCode}

(* The entries form a tree of names: no name twice in a directory (by the code,
   not by ext2.h:356, where a file and a folder may share one), no node
   under two names, the root under none, and every entry in a directory that
   itself still exists.                                                     *)
TreeOK ==
  /\ \A e, f \in tree : e.dir = f.dir /\ e.name = f.name => e = f
  /\ \A e, f \in tree : e.node = f.node => e = f
  /\ \A e \in tree : e.node # Root /\ e.dir \in Dirs

(* Following directories upwards always ends at the root: no set of nodes has
   all its names inside itself.                                             *)
NoCycle ==
  \A S \in SUBSET Nodes :
    (\A n \in S : \E e \in tree : e.node = n /\ e.dir \in S) => S = {}

(* A call in progress names a directory that exists until the call takes
   effect: nobody can remove it meanwhile.                                  *)
CallOK == req # NoCall /\ ~done => req.parent = 0 \/ req.parent \in Dirs
=============================================================================
