-------------------------------- MODULE Shell --------------------------------
(***************************************************************************)
(* The shell, src/src/user/shell.c, running on the EXT2 driver: the        *)
(* variables and steps of Ext2, driven by the commands of a user instead   *)
(* of by arbitrary calls.  A command is a sequence of system calls; read,  *)
(* read_directory and stat change nothing on the disk and happen within a  *)
(* step of the shell, write and delete run step by step in the driver, and *)
(* a power failure may come between any two block writes.                  *)
(*                                                                         *)
(* What is printed is abstracted to what it says.                          *)
(***************************************************************************)
EXTENDS Ext2

CONSTANTS
  Commands,           \* lines a user may enter, as [op, a1, a2]
  DIR_BUFFER_BLOCKS,  \* blocks dir_buffer holds (4096 / 512)
  FILE_BUFFER_BLOCKS, \* blocks file_buffer holds (32768 / 512)
  FIND_MAX_DEPTH,     \* slots of find_stack
  ZeroChunk,          \* a block of zeroes
  MaxPath             \* bound on the components of cwd

Ops == {"cd", "ls", "mkdir", "cat", "cp", "rm", "mv", "find", "echo",
        "grep"}
Args == Names \cup Dots \cup Chunks \cup {"", "/"}

ASSUME ShellAssumption ==
  /\ Commands \subseteq [op : Ops, a1 : Args, a2 : Args]
  /\ DIR_BUFFER_BLOCKS \in Nat \ {0} /\ FILE_BUFFER_BLOCKS \in Nat \ {0}
  /\ FIND_MAX_DEPTH \in Nat \ {0} /\ MaxPath \in Nat
  /\ ZeroChunk \in Chunks
  /\ "" \notin Names \cup Chunks /\ "/" \notin Names
  /\ \A c \in Commands : c.op = "echo" => c.a1 \in Chunks \cup {""}

VARIABLES
  current_dir_inode,  \* the working directory
  cwd,                \* its path as shown: the components
  dir_buffer,         \* what read_directory left there, block by block
  file_buffer,        \* what read and echo left there, block by block
  cmd,                \* the command being executed
  stage,              \* "prompt", the call the command waits for, or "done"
  job,                \* the file a command writes: write_req
  says,               \* what the last command has printed
  find_stack, found,  \* directories still to visit, matches so far
  current_inode       \* the directory find looks at, 0 between two of them

place == <<current_dir_inode, cwd>>
search == <<find_stack, found, current_inode>>
shell == <<place, dir_buffer, file_buffer, cmd, stage, job, says, search>>
all == <<vars, shell>>

NoCmd == [op |-> "ls", a1 |-> "", a2 |-> ""]
NoJob == [parent |-> 0, name |-> "", content |-> <<>>]
Message(what) == [what |-> what, list |-> {}, count |-> 0]

ZeroBuffer == [k \in 1 .. FILE_BUFFER_BLOCKS |-> ZeroChunk]

ShellInit ==
  /\ Init
  /\ current_dir_inode = ROOT_INODE_NO /\ cwd = <<>>
  /\ dir_buffer = <<>> /\ file_buffer = ZeroBuffer
  /\ cmd = NoCmd /\ stage = "prompt" /\ job = NoJob
  /\ says = Message("nothing") /\ find_stack = <<>> /\ found = 0 /\ current_inode = 0

-----------------------------------------------------------------------------
(* System calls that only read.                                             *)

ReadDirCode(d) == IF ~initialized THEN -1
                  ELSE IF d = 0 THEN 3
                  ELSE IF inode_table[d].mode # "dir" THEN 1 ELSE 0

(* dir_buffer after read_directory: the blocks of the directory, in front of
   whatever an earlier and longer directory has left behind them.           *)
read_directory(d) ==
  LET n == Cardinality({i \in DirBlocks(d) : i < DIR_BUFFER_BLOCKS})
      m == Len(dir_buffer)
  IN  IF ReadDirCode(d) # 0 THEN dir_buffer
      ELSE [i \in 1 .. (IF n > m THEN n ELSE m) |->
              IF i <= n THEN DirEnts(d, i - 1) ELSE dir_buffer[i]]

(* The records a scan of the buffer meets: rec_len = 0 ends it, and that is
   what the first block never filled begins with.                           *)
Scan(buf) ==
  LET upto[n \in 0 .. Len(buf)] ==
        IF n = 0 THEN <<>> ELSE upto[n - 1] \o buf[n]
      full == {n \in 0 .. Len(buf) : \A k \in 1 .. n : buf[k] # <<>>}
  IN  upto[CHOOSE n \in full : \A k \in full : k <= n]

Used(ents) == SelectSeq(ents, LAMBDA e : e.inode # 0)

(* cd and ls stop at a record that is not in use, find and is_directory pass
   over it.                                                                 *)
BeforeUnused(ents) ==
  LET used == {n \in 0 .. Len(ents) : \A k \in 1 .. n : ents[k].inode # 0}
  IN  SubSeq(ents, 1, CHOOSE n \in used : \A k \in used : k <= n)

(* find_entry_in_dir as stat and read use it: the inode of that name, as a set
   of at most one.                                                          *)
Lookup(name) ==
  {At(current_dir_inode, s).inode :
     s \in IF initialized THEN First(find_entry_in_dir(current_dir_inode, name))
           ELSE {}}

(* get_file_size, the comparison with the buffer, and read succeed.         *)
Readable(name) == \E i \in Lookup(name) : /\ inode_table[i].size <= FILE_BUFFER_BLOCKS
                                          /\ ~IsDir(i)

(* file_buffer after read, and the part of it the caller then uses.         *)
Loaded(i) == LET data == read(i) IN
             [k \in 1 .. FILE_BUFFER_BLOCKS |->
                IF k <= Len(data) THEN data[k] ELSE file_buffer[k]]
Bytes(i) == SubSeq(Loaded(i), 1, inode_table[i].size)

-----------------------------------------------------------------------------
(* Control.                                                                 *)

AtPrompt(c) == stage = "prompt" /\ pc = "idle" /\ cmd' = c

(* The command is over.                                                     *)
Finish(message) == /\ stage' = "done" /\ says' = message
                  /\ UNCHANGED <<vars, search>>
Say(what) == Finish(Message(what))

(* A system call that the driver executes; the command goes on at label.    *)
Invoke(frame, label) == /\ Call(frame) /\ stage' = label
                        /\ says' = Message("nothing")
                        /\ UNCHANGED search

(* Back from the call the command was waiting for.                          *)
Returned(label) == /\ stage = label /\ pc = "idle"
                   /\ UNCHANGED <<cmd, job, place, dir_buffer, file_buffer>>

Delete1(parent, name, dir) == Request("delete", parent, name, dir, <<>>)
WriteJob(j) == Request("write", j.parent, j.name, FALSE, j.content)

(* The main loop comes round: it clears the line and its arguments.         *)
Prompt ==
  /\ stage = "done"
  /\ stage' = "prompt" /\ cmd' = NoCmd /\ job' = NoJob /\ says' = Message("nothing")
  /\ UNCHANGED <<vars, place, dir_buffer, file_buffer, search>>

-----------------------------------------------------------------------------
(* cd.                                                                      *)

CdRoot ==
  /\ \E c \in Commands : c.op = "cd" /\ c.a1 \in {"", "/"} /\ AtPrompt(c)
  /\ current_dir_inode' = ROOT_INODE_NO /\ cwd' = <<>>
  /\ Say("nothing")
  /\ UNCHANGED <<dir_buffer, file_buffer, job>>

(* Fault: every cd .. resets the path.                                      *)
PathUpAlways(d) == <<>>
(* The path is corrected only when the root is reached.                     *)
PathUp(d) == IF d = ROOT_INODE_NO THEN <<>> ELSE cwd

CdUp ==
  /\ \E c \in Commands : c.op = "cd" /\ c.a1 = ".." /\ AtPrompt(c)
  /\ IF current_dir_inode = ROOT_INODE_NO
     THEN UNCHANGED <<place, dir_buffer>>
     ELSE LET buf == read_directory(current_dir_inode)
              up  == SelectSeq(BeforeUnused(Scan(buf)), LAMBDA e : e.name = "..")
          IN  /\ dir_buffer' = buf
              /\ IF ReadDirCode(current_dir_inode) # 0 \/ up = <<>>
                 THEN UNCHANGED place
                 ELSE /\ current_dir_inode' = up[1].inode
                      /\ cwd' = PathUp(up[1].inode)
  /\ Say("nothing")
  /\ UNCHANGED <<file_buffer, job>>

(* Fault: the type of the entry is not looked at.                           *)
CdNameAnyType ==
  /\ \E c \in Commands :
       /\ c.op = "cd" /\ c.a1 \notin {"", "/", ".."} /\ Len(cwd) < MaxPath
       /\ AtPrompt(c)
       /\ LET buf == read_directory(current_dir_inode)
              hit == SelectSeq(BeforeUnused(Scan(buf)), LAMBDA e : e.name = c.a1)
          IN  /\ dir_buffer' = buf
              /\ IF ReadDirCode(current_dir_inode) # 0 \/ hit = <<>>
                 THEN Say("failed") /\ UNCHANGED place
                 ELSE /\ Say("nothing")
                      /\ current_dir_inode' = hit[1].inode
                      /\ cwd' = Append(cwd, c.a1)
  /\ UNCHANGED <<file_buffer, job>>

(* MaxPath is a bound of the model: the code appends to cwd without one.    *)
CdName ==
  /\ \E c \in Commands :
       /\ c.op = "cd" /\ c.a1 \notin {"", "/", ".."} /\ Len(cwd) < MaxPath
       /\ AtPrompt(c)
       /\ LET buf == read_directory(current_dir_inode)
              hit == SelectSeq(BeforeUnused(Scan(buf)), LAMBDA e : e.name = c.a1)
          IN  /\ dir_buffer' = buf
              /\ IF \/ ReadDirCode(current_dir_inode) # 0
                    \/ hit = <<>> \/ hit[1].type # "dir"
                 THEN Say("failed") /\ UNCHANGED place
                 ELSE /\ Say("nothing")
                      /\ current_dir_inode' = hit[1].inode
                      /\ cwd' = Append(cwd, c.a1)
  /\ UNCHANGED <<file_buffer, job>>

-----------------------------------------------------------------------------
(* ls, cat and grep: what is read is printed.                               *)

Ls ==
  /\ \E c \in Commands : c.op = "ls" /\ AtPrompt(c)
  /\ dir_buffer' = read_directory(current_dir_inode)
  /\ IF ReadDirCode(current_dir_inode) # 0
     THEN Say("failed")
     ELSE LET seen == BeforeUnused(Scan(dir_buffer')) IN
          Finish([Message("listed") EXCEPT !.list = {seen[k] : k \in DOMAIN seen}])
  /\ UNCHANGED <<place, file_buffer, job>>

(* A file is read into the buffer to be shown.                              *)
ReadFile(name) ==
  IF Readable(name)
  THEN \E i \in Lookup(name) :
         /\ file_buffer' = Loaded(i)
         /\ job' = [parent |-> current_dir_inode, name |-> name, content |-> Bytes(i)]
         /\ Say("shown")
  ELSE Say("failed") /\ UNCHANGED <<file_buffer, job>>

Cat ==
  /\ \E c \in Commands : c.op = "cat" /\ AtPrompt(c) /\ ReadFile(c.a1)
  /\ UNCHANGED <<place, dir_buffer>>

(* grep on a file; a1 is the pattern, and which lines it selects is left out. *)
Grep ==
  /\ \E c \in Commands :
       /\ c.op = "grep" /\ AtPrompt(c)
       /\ IF c.a1 # "" THEN ReadFile(c.a2)
          ELSE Say("failed") /\ UNCHANGED <<file_buffer, job>>
  /\ UNCHANGED <<place, dir_buffer>>

-----------------------------------------------------------------------------
(* mkdir and echo: one write.                                               *)

Mkdir ==
  /\ \E c \in Commands :
       /\ c.op = "mkdir" /\ AtPrompt(c)
       /\ IF c.a1 = "" THEN Say("failed")
          ELSE Invoke(Request("write", current_dir_inode, c.a1, TRUE, <<>>), "make")
  /\ UNCHANGED <<place, dir_buffer, file_buffer, job>>

Echo ==
  /\ \E c \in Commands :
       /\ c.op = "echo" /\ AtPrompt(c)
       /\ IF c.a1 = "" \/ c.a2 = ""
          THEN Say("nothing") /\ UNCHANGED <<file_buffer, job>>
          ELSE /\ file_buffer' = [file_buffer EXCEPT ![1] = c.a1]
               /\ job' = [parent |-> current_dir_inode, name |-> c.a2, content |-> <<c.a1>>]
               /\ Invoke(WriteJob(job'), "make")
  /\ UNCHANGED <<place, dir_buffer>>

Made ==
  /\ Returned("make")
  /\ Say(IF ret = 0 THEN "created" ELSE "failed")

-----------------------------------------------------------------------------
(* rm: as a file first, then as a directory.                                *)

Rm ==
  /\ \E c \in Commands :
       /\ c.op = "rm" /\ AtPrompt(c)
       /\ IF c.a1 = "" THEN Say("failed")
          ELSE Invoke(Delete1(current_dir_inode, c.a1, FALSE), "rm_file")
  /\ UNCHANGED <<place, dir_buffer, file_buffer, job>>

RmDirectory ==
  /\ Returned("rm_file")
  /\ ret = 1
  /\ Invoke(Delete1(current_dir_inode, cmd.a1, TRUE), "rm_dir")

Removed ==
  /\ (Returned("rm_file") /\ ret # 1) \/ Returned("rm_dir")
  /\ Say(IF ret = 0 THEN "removed" ELSE "failed")

-----------------------------------------------------------------------------
(* cp and mv: read the source, write the target, and if that name is taken
   delete it and write again; mv then deletes the source.                   *)

Cp ==
  /\ \E c \in Commands :
       /\ c.op = "cp" /\ AtPrompt(c)
       /\ IF c.a1 # "" /\ c.a2 # "" /\ Readable(c.a1)
          THEN \E i \in Lookup(c.a1) :
                 /\ file_buffer' = Loaded(i)
                 /\ job' = [parent |-> current_dir_inode, name |-> c.a2, content |-> Bytes(i)]
                 /\ Invoke(WriteJob(job'), "write")
          ELSE Say("failed") /\ UNCHANGED <<file_buffer, job>>
  /\ UNCHANGED <<place, dir_buffer>>

(* The destination of mv is a directory by stat: the inode is then looked up
   in dir_buffer.                                                           *)
IsDirectory(name) == \E i \in Lookup(name) : IsDir(i)

DirectoryIn(buf, name) ==
  LET hit == SelectSeq(Used(Scan(buf)), LAMBDA e : e.name = name /\ e.type = "dir")
  IN  IF hit = <<>> THEN 0 ELSE hit[1].inode

Mv ==
  /\ \E c \in Commands :
       /\ c.op = "mv" /\ AtPrompt(c)
       /\ dir_buffer' = IF c.a1 # "" /\ c.a2 # "" /\ IsDirectory(c.a2)
                        THEN read_directory(current_dir_inode) ELSE dir_buffer
       /\ IF c.a1 # "" /\ c.a2 # "" /\ Readable(c.a1)
          THEN LET d == IF IsDirectory(c.a2) THEN DirectoryIn(dir_buffer', c.a2) ELSE 0
               IN  \E i \in Lookup(c.a1) :
                     /\ file_buffer' = Loaded(i)
                     /\ job' = [parent  |-> IF d # 0 THEN d ELSE current_dir_inode,
                                name    |-> IF d # 0 THEN c.a1 ELSE c.a2,
                                content |-> Bytes(i)]
                     /\ Invoke(WriteJob(job'), "write")
          ELSE Say("failed") /\ UNCHANGED <<file_buffer, job>>
  /\ UNCHANGED place

(* Fault: cp deletes the source to make room for the copy.                  *)
DeleteSource ==
  /\ Returned("write")
  /\ ret = 1
  /\ Invoke(Delete1(job.parent, cmd.a1, FALSE), "delete")

DeleteTarget ==
  /\ Returned("write")
  /\ ret = 1
  /\ Invoke(Delete1(job.parent, job.name, FALSE), "delete")

(* Faults: the write is not tried again; it is tried until it succeeds.     *)
NoRetry ==
  /\ Returned("delete")
  /\ stage' = "retry"
  /\ UNCHANGED <<vars, says, search>>

RetryForEver ==
  /\ Returned("delete")
  /\ Invoke(WriteJob(job), "write")

Retry ==
  /\ Returned("delete")
  /\ Invoke(WriteJob(job), "retry")

Written == (Returned("write") /\ ret # 1) \/ Returned("retry")

Copied ==
  /\ Written
  /\ cmd.op = "cp" \/ ret # 0
  /\ Say(IF ret = 0 THEN "copied" ELSE "failed")

(* Fault: the source goes although the target could not be written.         *)
DropSourceAnyway ==
  /\ Written
  /\ cmd.op = "mv"
  /\ Invoke(Delete1(current_dir_inode, cmd.a1, FALSE), "source")

DropSource ==
  /\ Written
  /\ cmd.op = "mv" /\ ret = 0
  /\ Invoke(Delete1(current_dir_inode, cmd.a1, FALSE), "source")

Moved ==
  /\ Returned("source")
  /\ Say("moved")

-----------------------------------------------------------------------------
(* find: depth first over the directories, with a stack of fixed size.      *)

Find ==
  /\ \E c \in Commands :
       /\ c.op = "find" /\ AtPrompt(c)
       /\ IF c.a1 = "" THEN Say("failed")
          ELSE /\ find_stack' = <<ROOT_INODE_NO>> /\ found' = 0
               /\ stage' = "find" /\ says' = Message("nothing")
               /\ UNCHANGED <<vars, current_inode>>
  /\ UNCHANGED <<place, dir_buffer, file_buffer, job>>

find_pop ==
  /\ stage = "find" /\ find_stack # <<>>
  /\ current_inode' = find_stack[Len(find_stack)]
  /\ find_stack' = SubSeq(find_stack, 1, Len(find_stack) - 1)
  /\ stage' = "visit"
  /\ UNCHANGED <<vars, place, dir_buffer, file_buffer, cmd, job, says, found>>

(* Fault: the last slot of the stack is not used.                           *)
PushedShort(stack, dirs) ==
  LET room == FIND_MAX_DEPTH - 1 - Len(stack) IN
  stack \o SubSeq([k \in DOMAIN dirs |-> dirs[k].inode], 1,
                  IF Len(dirs) < room THEN Len(dirs) ELSE room)

(* find_push, for every directory of a scan: a full stack drops the rest.   *)
Pushed(stack, dirs) ==
  LET room == FIND_MAX_DEPTH - Len(stack) IN
  stack \o SubSeq([k \in DOMAIN dirs |-> dirs[k].inode], 1,
                  IF Len(dirs) < room THEN Len(dirs) ELSE room)

FindVisit ==
  /\ stage = "visit"
  /\ LET buf   == read_directory(current_inode)
         named == SelectSeq(Used(Scan(buf)), LAMBDA e : e.name \notin Dots)
         dirs  == SelectSeq(named, LAMBDA e : e.type = "dir")
         hits  == SelectSeq(named, LAMBDA e : e.name = cmd.a1)
     IN  /\ dir_buffer' = buf
         /\ IF ReadDirCode(current_inode) # 0
            THEN UNCHANGED <<find_stack, found>>
            ELSE /\ find_stack' = Pushed(find_stack, dirs)
                 /\ found' = found + Len(hits)
  /\ stage' = "find" /\ current_inode' = 0
  /\ UNCHANGED <<vars, place, file_buffer, cmd, job, says>>

FindDone ==
  /\ stage = "find" /\ find_stack = <<>>
  /\ stage' = "done" /\ says' = [Message("found") EXCEPT !.count = found]
  /\ found' = 0
  /\ UNCHANGED <<vars, place, dir_buffer, file_buffer, cmd, job, find_stack, current_inode>>

-----------------------------------------------------------------------------
(* The machine: the shell, the driver it waits for, power failures.         *)

Driver == Step /\ UNCHANGED shell

(* The shell starts anew after a power failure.                             *)
PowerFailure ==
  /\ Crash
  /\ current_dir_inode' = ROOT_INODE_NO /\ cwd' = <<>>
  /\ dir_buffer' = <<>> /\ file_buffer' = ZeroBuffer
  /\ cmd' = NoCmd /\ stage' = "prompt" /\ job' = NoJob
  /\ says' = Message("nothing") /\ find_stack' = <<>> /\ found' = 0 /\ current_inode' = 0

EnterCommand == \/ CdRoot \/ CdUp \/ CdName \/ Ls \/ Cat \/ Grep \/ Mkdir \/ Echo \/ Rm
                \/ Cp \/ Mv \/ Find

Continue == \/ Made \/ RmDirectory \/ Removed \/ DeleteTarget \/ Retry \/ Copied
            \/ DropSource \/ Moved \/ find_pop \/ FindVisit \/ FindDone \/ Prompt

ShellNext == Driver \/ EnterCommand \/ Continue \/ PowerFailure

ShellSpec == ShellInit /\ [][ShellNext]_all

(* A command once entered is executed: the driver goes on and so does the
   shell; the user need not enter another.                                  *)
ShellFairSpec == ShellSpec /\ WF_all(Driver) /\ WF_all(Continue)

-----------------------------------------------------------------------------
(* Properties.                                                              *)

(* The shell calls the driver as Ext2 assumes it is called: one call at a time
   and always with a working directory, or a target directory, that can be
   reached from the root, whatever has been removed meanwhile.              *)
CallsAllowed == Spec

Holds(d, name) == {e \in Tree : e.dir = d /\ e.name = name}

(* The target of mv is the source: mv f f, mv f . and, in the root, mv f .. *)
SelfMove == job.parent = current_dir_inode /\ job.name = cmd.a1

(* mv keeps what it moves, unless it moves a file onto itself: from the moment
   it has read the source until it is done, some name on the disk leads to the
   whole content, whatever the two writes and two deletes in between return. *)
MoveKeepsContent ==
  cmd.op = "mv" /\ ~SelfMove /\ stage \in {"write", "delete", "retry", "source"} =>
    \E e \in Tree : e.kind = "file" /\ e.data = job.content

(* A command removes nothing but what it names: rm its operand, cp and mv a
   file under the target's name, mv the source.                             *)
OnlyNamedGo ==
  [][\A e \in Tree :
       (\E f \in Tree' : f.node = e.node /\ f.dir = e.dir /\ f.name = e.name)
         \/ /\ cmd.op = "rm"
            /\ e.dir = current_dir_inode /\ e.name = cmd.a1
         \/ /\ cmd.op \in {"cp", "mv"} /\ e.kind = "file"
            /\ e.dir = job.parent /\ e.name = job.name
         \/ /\ cmd.op = "mv" /\ e.kind = "file"
            /\ e.dir = current_dir_inode /\ e.name = cmd.a1]_all

(* "Moved": the target holds what the source held, and the source is gone.  *)
MovedIsThere ==
  says.what = "moved" =>
    /\ \E e \in Holds(job.parent, job.name) : e.kind = "file" /\ e.data = job.content
    /\ Holds(current_dir_inode, cmd.a1) = {}

(* "Copied": source and target both hold what was read.                     *)
CopiedIsThere ==
  says.what = "copied" =>
    \A name \in {cmd.a1, cmd.a2} :
      \E e \in Holds(current_dir_inode, name) : e.kind = "file" /\ e.data = job.content

(* ls shows only entries of the working directory.                          *)
ListsOnly ==
  says.what = "listed" =>
    \A e \in says.list : \E s \in Slots(current_dir_inode) : e = At(current_dir_inode, s)

(* ls shows every name in the working directory.                            *)
ListsAll ==
  says.what = "listed" =>
    \A s \in NamedIn(current_dir_inode) : At(current_dir_inode, s) \in says.list

(* find counts every entry of that name in the whole file system, once.     *)
FindExact ==
  says.what = "found" => says.count = Cardinality({e \in Tree : e.name = cmd.a1})

(* What a command reports is so: about the file system as it is when the
   message appears, after all the calls the command consisted of.           *)
ReportsTrue ==
  /\ ~SelfMove => MovedIsThere
  /\ CopiedIsThere /\ ListsOnly /\ ListsAll /\ FindExact
  /\ says.what = "removed" => Holds(current_dir_inode, cmd.a1) = {}
  /\ says.what = "created" =>
       IF cmd.op = "mkdir"
       THEN \E e \in Holds(current_dir_inode, cmd.a1) : e.kind = "dir"
       ELSE \E e \in Holds(current_dir_inode, cmd.a2) : e.data = <<cmd.a1>>
  /\ says.what = "shown" =>
       \E e \in Holds(current_dir_inode, job.name) : e.data = job.content

(* The path in the prompt shows the way to the working directory, in order, but
   perhaps more: cd .. takes nothing back unless it reaches the root, so names of
   directories that were left stay in it.  In the root there are none: the path
   is "/", with a "." for each cd . since.                                  *)
PathShown ==
  LET walk[k \in 0 .. Len(cwd)] ==   \* where some of the first k names lead
        IF k = 0 THEN {ROOT_INODE_NO}
        ELSE walk[k - 1] \cup
             {e.node : e \in {f \in Tree : f.dir \in walk[k - 1] /\ f.name = cwd[k]}}
  IN  /\ current_dir_inode \in walk[Len(cwd)]
      /\ current_dir_inode = ROOT_INODE_NO => \A k \in DOMAIN cwd : cwd[k] = "."

(* Every command but find comes back to the prompt, whatever its calls return:
   cp and mv try again once.                                                *)
CommandsEnd == stage # "prompt" /\ cmd.op # "find" ~> stage = "prompt"

(* find comes back to the prompt: a depth-first search of a tree that nobody
   changes meanwhile ends.                                                  *)
FindEnds == stage # "prompt" /\ cmd.op = "find" ~> stage = "prompt"
=============================================================================
