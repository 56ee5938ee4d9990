------------------------------ MODULE MCShell ------------------------------
(* Small instances of Shell.  A run's cfg chooses the geometry and one of the
   sets of commands.                                                        *)
EXTENDS Shell

(* Every record takes 12 bytes.                                             *)
MCNameLen == [n \in Names \cup Dots |->
                CASE n = "." -> 1 [] n = ".." -> 2 [] OTHER -> 3]

MCContents == {<<c>> : c \in Chunks}

Line(op, a1, a2) == [op |-> op, a1 |-> a1, a2 |-> a2]

(* Walking about and looking: directories only.                             *)
Walking ==
  {Line("cd", "d", ""), Line("cd", ".", ""), Line("cd", "..", ""), Line("cd", "", ""),
   Line("ls", "", ""), Line("mkdir", "d", ""), Line("mkdir", "", ""),
   Line("rm", "d", ""), Line("rm", "", ""), Line("find", "d", ""), Line("find", "", "")}

(* Files.  "d" may be a directory, a file or nothing; mv f .. in the root
   moves a file onto itself.                                                *)
Filing ==
  {Line("cd", "d", ""), Line("cd", "..", ""), Line("mkdir", "d", ""),
   Line("echo", "x", "f"), Line("echo", "x", ""), Line("cat", "f", ""),
   Line("grep", "x", "d"), Line("grep", "", "f"), Line("cp", "f", "d"), Line("mv", "f", "d"),
   Line("mv", "f", ".."), Line("rm", "f", ""), Line("rm", "d", ""),
   Line("ls", "", ""), Line("find", "f", "")}

(* A file moved onto its own name.                                          *)
Renaming == {Line("echo", "x", "f"), Line("mv", "f", "f"), Line("mv", "f", "d")}

(* Two directories side by side, and a search for neither.                  *)
Searching == {Line("mkdir", "d", ""), Line("mkdir", "f", ""), Line("find", "x", "")}
=============================================================================
