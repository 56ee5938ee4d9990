------------------------------- MODULE MCPipe -------------------------------
(* Lines of up to four commands over eight of them (a blank one, and none at
   all), cut by bars with or without a space; room for three commands, pipes
   of four characters and lines of two.                                     *)
EXTENDS Pipe

MCText == [w \in Words |-> CASE w = "ab" -> <<"a", "b">> [] w = "b" -> <<"b">>
                             [] w = "abab" -> <<"a", "b", "a", "b">> [] OTHER -> <<"a">>]
MCSaid == [w \in Words |-> CASE w = "cat" -> <<"b", "n", "n", "a", "b", "n">>
                             [] OTHER -> <<"a", "n">>]
MCContent == [w \in Words |-> IF w = "cat" THEN <<"a", "n", "b", "a", "b", "n", "a", "b">> ELSE <<>>]
(* The file cat is there, so that echo never creates it.                    *)
MCReport == [w \in Words |-> IF w = "cat" THEN <<"b", "n">> ELSE <<"a", "n">>]
MCComplaint == <<"n">>

Commands == { <<>>, <<"_">>, <<"echo", "_", "abab">>, <<"echo", "_", "abab", "_", "cat">>,
              <<"cat">>,
              <<"grep", "_", "b">>, <<"_", "grep", "_", "ab">>,
              <<"grep", "_", "b", "_", "cat">> }
Bars1 == { <<"|">>, <<"|", "_">> }
Lines1 == Commands
Lines2 == Lines1 \cup { c \o b \o l : c \in Commands, b \in Bars1, l \in Lines1 }
Lines3 == Lines2 \cup { c \o <<"|", "_">> \o l : c \in Commands, l \in Lines2 }
MCLines == (Lines3 \cup { c \o <<"|">> \o l : c \in Commands, l \in Lines3 }) \ {<<>>}
=============================================================================
