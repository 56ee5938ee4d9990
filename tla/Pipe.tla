-------------------------------- MODULE Pipe --------------------------------
(***************************************************************************)
(* Pipelines of the shell (src/src/user/shell.c): main cuts the line at    *)
(* the bars, runs the commands one after the other, and passes what one    *)
(* prints to the next through two buffers.  A word of the line is a value, *)
(* what a command reads and prints is a sequence of characters.  What the  *)
(* commands do to the file system is in Shell.                             *)
(***************************************************************************)
EXTENDS Integers, Sequences

CONSTANTS
  PIPE_BUFFER_SIZE,  \* 4096
  MAX_CMDS,          \* entries of pipe_cmds, 8
  LINE_SIZE,         \* bytes of grep's line, 256
  Words, Bar, Space, \* what a line is made of
  Chars, Newline,    \* what texts are made of
  Text,              \* the characters of a word
  Said,              \* what a command other than echo and grep prints
  Content,           \* the content of the file with this name
  Report,            \* what echo prints when it is to write the file with this name
  Complaint,         \* what echo and grep print when an argument is missing
  InputLines         \* lines the user enters, none of them empty

ASSUME PipeAssumption ==
  /\ PIPE_BUFFER_SIZE \in Nat \ {0}
  /\ MAX_CMDS \in Nat \ {0} /\ LINE_SIZE \in Nat \ {0, 1}
  /\ Newline \in Chars
  /\ Text \in [Words -> Seq(Chars)] /\ Said \in [Words -> Seq(Chars)]
  /\ Content \in [Words -> Seq(Chars)] /\ Report \in [Words -> Seq(Chars)]
  /\ Complaint \in Seq(Chars)
  /\ {"echo", "grep"} \subseteq Words
  /\ Bar \notin Words /\ Space \notin Words /\ Bar # Space
  /\ InputLines \subseteq Seq(Words \cup {Bar, Space}) \ {<<>>}

VARIABLES
  input_buf,          \* the line
  pipe_cmds,          \* its commands
  pipe_idx,           \* the one that runs
  stage,              \* where main is
  pipe_output,        \* pipe_output_buffer up to pipe_output_len
  pipe_input,         \* pipe_input_buffer up to pipe_input_len
  pipe_input_pos,
  pipe_mode_output, pipe_mode_input,
  screen              \* what PUTS and PUTCHAR got since the line was entered

buffers == <<pipe_output, pipe_input, pipe_input_pos>>
modes == <<pipe_mode_output, pipe_mode_input>>
vars == <<input_buf, pipe_cmds, pipe_idx, stage, buffers, modes, screen>>

AtMost(n, s) == IF Len(s) <= n THEN s ELSE SubSeq(s, 1, n)

-----------------------------------------------------------------------------
(* The first place from p on without a space, and what stands between p and
   the next bar; main writes a 0 over each bar.                             *)
SkipSpaces(line, p) ==
  CHOOSE q \in p .. Len(line) + 1 :
    /\ \A r \in p .. q - 1 : line[r] = Space
    /\ q <= Len(line) => line[q] # Space

SegmentAt(line, p) ==
  SubSeq(line, p, (CHOOSE q \in p .. Len(line) + 1 :
                     /\ \A r \in p .. q - 1 : line[r] # Bar
                     /\ q <= Len(line) => line[q] = Bar) - 1)

(* Places where main starts another command when it reads on from p.        *)
CommandsFrom(line) ==
  LET from[p \in 1 .. Len(line) + 1] ==
        IF p > Len(line) THEN <<>>
        ELSE IF line[p] # Bar THEN from[p + 1]
        ELSE LET q == SkipSpaces(line, p + 1)
             IN  (IF q <= Len(line) THEN << SegmentAt(line, q) >> ELSE <<>>) \o from[q]
  IN  from

Split(line) == AtMost(MAX_CMDS, << SegmentAt(line, 1) >> \o CommandsFrom(line)[1])

(* parse_input: cmd, arg1 and arg2 are the first three words.               *)
parse_input(segment) ==
  LET upTo[i \in 0 .. Len(segment)] ==
        IF i = 0 THEN <<>>
        ELSE IF segment[i] = Space THEN upTo[i - 1]
        ELSE Append(upTo[i - 1], segment[i])
  IN  upTo[Len(segment)]

-----------------------------------------------------------------------------
(* puts and putchar: into the buffer, which drops what does not fit, or to
   the screen.  Fault: the last byte is not kept for the end of the string. *)
PutsFull(text) ==
  IF pipe_mode_output
  THEN /\ pipe_output' = AtMost(PIPE_BUFFER_SIZE, pipe_output \o text)
       /\ UNCHANGED screen
  ELSE screen' = screen \o text /\ UNCHANGED pipe_output

Puts(text) ==
  IF pipe_mode_output
  THEN /\ pipe_output' = AtMost(PIPE_BUFFER_SIZE - 1, pipe_output \o text)
       /\ UNCHANGED screen
  ELSE screen' = screen \o text /\ UNCHANGED pipe_output

pipe_reset ==
  /\ pipe_output' = <<>> /\ pipe_input' = <<>> /\ pipe_input_pos' = 0
  /\ pipe_mode_output' = FALSE /\ pipe_mode_input' = FALSE

(* The line pipe_getline reads next, the position after it, and whether it
   returns true.  Fault: a newline is not consumed.                         *)
pipe_getline_stuck ==
  LET rest == SubSeq(pipe_input, pipe_input_pos + 1, Len(pipe_input))
      ends == {i \in 1 .. Len(rest) : rest[i] = Newline \/ i = LINE_SIZE}
      n == IF ends = {} THEN Len(rest) ELSE (CHOOSE i \in ends : \A j \in ends : i <= j) - 1
  IN  [line |-> SubSeq(rest, 1, n), pos |-> pipe_input_pos + n, more |-> n < Len(rest)]

pipe_getline ==
  LET rest == SubSeq(pipe_input, pipe_input_pos + 1, Len(pipe_input))
      ends == {i \in 1 .. Len(rest) : rest[i] = Newline \/ i = LINE_SIZE}
      n == IF ends = {} THEN Len(rest) ELSE (CHOOSE i \in ends : \A j \in ends : i <= j) - 1
      taken == IF n < LINE_SIZE - 1 /\ n < Len(rest) THEN n + 1 ELSE n
  IN  [line |-> SubSeq(rest, 1, n), pos |-> pipe_input_pos + taken,
       more |-> n > 0 \/ taken < Len(rest)]

str_contains(haystack, needle) ==
  \E i \in 0 .. Len(haystack) - Len(needle) :
    \A j \in 1 .. Len(needle) : haystack[i + j] = needle[j]

(* cmd_grep on a file: at the end of each line it prints the line if it holds
   the pattern; a line that does not fit its buffer is skipped.             *)
GrepFile(file, pattern) ==
  LET start(i) == CHOOSE s \in 1 .. i : /\ s > 1 => file[s - 1] = Newline
                                       /\ \A j \in s .. i - 1 : file[j] # Newline
      line(i) == SubSeq(file, start(i), i - 1)
      upTo[i \in 0 .. Len(file) + 1] ==
        IF i = 0 THEN <<>>
        ELSE upTo[i - 1] \o
             IF /\ i = Len(file) + 1 \/ file[i] = Newline
                /\ line(i) # <<>> /\ Len(line(i)) < LINE_SIZE
                /\ str_contains(line(i), pattern)
             THEN line(i) \o << Newline >> ELSE <<>>
  IN  upTo[Len(file) + 1]

-----------------------------------------------------------------------------
Init ==
  /\ input_buf = <<>> /\ pipe_cmds = <<>> /\ pipe_idx = 0
  /\ stage = "prompt"
  /\ pipe_output = <<>> /\ pipe_input = <<>> /\ pipe_input_pos = 0
  /\ pipe_mode_output = FALSE /\ pipe_mode_input = FALSE
  /\ screen = <<>>

ReadLine(line) ==
  /\ stage = "prompt"
  /\ input_buf' = line
  /\ pipe_reset
  /\ pipe_cmds' = Split(line) /\ pipe_idx' = 1
  /\ stage' = "setup"
  /\ UNCHANGED screen

Last == pipe_idx = Len(pipe_cmds)

(* pipe_set_output_mode empties the buffer it directs output to,
   pipe_set_input_mode starts from the front.                               *)
SetUp ==
  /\ stage = "setup"
  /\ pipe_mode_output' = ~Last
  /\ pipe_output' = IF Last THEN pipe_output ELSE <<>>
  /\ pipe_mode_input' = (pipe_mode_input \/ pipe_idx > 1)
  /\ pipe_input_pos' = IF pipe_idx > 1 THEN 0 ELSE pipe_input_pos
  /\ stage' = "execute"
  /\ UNCHANGED <<input_buf, pipe_cmds, pipe_idx, pipe_input, screen>>

Parsed == parse_input(pipe_cmds[pipe_idx])

(* What a command prints that does not read the pipe; echo with a file name
   writes the file and prints only how that went.                           *)
Prints(words) ==
  CASE words = <<>> -> <<>>
    [] words # <<>> /\ Head(words) \notin {"echo", "grep"} -> Said[Head(words)]
    [] Len(words) = 2 /\ Head(words) = "echo" -> Text[words[2]] \o << Newline >>
    [] Len(words) > 2 /\ Head(words) = "echo" -> Report[words[3]]
    [] Len(words) > 2 /\ Head(words) = "grep" -> GrepFile(Content[words[3]], Text[words[2]])
    [] OTHER -> Complaint

(* grep with a pattern reads the pipe; a file given beside it is ignored.   *)
ReadsPipe(words) == Len(words) > 1 /\ Head(words) = "grep"

Execute ==
  /\ stage = "execute"
  /\ IF ReadsPipe(Parsed) /\ pipe_mode_input
     THEN stage' = "grep" /\ UNCHANGED <<pipe_output, screen>>
     ELSE stage' = "executed" /\ Puts(Prints(Parsed))
  /\ UNCHANGED <<input_buf, pipe_cmds, pipe_idx, pipe_input, pipe_input_pos, modes>>

(* One turn of cmd_grep's loop over the pipe.                               *)
GrepLine ==
  /\ stage = "grep" /\ pipe_getline.more
  /\ pipe_input_pos' = pipe_getline.pos
  /\ IF str_contains(pipe_getline.line, Text[Parsed[2]])
     THEN Puts(pipe_getline.line \o << Newline >>)
     ELSE UNCHANGED <<pipe_output, screen>>
  /\ UNCHANGED <<input_buf, pipe_cmds, pipe_idx, stage, pipe_input, modes>>

GrepEnd ==
  /\ stage = "grep" /\ ~pipe_getline.more
  /\ pipe_input_pos' = pipe_getline.pos
  /\ stage' = "executed"
  /\ UNCHANGED <<input_buf, pipe_cmds, pipe_idx, pipe_output, pipe_input, modes, screen>>

(* Fault: the next command reads what is left of the old input too.         *)
TransferAppending ==
  /\ pipe_input' = pipe_input \o pipe_output
  /\ pipe_input_pos' = 0
  /\ pipe_output' = <<>>

pipe_transfer_output_to_input ==
  /\ pipe_input' = pipe_output
  /\ pipe_input_pos' = 0
  /\ pipe_output' = <<>>

NextCommand ==
  /\ stage = "executed" /\ ~Last
  /\ pipe_transfer_output_to_input
  /\ pipe_idx' = pipe_idx + 1
  /\ stage' = "setup"
  /\ UNCHANGED <<input_buf, pipe_cmds, modes, screen>>

LineDone ==
  /\ stage = "executed" /\ Last
  /\ pipe_reset
  /\ stage' = "done"
  /\ UNCHANGED <<input_buf, pipe_cmds, pipe_idx, screen>>

(* main clears input_buf before it reads the next line.                     *)
Prompt ==
  /\ stage = "done"
  /\ input_buf' = <<>> /\ pipe_cmds' = <<>> /\ pipe_idx' = 0 /\ screen' = <<>>
  /\ stage' = "prompt"
  /\ UNCHANGED <<buffers, modes>>

Run == SetUp \/ Execute \/ GrepLine \/ GrepEnd \/ NextCommand \/ LineDone \/ Prompt

Next == Run \/ \E line \in InputLines : ReadLine(line)

Spec == Init /\ [][Next]_vars

(* The shell goes on; the user need not enter anything.                     *)
FairSpec == Spec /\ WF_vars(Run)

-----------------------------------------------------------------------------
(* The buffers stay inside their arrays, with a byte to spare in the output
   buffer, and the reading position inside what was passed on.              *)
PipeInBounds ==
  /\ Len(pipe_output) < PIPE_BUFFER_SIZE /\ Len(pipe_input) < PIPE_BUFFER_SIZE
  /\ pipe_input_pos \in 0 .. Len(pipe_input)
  /\ Len(pipe_cmds) <= MAX_CMDS
  /\ stage # "prompt" => pipe_idx \in DOMAIN pipe_cmds

(* What a line means.  Its commands are the texts between the bars, except a
   blank one at the end.                                                    *)
Bars(line) == {0, Len(line) + 1} \cup {p \in 1 .. Len(line) : line[p] = Bar}
Segments(line) ==
  LET after(b) == CHOOSE c \in Bars(line) : c > b /\ \A d \in Bars(line) : d > b => c <= d
      between[b \in Bars(line) \ {Len(line) + 1}] ==
        LET words == parse_input(SubSeq(line, b + 1, after(b) - 1))
        IN  IF after(b) = Len(line) + 1
            THEN IF words = <<>> /\ b > 0 THEN <<>> ELSE << words >>
            ELSE << words >> \o between[after(b)]
  IN  between[0]

(* The lines of a text.                                                     *)
LinesOf(text) ==
  LET from[p \in 1 .. Len(text) + 1] ==   \* the lines of text from p on
        LET stop == CHOOSE q \in p .. Len(text) + 1 :
                      /\ q > Len(text) \/ text[q] = Newline
                      /\ \A r \in p .. q - 1 : text[r] # Newline
        IN  << SubSeq(text, p, stop - 1) >>
              \o IF stop > Len(text) THEN <<>> ELSE from[stop + 1]
  IN  from[1]

Flat(s) == LET from[k \in 1 .. Len(s) + 1] == IF k > Len(s) THEN <<>> ELSE s[k] \o from[k + 1]
           IN  from[1]

(* A line in pieces that fit grep's buffer.                                 *)
Pieces(line) ==
  LET n == LINE_SIZE - 1
  IN  [k \in 1 .. (Len(line) + n - 1) \div n |->
         SubSeq(line, (k - 1) * n + 1, IF k * n < Len(line) THEN k * n ELSE Len(line))]

(* The lines with the pattern, each with a newline.                         *)
Selected(lines, pattern) ==
  LET Has(line) == \E i \in 0 .. Len(line) - Len(pattern) :
                     SubSeq(line, i + 1, i + Len(pattern)) = pattern
      With(line) == line \o << Newline >>
      chosen == SelectSeq(lines, Has)
  IN  Flat([k \in DOMAIN chosen |-> With(chosen[k])])

(* What command k of a line prints, given what reaches it through the pipe. *)
Means(words, k, input) ==
  LET Fits(line) == Len(line) < LINE_SIZE
      lines == LinesOf(input)
  IN  IF k > 1 /\ ReadsPipe(words)
      THEN Selected(Flat([i \in DOMAIN lines |-> Pieces(lines[i])]), Text[words[2]])
      ELSE IF Len(words) > 2 /\ Head(words) = "grep"
      THEN Selected(SelectSeq(LinesOf(Content[words[3]]), Fits), Text[words[2]])
      ELSE Prints(words)

Meaning(line) ==
  LET cmds == AtMost(MAX_CMDS, Segments(line))
      prints[k \in 0 .. Len(cmds)] ==
        IF k = 0 THEN <<>>
        ELSE Means(cmds[k], k, AtMost(PIPE_BUFFER_SIZE - 1, prints[k - 1]))
  IN  prints[Len(cmds)]

(* A pipeline is the composition of its commands: when the line is done, the
   screen shows what the last one prints, given what the one before it printed
   as far as the buffer holds it, and so on: nothing of an earlier command or
   an earlier line gets through by another way.                             *)
PipelineComposes ==
  stage = "done" => screen = Meaning(input_buf)

(* Every pipeline comes back to the prompt: grep's loop reads its input up. *)
LinesEnd == (stage = "setup") ~> (stage = "prompt")
=============================================================================
