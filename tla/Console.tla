------------------------------ MODULE Console -------------------------------
(***************************************************************************)
(* What the user sees: the shell's main loop (src/src/user/shell.c) reads  *)
(* the keyboard ring through GETCHAR, edits a line and echoes it on the    *)
(* terminal, while key presses interrupt it anywhere.  What a command does *)
(* is in Shell and Pipe; here it prints something.                         *)
(***************************************************************************)
EXTENDS Keyboard, Terminal

CONSTANTS
  MaxInput,   \* characters input_buf takes, 255
  PromptText, \* what the prompt prints, the path included
  Banner,     \* what main prints when it starts; begins with a newline
  BootText,   \* letters kernel_setup leaves at the start of the first row
  Outputs     \* what commands may print

ASSUME ConsoleAssumption ==
  /\ MaxInput \in Nat \ {0}
  /\ Len(PromptText) + MaxInput <= W * (H - 1)
  /\ BootText \in Seq(Glyphs) /\ Len(BootText) <= W
  /\ PromptText \in Seq(Glyphs) /\ Banner \in Seq(Characters)
  /\ Outputs \subseteq Seq(Characters) /\ Chars \subseteq Characters
  /\ Banner # <<>> /\ Head(Banner) = Newline

VARIABLES
  sh,         \* where main is
  input_buf,  \* the line so far
  out,        \* what the shell is printing, not yet shown
  command     \* the command of the last line, if it had one

shell == <<sh, input_buf, out, command>>
consoleVars == <<vars, terminal, shell>>

ConsoleInit ==
  /\ Init
  /\ fb = [p \in Cells |-> IF p < Len(BootText) THEN BootText[p + 1] ELSE framebuffer_clear[p]]
  /\ sys_row = 0 /\ sys_col = 0 /\ cursor = 0
  /\ sh = "start" /\ input_buf = <<>> /\ out = <<>> /\ command = "none"

(* main switches the keyboard on and prints its banner.                     *)
Start ==
  /\ sh = "start"
  /\ keyboard_state_activate
  /\ out' = Banner
  /\ sh' = "prompt"
  /\ UNCHANGED <<terminal, input_buf, command>>

(* PUTCHAR or PUTS shows its next character.                                *)
Display ==
  /\ out # <<>>
  /\ Put(Head(out), Len(out) = 1)
  /\ out' = Tail(out)
  /\ UNCHANGED <<vars, sh, input_buf, command>>

(* The shell itself goes on when what it printed is shown.                  *)
At(place) == sh = place /\ out = <<>>

Prompt ==
  /\ At("prompt")
  /\ out' = PromptText
  /\ input_buf' = <<>>
  /\ sh' = "read"
  /\ UNCHANGED <<vars, terminal, command>>

(* getchar, again and again until it returns a character.                   *)
Poll ==
  /\ At("read")
  /\ Get
  /\ sh' = IF got' = NoChar \/ pc' # "idle" THEN "read" ELSE "edit"
  /\ UNCHANGED <<terminal, input_buf, out, command>>

Insert ==
  IF Len(input_buf) < MaxInput
  THEN input_buf' = Append(input_buf, got) /\ out' = << got >>
  ELSE UNCHANGED <<input_buf, out>>

(* Nothing is erased before the start of the line.                          *)
Erase ==
  IF input_buf # <<>>
  THEN input_buf' = SubSeq(input_buf, 1, Len(input_buf) - 1) /\ out' = << Backspace >>
  ELSE UNCHANGED <<input_buf, out>>

(* One character of the line editor; arrow keys are characters like others. *)
Edit ==
  /\ At("edit")
  /\ \/ /\ got = Newline
        /\ out' = << Newline >>
        /\ sh' = IF input_buf = <<>> THEN "prompt" ELSE "run"
        /\ UNCHANGED input_buf
     \/ got = Backspace /\ Erase /\ sh' = "read"
     \/ got \notin {Newline, Backspace} /\ Insert /\ sh' = "read"
  /\ command' = IF got = Newline THEN "none" ELSE command
  /\ UNCHANGED <<vars, terminal>>

Run ==
  /\ At("run")
  /\ out' \in Outputs
  /\ command' = "other"
  /\ sh' = "prompt"
  /\ UNCHANGED <<vars, terminal, input_buf>>

(* Fault: too few newlines.                                                 *)
ClearTextShort == [i \in 1 .. H - 2 |-> Newline]

ClearText == [i \in 1 .. H |-> Newline]

cmd_clear ==
  /\ At("run")
  /\ out' = ClearText
  /\ command' = "clear"
  /\ sh' = "prompt"
  /\ UNCHANGED <<vars, terminal, input_buf>>

Interrupted == (\E code \in Scancodes : KeyboardIsr(code)) /\ UNCHANGED <<terminal, shell>>

Main == Start \/ Display \/ Prompt \/ Poll \/ Edit \/ Run \/ cmd_clear

ConsoleNext == Main \/ Interrupted

ConsoleSpec == ConsoleInit /\ [][ConsoleNext]_consoleVars

(* The shell goes on: system calls return, nothing preempts it for good.    *)
ConsoleFairSpec == ConsoleSpec /\ WF_consoleVars(Main)

-----------------------------------------------------------------------------
(* Every variable of the console keeps its type.                            *)
ConsoleTypeOK ==
  /\ TypeOK /\ TerminalTypeOK
  /\ sh \in {"start", "prompt", "read", "edit", "run"}
  /\ input_buf \in Seq(Chars) /\ Len(input_buf) <= MaxInput
  /\ out \in Seq(Characters)
  /\ sh = "edit" => got # NoChar
  /\ command \in {"none", "clear", "other"}

(* While the user types, the screen shows the prompt and the line in the
   buffer, whole, right before the cursor: across wraps, scrolling, erasing
   and keys typed ahead, the line that Enter runs is the line shown.        *)
LineOnScreen ==
  At("read") =>
    LET line == PromptText \o input_buf
    IN  /\ cursor = Here
        /\ Here >= Len(line)
        /\ \A k \in 1 .. Len(line) : fb[Here - Len(line) + k - 1] = line[k]

(* From the first newline of the banner on, nothing is shown at or after the
   place of the next character.                                             *)
NothingBelow == sh # "start" /\ out # Banner => BlankAhead

(* After clear the screen shows the prompt and the line, and nothing else:
   cmd_clear prints newlines, whatever row it starts in.                    *)
ClearClears ==
  At("read") /\ command = "clear" =>
    \A p \in 0 .. Here - Len(PromptText \o input_buf) - 1 : fb[p] = Blank

(* A line ended by Enter is taken up, however it was typed ahead: once the key
   is in the ring the shell comes to the end of its line.                   *)
EntersTaken ==
  (\E i \in 1 .. Count : Queue[i] = Newline) ~> (sh = "edit" /\ got = Newline)
=============================================================================
