------------------------------ MODULE Terminal ------------------------------
(***************************************************************************)
(* The text screen: framebuffer.c and the PUTCHAR and PUTS system calls of *)
(* src/src/cpu/interrupt.c, which treat a character the same way.  Colours *)
(* are left out.                                                           *)
(***************************************************************************)
EXTENDS Integers, Sequences

CONSTANTS
  FRAMEBUFFER_WIDTH, FRAMEBUFFER_HEIGHT,
  Glyphs,              \* characters that show
  Blank,               \* ' ', one of them
  Newline, Backspace   \* characters that do not

W == FRAMEBUFFER_WIDTH
H == FRAMEBUFFER_HEIGHT

ASSUME TerminalAssumption ==
  /\ W \in Nat \ {0} /\ H \in Nat \ {0}
  /\ Blank \in Glyphs
  /\ Newline \notin Glyphs /\ Backspace \notin Glyphs /\ Newline # Backspace

VARIABLES
  fb,                 \* text memory, row after row
  sys_row, sys_col,   \* where the next character goes
  cursor              \* the position the screen shows

Characters == Glyphs \cup {Newline, Backspace}

terminal == <<fb, sys_row, sys_col, cursor>>

Cells == 0 .. W * H - 1
Position(row, col) == row * W + col

framebuffer_clear == [p \in Cells |-> Blank]
framebuffer_write(row, col, c) == [fb EXCEPT ![Position(row, col)] = c]

(* What one character does before the screen scrolls: the text memory, and
   the row and column after it.  Fault: a backspace in the first column stays
   there.                                                                   *)
ErasedInRow ==
  LET col == IF sys_col > 0 THEN sys_col - 1 ELSE sys_col
  IN  [fb |-> framebuffer_write(sys_row, col, Blank), row |-> sys_row, col |-> col]

Erased ==
  LET row == IF sys_col = 0 /\ sys_row > 0 THEN sys_row - 1 ELSE sys_row
      col == IF sys_col > 0 THEN sys_col - 1 ELSE IF sys_row > 0 THEN W - 1 ELSE 0
  IN  [fb |-> framebuffer_write(row, col, Blank), row |-> row, col |-> col]

LineEnded == [fb |-> fb, row |-> sys_row + 1, col |-> 0]

Shown(c) ==
  LET wraps == sys_col + 1 >= W
  IN  [fb |-> framebuffer_write(sys_row, sys_col, c),
       row |-> IF wraps THEN sys_row + 1 ELSE sys_row,
       col |-> IF wraps THEN 0 ELSE sys_col + 1]

Written(c) == IF c = Backspace THEN Erased
              ELSE IF c = Newline THEN LineEnded
              ELSE Shown(c)

(* Fault: the last line keeps its old text.                                 *)
ScrolledKeeping(t) ==
  IF t.row >= H
  THEN [fb |-> [p \in Cells |-> IF p < (H - 1) * W THEN t.fb[p + W] ELSE t.fb[p]],
        row |-> H - 1, col |-> t.col]
  ELSE t

(* Past the last row every line moves up and the last one is cleared.       *)
Scrolled(t) ==
  IF t.row >= H
  THEN [fb |-> [p \in Cells |-> IF p < (H - 1) * W THEN t.fb[p + W] ELSE Blank],
        row |-> H - 1, col |-> t.col]
  ELSE t

(* One character of a PUTCHAR or PUTS; framebuffer_set_cursor follows the
   last one of the call.                                                    *)
Put(c, last) ==
  LET t == Scrolled(Written(c))
  IN  /\ fb' = t.fb
      /\ sys_row' = t.row /\ sys_col' = t.col
      /\ cursor' = IF last THEN Position(t.row, t.col) ELSE cursor

Here == Position(sys_row, sys_col)

(* The cursor is on the screen.                                             *)
TerminalTypeOK ==
  /\ fb \in [Cells -> Glyphs]
  /\ sys_row \in 0 .. H - 1 /\ sys_col \in 0 .. W - 1
  /\ cursor \in Cells

(* Nothing is shown at or after the place of the next character: what wraps,
   scrolls and erases never leaves old text there.                          *)
BlankAhead == \A p \in Cells : p >= Here => fb[p] = Blank
=============================================================================
