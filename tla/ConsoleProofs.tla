---------------------------- MODULE ConsoleProofs ---------------------------
(***************************************************************************)
(* For every ring of the keyboard driver: its types, the stability of what *)
(* get_keyboard_buffer saw while it is interrupted, and that the driver    *)
(* implements the queue of KeyQueue.  For every screen, ring and line      *)
(* length: the terminal never writes outside text memory, nothing is shown *)
(* after the place of the next character, the line being typed is the line *)
(* shown, and clear clears.                                                *)
(***************************************************************************)
EXTENDS Console, TLAPS

-----------------------------------------------------------------------------
(* The keyboard driver.                                                     *)

(* The size of the ring is a number greater than 1.                         *)
LEMMA SizeFact == N \in Nat /\ N > 1
  BY KeyboardAssumption DEF N

(* Stepping an index inside the ring, without the modulus.                  *)
LEMMA SuccFact ==
  ASSUME NEW i \in 0 .. N - 1
  PROVE  /\ Succ(i) = IF i + 1 = N THEN 0 ELSE i + 1
         /\ Succ(i) \in 0 .. N - 1
  <1>1. CASE i + 1 = N
    BY <1>1, SizeFact DEF Succ
  <1>2. CASE i + 1 < N
    BY <1>2, SizeFact DEF Succ
  <1>. QED  BY <1>1, <1>2, SizeFact

(* The inductive invariant: types, and the two facts get_keyboard_buffer relies
   on while it is interrupted.                                              *)
Inv == TypeOK /\ SlotStable

(* The zero-initialised driver satisfies the invariant.                     *)
LEMMA InitInv == Init => Inv
  <1>. SUFFICES ASSUME Init PROVE Inv
    OBVIOUS
  <1>1. head \in 0 .. N - 1 /\ tail \in 0 .. N - 1 /\ sent \in 0 .. MaxKeys
    BY SizeFact, KeyboardAssumption DEF Init
  <1>2. buffer \in [0 .. N - 1 -> Chars \cup {NoChar}]
    BY DEF Init
  <1>. QED  BY <1>1, <1>2 DEF Init, Inv, TypeOK, SlotStable

(* Every step keeps it; the handler moves only the head, and never onto the
   tail, so it cannot disturb an interrupted get_keyboard_buffer.           *)
LEMMA StepInv == Inv /\ [Next]_vars => Inv'
  <1>. SUFFICES ASSUME Inv, [Next]_vars PROVE Inv'
    OBVIOUS
  <1>. USE DEF Inv, TypeOK, SlotStable
  <1>1. CASE GetEmpty
    BY <1>1 DEF GetEmpty, driver
  <1>2. CASE GetCheck
    BY <1>2 DEF GetCheck, driver
  <1>3. CASE GetRead
    BY <1>3 DEF GetRead, driver
  <1>4. CASE GetAdvance
    BY <1>4, SuccFact DEF GetAdvance
  <1>5. CASE keyboard_state_activate
    BY <1>5 DEF keyboard_state_activate
  <1>6. ASSUME NEW code \in Scancodes, KeyboardIsr(code)
        PROVE  Inv'
    <2>. USE <1>6
    <2>a. /\ sent' \in 0 .. MaxKeys
          /\ UNCHANGED <<tail, keyboard_input_on, pc, char, got>>
      BY KeyboardAssumption DEF KeyboardIsr
    <2>b. read_extended_mode' \in BOOLEAN
      BY DEF KeyboardIsr
    <2>1. CASE UNCHANGED <<buffer, head>>
      BY <2>1, <2>a, <2>b
    <2>2. CASE \E c \in Chars : /\ Succ(head) # tail
                                /\ buffer' = [buffer EXCEPT ![head] = c]
                                /\ head' = Succ(head)
      <3>1. PICK c \in Chars : /\ Succ(head) # tail
                               /\ buffer' = [buffer EXCEPT ![head] = c]
                               /\ head' = Succ(head)
        BY <2>2
      <3>2. buffer' \in [0 .. N - 1 -> Chars \cup {NoChar}]
        BY <3>1
      <3>3. head' \in 0 .. N - 1
        BY <3>1, SuccFact
      <3>4. SlotStable'
        BY <3>1, <2>a
      <3>. QED  BY <2>a, <2>b, <3>2, <3>3, <3>4
    <2>. QED  BY <1>6, <2>1, <2>2, KeyboardAssumption DEF KeyboardIsr, add_to_buffer
  <1>7. CASE UNCHANGED vars
    BY <1>7 DEF vars, driver
  <1>. QED  BY <1>1, <1>2, <1>3, <1>4, <1>5, <1>6, <1>7 DEF Next, Get

(* The modulus of a sum of two indices.                                     *)
LEMMA ModFact ==
  \A a \in 0 .. 2 * N - 1 : a % N = IF a < N THEN a ELSE a - N
  <1>. TAKE a \in 0 .. 2 * N - 1
  <1>1. CASE a < N
    BY <1>1, SizeFact
  <1>2. CASE a >= N
    <2>1. a = 1 * N + (a - N) /\ a - N \in 0 .. N - 1
      BY <1>2, SizeFact
    <2>. QED  BY <2>1, <1>2, SizeFact
  <1>. QED  BY <1>1, <1>2, SizeFact

(* The number of characters in the ring, and the slot of each.              *)
LEMMA CountFact ==
  ASSUME TypeOK
  PROVE  /\ Count = IF head >= tail THEN head - tail ELSE head + N - tail
         /\ Count \in 0 .. N - 1
         /\ \A i \in 1 .. N : (tail + i - 1) % N
                 = IF tail + i - 1 < N THEN tail + i - 1 ELSE tail + i - 1 - N
  <1>3. Count = IF head + N - tail < N THEN head + N - tail
                                       ELSE head + N - tail - N
    <2>1. PICK a \in 0 .. 2 * N - 1 : a = head + N - tail
      BY SizeFact DEF TypeOK
    <2>2. a % N = IF a < N THEN a ELSE a - N
      BY ModFact
    <2>3. Count = a % N
      BY <2>1 DEF Count
    <2>. QED  BY <2>1, <2>2, <2>3, SizeFact DEF TypeOK
  <1>4. ASSUME NEW i \in 1 .. N
        PROVE  (tail + i - 1) % N
                 = IF tail + i - 1 < N THEN tail + i - 1 ELSE tail + i - 1 - N
    <2>1. PICK a \in 0 .. 2 * N - 1 : a = tail + i - 1
      BY SizeFact DEF TypeOK
    <2>2. a % N = IF a < N THEN a ELSE a - N
      BY ModFact
    <2>. QED  BY <2>1, <2>2, SizeFact DEF TypeOK
  <1>. QED  BY <1>3, <1>4, SizeFact DEF TypeOK

(* The queue seen through CountFact.                                        *)
Slot(i) == IF tail + i - 1 < N THEN tail + i - 1 ELSE tail + i - 1 - N

QueueShape ==
  /\ Count = IF head >= tail THEN head - tail ELSE head + N - tail
  /\ Count \in 0 .. N - 1
  /\ Queue \in Seq(Chars \cup {NoChar})
  /\ Len(Queue) = Count
  /\ \A i \in 1 .. Count : Queue[i] = buffer[Slot(i)]

(* The length and the elements of the ring seen as a queue.                 *)
LEMMA QueueFact == TypeOK => QueueShape
  <1>. SUFFICES ASSUME TypeOK PROVE QueueShape
    OBVIOUS
  <1>1. /\ Count = IF head >= tail THEN head - tail ELSE head + N - tail
        /\ Count \in 0 .. N - 1
    BY CountFact
  <1>2. \A i \in 1 .. Count : (tail + i - 1) % N = Slot(i)
    BY CountFact, SizeFact DEF Slot
  <1>3. \A i \in 1 .. Count : Slot(i) \in 0 .. N - 1
    BY <1>1, SizeFact DEF Slot, TypeOK
  <1>4. Queue = [i \in 1 .. Count |-> buffer[Slot(i)]]
    BY <1>2 DEF Queue
  <1>5. \A i \in 1 .. Count : buffer[Slot(i)] \in Chars \cup {NoChar}
    BY <1>3 DEF TypeOK
  <1>. QED  BY <1>1, <1>4, <1>5 DEF QueueShape

(* Every reachable state of the driver is well typed, and an interrupted
   get_keyboard_buffer still holds the character of the slot at the tail.   *)
THEOREM DriverInvariant == Spec => [](TypeOK /\ SlotStable)
  <1>1. Inv => TypeOK /\ SlotStable
    BY DEF Inv
  <1>. QED  BY InitInv, StepInv, <1>1, PTL DEF Spec

(* A step of the driver is a step of the queue or leaves it alone.          *)
LEMMA StepRefines ==
  Inv /\ QueueShape /\ QueueShape' /\ [Next]_vars => [KQ!Next]_<<Queue, got>>
  <1>. SUFFICES ASSUME Inv, QueueShape, QueueShape', [Next]_vars
                PROVE  [KQ!Next]_<<Queue, got>>
    OBVIOUS
  <1>0. ASSUME UNCHANGED <<buffer, head, tail, got>>
        PROVE  [KQ!Next]_<<Queue, got>>
    BY <1>0 DEF Queue, Count
  <1>1. CASE GetEmpty
    <2>1. Count = 0
      BY <1>1 DEF GetEmpty, QueueShape, Inv, TypeOK
    <2>2. Queue = <<>>
      BY <2>1 DEF QueueShape
    <2>3. Queue' = Queue
      BY <1>1 DEF GetEmpty, driver, Queue, Count
    <2>. QED  BY <1>1, <2>2, <2>3 DEF GetEmpty, KQ!Nothing, KQ!Next
  <1>2. CASE GetCheck
    BY <1>0, <1>2 DEF GetCheck, driver
  <1>3. CASE GetRead
    BY <1>0, <1>3 DEF GetRead, driver
  <1>4. CASE GetAdvance
    <2>. USE <1>4 DEF GetAdvance, Inv, TypeOK, SlotStable
    <2>1. tail' = IF tail + 1 = N THEN 0 ELSE tail + 1
      BY SuccFact
    <2>2. Count > 0 /\ Count' = Count - 1
      BY <2>1, SizeFact DEF QueueShape
    <2>3. Queue # <<>> /\ Head(Queue) = buffer[tail]
      BY <2>2, SizeFact DEF QueueShape, Slot
    <2>4. Len(Tail(Queue)) = Count'
      BY <2>2 DEF QueueShape
    <2>5. ASSUME NEW i \in 1 .. Count'
          PROVE  Queue'[i] = Tail(Queue)[i]
      <3>1. i + 1 \in 1 .. Count
        BY <2>2 DEF QueueShape
      <3>2. Tail(Queue)[i] = Queue[i + 1]
        BY <3>1, <2>2 DEF QueueShape
      <3>3. Slot(i)' = Slot(i + 1)
        BY <2>1, <3>1, SizeFact DEF QueueShape, Slot
      <3>. QED  BY <3>1, <3>2, <3>3 DEF QueueShape
    <2>6. Queue' = Tail(Queue)
      BY <2>2, <2>4, <2>5 DEF QueueShape
    <2>7. got' = Head(Queue)
      BY <2>3
    <2>. QED  BY <2>3, <2>6, <2>7 DEF KQ!Deliver, KQ!Next
  <1>5. CASE keyboard_state_activate
    BY <1>0, <1>5 DEF keyboard_state_activate
  <1>6. ASSUME NEW code \in Scancodes, KeyboardIsr(code)
        PROVE  [KQ!Next]_<<Queue, got>>
    <2>. USE <1>6
    <2>1. CASE UNCHANGED <<buffer, head>>
      BY <1>0, <2>1 DEF KeyboardIsr
    <2>2. CASE \E c \in Chars : /\ Succ(head) # tail
                                /\ buffer' = [buffer EXCEPT ![head] = c]
                                /\ head' = Succ(head)
      <3>1. PICK c \in Chars : /\ Succ(head) # tail
                               /\ buffer' = [buffer EXCEPT ![head] = c]
                               /\ head' = Succ(head)
        BY <2>2
      <3>2. tail' = tail /\ got' = got
        BY DEF KeyboardIsr
      <3>3. head' = IF head + 1 = N THEN 0 ELSE head + 1
        BY <3>1, SuccFact DEF Inv, TypeOK
      <3>4. Count < N - 1 /\ Count' = Count + 1
        <4>1. /\ head \in 0 .. N - 1 /\ tail \in 0 .. N - 1 /\ N \in Nat /\ N > 1
              /\ head' # tail
          BY <3>1, SizeFact DEF Inv, TypeOK
        <4>2. Count = IF head >= tail THEN head - tail ELSE head + N - tail
          BY DEF QueueShape
        <4>3. Count' = IF head' >= tail THEN head' - tail ELSE head' + N - tail
          BY <3>2 DEF QueueShape
        <4>4. CASE head + 1 = N
          BY <4>1, <4>2, <4>3, <4>4, <3>3
        <4>5. CASE head + 1 # N
          BY <4>1, <4>2, <4>3, <4>5, <3>3
        <4>. QED  BY <4>4, <4>5
      <3>5. ASSUME NEW i \in 1 .. Count + 1
            PROVE  Queue'[i] = Append(Queue, c)[i]
        <4>1. Slot(i)' = Slot(i)
          BY <3>2 DEF Slot
        <4>2. CASE i = Count + 1
          <5>1. Slot(i) = head
            BY <4>2, <3>4, SizeFact DEF Slot, QueueShape, Inv, TypeOK
          <5>. QED  BY <4>1, <4>2, <5>1, <3>1, <3>4 DEF QueueShape, Inv, TypeOK
        <4>3. CASE i \in 1 .. Count
          <5>0. /\ head \in 0 .. N - 1 /\ tail \in 0 .. N - 1 /\ N \in Nat
                /\ Count = IF head >= tail THEN head - tail ELSE head + N - tail
                /\ Count \in 0 .. N - 1 /\ i \in 1 .. Count
            BY <4>3, SizeFact DEF QueueShape, Inv, TypeOK
          <5>a. ASSUME head >= tail
                PROVE  Slot(i) # head /\ Slot(i) \in 0 .. N - 1
            BY <5>a, <5>0 DEF Slot
          <5>b. ASSUME head < tail
                PROVE  Slot(i) # head /\ Slot(i) \in 0 .. N - 1
            BY <5>b, <5>0 DEF Slot
          <5>1. Slot(i) # head /\ Slot(i) \in 0 .. N - 1
            BY <5>0, <5>a, <5>b
          <5>2. Queue'[i] = buffer[Slot(i)]
            BY <4>1, <4>3, <5>1, <3>1, <3>4 DEF QueueShape, Inv, TypeOK
          <5>3. Append(Queue, c)[i] = Queue[i]
            BY <4>3 DEF QueueShape
          <5>. QED  BY <4>3, <5>2, <5>3 DEF QueueShape
        <4>. QED  BY <4>2, <4>3, <3>4 DEF QueueShape
      <3>6. Queue' = Append(Queue, c)
        <4>1. /\ Append(Queue, c) \in Seq(Chars \cup {NoChar})
              /\ Len(Append(Queue, c)) = Count + 1
          BY DEF QueueShape
        <4>2. Queue' \in Seq(Chars \cup {NoChar}) /\ Len(Queue') = Count + 1
          BY <3>4 DEF QueueShape
        <4>. QED  BY <4>1, <4>2, <3>5
      <3>. QED  BY <3>2, <3>4, <3>6 DEF KQ!Type, KQ!Next, QueueShape
    <2>. QED  BY <2>1, <2>2, KeyboardAssumption DEF KeyboardIsr, add_to_buffer
  <1>7. CASE UNCHANGED vars
    BY <1>0, <1>7 DEF vars, driver
  <1>. QED  BY <1>1, <1>2, <1>3, <1>4, <1>5, <1>6, <1>7 DEF Next, Get

(* GETCHAR never hands out an empty slot: the queue holds characters only.  *)
THEOREM DriverHoldsChars == Spec => []QueueHoldsChars
  <1>. DEFINE Holds == Queue \in Seq(Chars)
  <1>1. Init => Holds
    <2>. SUFFICES ASSUME Init PROVE Holds
      OBVIOUS
    <2>1. QueueShape
      BY InitInv, QueueFact DEF Inv
    <2>2. Count = 0
      BY <2>1, SizeFact DEF QueueShape, Init
    <2>. QED  BY <2>1, <2>2 DEF QueueShape
  <1>2. Holds /\ [KQ!Next]_<<Queue, got>> => Holds'
    BY DEF KQ!Next, KQ!Type, KQ!Deliver, KQ!Nothing
  <1>3. Inv => QueueShape
    BY QueueFact DEF Inv
  <1>4. QueueShape /\ Holds => QueueHoldsChars
    BY DEF QueueShape, QueueHoldsChars
  <1>. QED  BY InitInv, StepInv, StepRefines, <1>1, <1>2, <1>3, <1>4, PTL DEF Spec

(* The driver implements KeyQueue: a queue of one character less than the ring
   has slots, whatever the interrupts do to get_keyboard_buffer.            *)
THEOREM DriverIsQueue == Spec => ImplementsQueue
  <1>1. Init => KQ!Init
    <2>. SUFFICES ASSUME Init PROVE KQ!Init
      OBVIOUS
    <2>1. QueueShape
      BY InitInv, QueueFact DEF Inv
    <2>2. Count = 0
      BY <2>1, SizeFact DEF QueueShape, Init
    <2>. QED  BY <2>1, <2>2 DEF QueueShape, KQ!Init, Init
  <1>2. Inv => QueueShape
    BY QueueFact DEF Inv
  <1>. QED  BY InitInv, StepInv, StepRefines, <1>1, <1>2, PTL
            DEF Spec, ImplementsQueue, KQ!Spec

-----------------------------------------------------------------------------
(* The terminal and the line.                                               *)

(* The screen as kernel_setup leaves it: its letters are in the first row,
   which the first newline of the banner leaves.                            *)
BootScreen ==
  /\ sys_row = 0 /\ sys_col = 0
  /\ \A p \in Cells : p >= W => fb[p] = Blank
  /\ (sh = "start" /\ out = <<>>) \/ (sh = "prompt" /\ out = Banner)

ConsoleInv == Inv /\ ConsoleTypeOK /\ (BlankAhead \/ BootScreen)

-----------------------------------------------------------------------------
(* Rows and columns as places in text memory.                               *)
LEMMA GridFacts ==
  ASSUME NEW r \in 0 .. H - 1, NEW k \in 0 .. W - 1
  PROVE  Position(r, k) \in Cells
  <1>1. W \in Nat /\ H \in Nat /\ W > 0 /\ H > 0
    BY TerminalAssumption
  <1>2. r * W <= (H - 1) * W
    BY <1>1
  <1>3. (H - 1) * W = W * H - W
    BY <1>1
  <1>4. r * W \in Nat /\ W * H \in Nat
    BY <1>1
  <1>. QED  BY <1>1, <1>2, <1>3, <1>4 DEF Position, Cells

(* A terminal between a character and the scrolling it may cause.           *)
Pending(t) ==
  /\ t.fb \in [Cells -> Glyphs]
  /\ t.row \in 0 .. H /\ t.col \in 0 .. W - 1
  /\ t.row = H => t.col = 0

AheadOf(t) == \A p \in Cells : p >= Position(t.row, t.col) => t.fb[p] = Blank

(* The screen has rows and columns, and a blank is a glyph.                 *)
LEMMA SizeFacts == W \in Nat \ {0} /\ H \in Nat \ {0} /\ Blank \in Glyphs
  BY TerminalAssumption

(* A backspace goes one place back, over the edge of a row too.             *)
LEMMA ErasedFacts ==
  ASSUME TerminalTypeOK
  PROVE  Pending(Erased) /\ (BlankAhead => AheadOf(Erased))
  <1>. DEFINE row == IF sys_col = 0 /\ sys_row > 0 THEN sys_row - 1 ELSE sys_row
              col == IF sys_col > 0 THEN sys_col - 1 ELSE IF sys_row > 0 THEN W - 1 ELSE 0
              mem == [fb EXCEPT ![Position(row, col)] = Blank]
  <1>1. row \in 0 .. H - 1 /\ col \in 0 .. W - 1
    BY SizeFacts DEF TerminalTypeOK
  <1>2. Erased = [fb |-> mem, row |-> row, col |-> col]
    BY DEF Erased, framebuffer_write
  <1>3. Position(row, col) \in Cells
    BY <1>1, GridFacts
  <1>4. Position(row, col) >= Here - 1
    BY SizeFacts DEF TerminalTypeOK, Position, Here
  <1>. HIDE DEF row, col
  <1>5. mem \in [Cells -> Glyphs]
    BY <1>3, SizeFacts DEF TerminalTypeOK
  <1>6. Pending(Erased)
    BY <1>1, <1>2, <1>5, SizeFacts DEF Pending
  <1>7. ASSUME BlankAhead, NEW p \in Cells, p >= Position(row, col)
        PROVE  mem[p] = Blank
    <2>1. CASE p = Position(row, col)
      BY <1>3, <2>1 DEF TerminalTypeOK
    <2>2. CASE p # Position(row, col)
      <3>1. p \in Int /\ Position(row, col) \in Int /\ Here \in Int
        BY <1>3, SizeFacts DEF Cells, Here, Position, TerminalTypeOK
      <3>2. p >= Here
        BY <1>4, <1>7, <2>2, <3>1
      <3>. QED  BY <1>7, <2>2, <3>2 DEF BlankAhead, TerminalTypeOK
    <2>. QED  BY <2>1, <2>2
  <1>. QED  BY <1>2, <1>6, <1>7 DEF AheadOf

(* A newline leaves the rest of its row, and the memory, as they are.       *)
LEMMA LineEndedFacts ==
  ASSUME TerminalTypeOK
  PROVE  Pending(LineEnded) /\ (BlankAhead => AheadOf(LineEnded))
  <1>1. LineEnded = [fb |-> fb, row |-> sys_row + 1, col |-> 0]
    BY DEF LineEnded
  <1>2. Pending(LineEnded)
    BY <1>1, SizeFacts DEF Pending, TerminalTypeOK
  <1>3. Position(sys_row + 1, 0) >= Here
    BY SizeFacts DEF TerminalTypeOK, Position, Here
  <1>4. ASSUME BlankAhead, NEW p \in Cells, p >= Position(sys_row + 1, 0)
        PROVE  fb[p] = Blank
    <2>1. p \in Int /\ Position(sys_row + 1, 0) \in Int /\ Here \in Int
      BY SizeFacts DEF Cells, Here, Position, TerminalTypeOK
    <2>2. p >= Here
      BY <1>3, <1>4, <2>1
    <2>. QED  BY <1>4, <2>2 DEF BlankAhead
  <1>. QED  BY <1>1, <1>2, <1>4 DEF AheadOf

(* A character goes to its place, and the next place is one further on.     *)
LEMMA ShownFacts ==
  ASSUME TerminalTypeOK, NEW c \in Glyphs
  PROVE  Pending(Shown(c)) /\ (BlankAhead => AheadOf(Shown(c)))
  <1>. DEFINE row == IF sys_col + 1 >= W THEN sys_row + 1 ELSE sys_row
              col == IF sys_col + 1 >= W THEN 0 ELSE sys_col + 1
              mem == [fb EXCEPT ![Here] = c]
  <1>1. row \in 0 .. H /\ col \in 0 .. W - 1 /\ (row = H => col = 0)
    BY SizeFacts DEF TerminalTypeOK
  <1>2. Shown(c) = [fb |-> mem, row |-> row, col |-> col]
    BY DEF Shown, framebuffer_write, Here
  <1>3. Position(row, col) = Here + 1
    BY SizeFacts DEF TerminalTypeOK, Position, Here
  <1>4. Here \in Cells
    BY GridFacts DEF Here, TerminalTypeOK
  <1>5. mem \in [Cells -> Glyphs]
    BY <1>4 DEF TerminalTypeOK
  <1>. HIDE DEF row, col
  <1>6. Pending(Shown(c))
    BY <1>1, <1>2, <1>5 DEF Pending
  <1>7. ASSUME BlankAhead, NEW p \in Cells, p >= Position(row, col)
        PROVE  mem[p] = Blank
    <2>1. p \in Int /\ Here \in Int
      BY <1>4, SizeFacts DEF Cells
    <2>2. p >= Here /\ p # Here
      BY <1>3, <1>7, <2>1
    <2>. QED  BY <1>7, <2>2 DEF BlankAhead, TerminalTypeOK
  <1>. QED  BY <1>2, <1>6, <1>7 DEF AheadOf

(* Whatever the character, what PUTCHAR leaves is well formed.              *)
LEMMA WrittenFacts ==
  ASSUME TerminalTypeOK, NEW c \in Characters
  PROVE  Pending(Written(c)) /\ (BlankAhead => AheadOf(Written(c)))
  <1>1. CASE c = Backspace
    BY <1>1, ErasedFacts DEF Written
  <1>2. CASE c # Backspace /\ c = Newline
    BY <1>2, LineEndedFacts DEF Written
  <1>3. CASE c # Backspace /\ c # Newline
    <2>1. c \in Glyphs /\ Written(c) = Shown(c)
      BY <1>3 DEF Characters, Written
    <2>. QED  BY <2>1, ShownFacts
  <1>. QED  BY <1>1, <1>2, <1>3

(* Scrolling brings the cursor back on the screen, to a blank last row.     *)
LEMMA ScrolledFacts ==
  ASSUME NEW t, Pending(t)
  PROVE  /\ Scrolled(t).fb \in [Cells -> Glyphs]
         /\ Scrolled(t).row \in 0 .. H - 1 /\ Scrolled(t).col \in 0 .. W - 1
         /\ AheadOf(t) => AheadOf(Scrolled(t))
  <1>1. CASE t.row < H
    <2>1. Scrolled(t) = t
      BY <1>1, SizeFacts DEF Scrolled, Pending
    <2>. QED  BY <1>1, <2>1, SizeFacts DEF Pending
  <1>2. CASE t.row = H
    <2>. DEFINE mem == [p \in Cells |-> IF p < (H - 1) * W THEN t.fb[p + W] ELSE Blank]
    <2>1. Scrolled(t) = [fb |-> mem, row |-> H - 1, col |-> 0]
      BY <1>2, SizeFacts DEF Scrolled, Pending
    <2>2. (H - 1) * W = W * H - W /\ W * H \in Nat
      BY SizeFacts
    <2>3. ASSUME NEW p \in Cells, p < (H - 1) * W
          PROVE  p + W \in Cells
      BY <2>2, <2>3, SizeFacts DEF Cells
    <2>4. mem \in [Cells -> Glyphs]
      BY <2>3, SizeFacts DEF Pending
    <2>5. ASSUME NEW p \in Cells, p >= Position(H - 1, 0)
          PROVE  mem[p] = Blank
      <3>1. p \in Int /\ (H - 1) * W \in Int
        BY <2>2, SizeFacts DEF Cells
      <3>2. ~(p < (H - 1) * W)
        BY <2>5, <3>1, SizeFacts DEF Position
      <3>. QED  BY <3>2
    <2>. HIDE DEF mem
    <2>. QED  BY <2>1, <2>4, <2>5, SizeFacts DEF AheadOf
  <1>. QED  BY <1>1, <1>2, SizeFacts DEF Pending

(* One character keeps the screen in order.                                 *)
LEMMA PutFacts ==
  ASSUME TerminalTypeOK, NEW c \in Characters, NEW last \in BOOLEAN, Put(c, last)
  PROVE  TerminalTypeOK' /\ (AheadOf(Written(c)) => BlankAhead')
  <1>. DEFINE t == Scrolled(Written(c))
  <1>1. /\ t.fb \in [Cells -> Glyphs] /\ t.row \in 0 .. H - 1 /\ t.col \in 0 .. W - 1
        /\ AheadOf(Written(c)) => AheadOf(t)
    BY WrittenFacts, ScrolledFacts
  <1>2. /\ fb' = t.fb /\ sys_row' = t.row /\ sys_col' = t.col
        /\ cursor' = Position(t.row, t.col) \/ cursor' = cursor
    BY DEF Put
  <1>. HIDE DEF t
  <1>3. Position(t.row, t.col) \in Cells
    BY <1>1, GridFacts
  <1>4. TerminalTypeOK'
    BY <1>1, <1>2, <1>3 DEF TerminalTypeOK
  <1>5. AheadOf(t) => BlankAhead'
    BY <1>2 DEF AheadOf, BlankAhead, Here, Position
  <1>. QED  BY <1>1, <1>4, <1>5

(* The banner's first newline leaves the row of the letters.                *)
LEMMA BannerFacts ==
  ASSUME BootScreen, TerminalTypeOK
  PROVE  AheadOf(Written(Newline))
  <1>1. Written(Newline) = [fb |-> fb, row |-> 1, col |-> 0]
    BY TerminalAssumption DEF Written, LineEnded, BootScreen
  <1>2. Position(1, 0) = W
    BY SizeFacts DEF Position
  <1>. QED  BY <1>1, <1>2 DEF AheadOf, BootScreen

-----------------------------------------------------------------------------
(* The console at boot.                                                     *)
LEMMA ConsoleInitInv == ConsoleInit => ConsoleInv
  <1>. SUFFICES ASSUME ConsoleInit PROVE ConsoleInv
    OBVIOUS
  <1>1. Inv
    BY InitInv DEF ConsoleInit
  <1>2. \A p \in Cells : p < Len(BootText) => BootText[p + 1] \in Glyphs
    BY ConsoleAssumption DEF Cells
  <1>3. fb \in [Cells -> Glyphs]
    BY <1>2, SizeFacts DEF ConsoleInit, framebuffer_clear
  <1>4. \A p \in Cells : p >= W => fb[p] = Blank
    <2>1. \A p \in Cells : p >= W => ~(p < Len(BootText))
      BY ConsoleAssumption, SizeFacts DEF Cells
    <2>. QED  BY <2>1 DEF ConsoleInit, framebuffer_clear
  <1>5. sys_row \in 0 .. H - 1 /\ sys_col \in 0 .. W - 1
    BY SizeFacts DEF ConsoleInit
  <1>6. cursor \in Cells
    <2>1. Position(0, 0) \in Cells /\ Position(0, 0) = 0
      BY GridFacts, SizeFacts DEF Position
    <2>. QED  BY <2>1 DEF ConsoleInit
  <1>7. BootScreen
    BY <1>4 DEF ConsoleInit, BootScreen
  <1>8. ConsoleTypeOK
    BY <1>1, <1>3, <1>5, <1>6, ConsoleAssumption
    DEF ConsoleInit, ConsoleTypeOK, TerminalTypeOK, Inv
  <1>. QED  BY <1>1, <1>7, <1>8 DEF ConsoleInv

(* A step of the console is a step of the keyboard driver or leaves it alone. *)
LEMMA ConsoleStepsDriver == ConsoleNext => [Next]_vars
  BY DEF ConsoleNext, Main, Start, Display, Prompt, Poll, Edit, Run, cmd_clear,
         Interrupted, Next

(* Every step keeps the invariant.                                          *)
LEMMA ConsoleStepInv == ConsoleInv /\ [ConsoleNext]_consoleVars => ConsoleInv'
  <1>. SUFFICES ASSUME ConsoleInv, [ConsoleNext]_consoleVars PROVE ConsoleInv'
    OBVIOUS
  <1>t. Inv /\ ConsoleTypeOK /\ TerminalTypeOK /\ (BlankAhead \/ BootScreen)
    BY DEF ConsoleInv, ConsoleTypeOK
  <1>k. Inv' /\ TypeOK'
    BY <1>t, ConsoleStepsDriver, StepInv DEF consoleVars, Inv
  <1>q. ASSUME UNCHANGED terminal, ConsoleTypeOK',
               BootScreen => BootScreen'
        PROVE  ConsoleInv'
    BY <1>q, <1>t, <1>k DEF terminal, BlankAhead, Here, Position, ConsoleInv
  <1>b. BootScreen => sh = "start" \/ (sh = "prompt" /\ out # <<>>)
    BY ConsoleAssumption DEF BootScreen
  <1>1. CASE Start
    <2>1. ConsoleTypeOK'
      BY <1>1, <1>t, <1>k, ConsoleAssumption
      DEF Start, ConsoleTypeOK, TerminalTypeOK, terminal
    <2>2. BootScreen => BootScreen'
      BY <1>1 DEF Start, BootScreen, terminal
    <2>. QED  BY <1>1, <1>q, <2>1, <2>2 DEF Start
  <1>2. CASE Display
    <2>1. out \in Seq(Characters) /\ out # <<>>
      BY <1>2, <1>t DEF Display, ConsoleTypeOK
    <2>2. Head(out) \in Characters /\ out' = Tail(out) /\ out' \in Seq(Characters)
      BY <1>2, <2>1 DEF Display
    <2>3. Put(Head(out), Len(out) = 1) /\ (Len(out) = 1) \in BOOLEAN
      BY <1>2 DEF Display
    <2>4. TerminalTypeOK' /\ (AheadOf(Written(Head(out))) => BlankAhead')
      BY <1>t, <2>2, <2>3, PutFacts
    <2>5. AheadOf(Written(Head(out)))
      <3>1. CASE BlankAhead
        BY <1>t, <2>2, <3>1, WrittenFacts
      <3>2. CASE BootScreen
        <4>1. Head(out) = Newline
          BY <2>1, <3>2, ConsoleAssumption DEF BootScreen
        <4>. QED  BY <1>t, <3>2, <4>1, BannerFacts
      <3>. QED  BY <1>t, <3>1, <3>2
    <2>6. ConsoleTypeOK'
      BY <1>2, <1>t, <1>k, <2>2, <2>4 DEF Display, ConsoleTypeOK, vars
    <2>. QED  BY <1>k, <2>4, <2>5, <2>6 DEF ConsoleInv
  <1>3. CASE Prompt
    <2>1. ConsoleTypeOK'
      BY <1>3, <1>t, <1>k, ConsoleAssumption
      DEF Prompt, ConsoleTypeOK, TerminalTypeOK, terminal, Characters
    <2>. QED  BY <1>3, <1>b, <1>q, <2>1 DEF Prompt, At
  <1>4. CASE Poll
    <2>1. ConsoleTypeOK'
      BY <1>4, <1>t, <1>k DEF Poll, ConsoleTypeOK, TerminalTypeOK, terminal
    <2>. QED  BY <1>4, <1>b, <1>q, <2>1 DEF Poll, At
  <1>5. CASE Edit
    <2>1. got \in Chars /\ got \in Characters /\ UNCHANGED <<vars, terminal>>
      BY <1>5, <1>t, ConsoleAssumption DEF Edit, At, ConsoleTypeOK, TypeOK
    <2>2. input_buf' \in Seq(Chars) /\ Len(input_buf') <= MaxInput /\ out' \in Seq(Characters)
          /\ sh' \in {"prompt", "run", "read"} /\ command' \in {"none", "clear", "other"}
      <3>1. CASE got = Newline
        <4>1. out' = << Newline >> /\ sh' \in {"prompt", "run"} /\ input_buf' = input_buf
              /\ command' = "none"
          BY <1>5, <3>1, TerminalAssumption DEF Edit
        <4>2. << Newline >> \in Seq(Characters)
          BY DEF Characters
        <4>. QED  BY <1>t, <4>1, <4>2 DEF ConsoleTypeOK
      <3>2. CASE got # Newline /\ got = Backspace
        <4>1. Erase /\ sh' = "read" /\ command' = command
          BY <1>5, <3>2 DEF Edit
        <4>2. << Backspace >> \in Seq(Characters)
          BY DEF Characters
        <4>3. input_buf \in Seq(Chars) /\ Len(input_buf) <= MaxInput /\ MaxInput \in Nat
              /\ out \in Seq(Characters) /\ command \in {"none", "clear", "other"}
          BY <1>t, ConsoleAssumption DEF ConsoleTypeOK
        <4>4. CASE input_buf = <<>>
          BY <4>1, <4>3, <4>4 DEF Erase
        <4>5. CASE input_buf # <<>>
          <5>1. input_buf' = SubSeq(input_buf, 1, Len(input_buf) - 1) /\ out' = << Backspace >>
            BY <4>1, <4>5 DEF Erase
          <5>2. input_buf' \in Seq(Chars) /\ Len(input_buf') = Len(input_buf) - 1
            BY <4>3, <4>5, <5>1
          <5>. QED  BY <4>1, <4>2, <4>3, <5>1, <5>2
        <4>. QED  BY <4>4, <4>5
      <3>3. CASE got # Newline /\ got # Backspace
        <4>1. Insert /\ sh' = "read" /\ command' = command
          BY <1>5, <3>3 DEF Edit
        <4>2. << got >> \in Seq(Characters)
          BY <2>1
        <4>3. input_buf \in Seq(Chars) /\ Len(input_buf) <= MaxInput /\ MaxInput \in Nat
              /\ out \in Seq(Characters) /\ command \in {"none", "clear", "other"}
          BY <1>t, ConsoleAssumption DEF ConsoleTypeOK
        <4>4. CASE Len(input_buf) < MaxInput
          <5>1. input_buf' = Append(input_buf, got) /\ out' = << got >>
            BY <4>1, <4>4 DEF Insert
          <5>2. input_buf' \in Seq(Chars) /\ Len(input_buf') = Len(input_buf) + 1
            BY <2>1, <4>3, <5>1
          <5>. QED  BY <4>1, <4>2, <4>3, <4>4, <5>1, <5>2
        <4>5. CASE ~(Len(input_buf) < MaxInput)
          BY <4>1, <4>3, <4>5 DEF Insert
        <4>. QED  BY <4>4, <4>5
      <3>. QED  BY <3>1, <3>2, <3>3
    <2>3. ConsoleTypeOK'
      BY <1>t, <1>k, <2>1, <2>2 DEF ConsoleTypeOK, TerminalTypeOK, terminal
    <2>. QED  BY <1>5, <1>b, <1>q, <2>1, <2>3 DEF Edit, At
  <1>6. CASE Run
    <2>1. ConsoleTypeOK'
      BY <1>6, <1>t, <1>k, ConsoleAssumption
      DEF Run, ConsoleTypeOK, TerminalTypeOK, terminal
    <2>. QED  BY <1>6, <1>b, <1>q, <2>1 DEF Run, At
  <1>7. CASE cmd_clear
    <2>1. ClearText \in Seq(Characters)
      BY SizeFacts DEF ClearText, Characters
    <2>2. ConsoleTypeOK'
      BY <1>7, <1>t, <1>k, <2>1 DEF cmd_clear, ConsoleTypeOK, TerminalTypeOK, terminal
    <2>. QED  BY <1>7, <1>b, <1>q, <2>2 DEF cmd_clear, At
  <1>8. CASE Interrupted
    <2>1. UNCHANGED <<terminal, sh, input_buf, out, command, got>>
      BY <1>8 DEF Interrupted, shell, KeyboardIsr
    <2>2. ConsoleTypeOK'
      BY <1>t, <1>k, <2>1 DEF ConsoleTypeOK, TerminalTypeOK, terminal
    <2>3. BootScreen => BootScreen'
      BY <2>1 DEF BootScreen, terminal
    <2>. QED  BY <1>q, <2>1, <2>2, <2>3
  <1>9. CASE UNCHANGED consoleVars
    <2>1. UNCHANGED <<terminal, sh, input_buf, out, command, got>>
      BY <1>9 DEF consoleVars, shell, vars
    <2>2. ConsoleTypeOK'
      BY <1>t, <1>k, <2>1 DEF ConsoleTypeOK, TerminalTypeOK, terminal
    <2>3. BootScreen => BootScreen'
      BY <2>1 DEF BootScreen, terminal
    <2>. QED  BY <1>q, <2>1, <2>2, <2>3
  <1>. QED  BY <1>1, <1>2, <1>3, <1>4, <1>5, <1>6, <1>7, <1>8, <1>9 DEF ConsoleNext, Main

(* PUTCHAR and PUTS, scrolling and erasing included, write only to text memory
   and leave row, column and cursor on the screen, whatever is printed.     *)
THEOREM TerminalStaysOnScreen == ConsoleSpec => []TerminalTypeOK
  <1>1. ConsoleInv => TerminalTypeOK
    BY DEF ConsoleInv, ConsoleTypeOK
  <1>. QED  BY ConsoleInitInv, ConsoleStepInv, <1>1, PTL DEF ConsoleSpec

(* Wrapping, scrolling and erasing leave no old text at or after the place of
   the next character, on any screen and for any output.                    *)
THEOREM NothingIsBelow == ConsoleSpec => []NothingBelow
  <1>1. ConsoleInv => NothingBelow
    BY DEF ConsoleInv, NothingBelow, BootScreen
  <1>. QED  BY ConsoleInitInv, ConsoleStepInv, <1>1, PTL DEF ConsoleSpec

(* The driver is a queue also when it is driven by the shell's line editor:
   the composed system refines the keyboard driver, and that KeyQueue.      *)
THEOREM ConsoleKeepsQueue == ConsoleSpec => ImplementsQueue
  <1>1. ConsoleInit => Init
    BY DEF ConsoleInit
  <1>2. [ConsoleNext]_consoleVars => [Next]_vars
    BY ConsoleStepsDriver DEF consoleVars
  <1>3. ConsoleSpec => Spec
    BY <1>1, <1>2, PTL DEF ConsoleSpec, Spec
  <1>. QED  BY <1>3, DriverIsQueue

-----------------------------------------------------------------------------
(* The line on the screen.                                                  *)
Line == PromptText \o input_buf

(* How much of the line is shown: what is still to be printed is its end, and
   a character that is still to be erased follows it.                       *)
ShownSoFar == IF out = << Backspace >> THEN Len(Line) + 1 ELSE Len(Line) - Len(out)

(* Where the prompt starts.                                                 *)
LineStart == Here - ShownSoFar

LineShown ==
  sh \in {"read", "edit"} =>
    /\ \/ out = << Backspace >>
       \/ /\ Len(out) <= Len(Line)
          /\ \A k \in 1 .. Len(out) : out[k] = Line[Len(Line) - Len(out) + k]
    /\ LineStart >= 0
    /\ \A k \in 1 .. Len(Line) : k <= ShownSoFar => fb[LineStart + k - 1] = Line[k]
    /\ command = "clear" => \A p \in 0 .. LineStart - 1 : fb[p] = Blank

(* While clear prints its newlines, every row below the ones that they will
   push out is blank.                                                       *)
Clearing ==
  sh = "prompt" /\ command = "clear" =>
    /\ \A k \in 1 .. Len(out) : out[k] = Newline
    /\ \A p \in Cells : p >= (sys_row - H + 1 + Len(out)) * W => fb[p] = Blank

(* Nothing but characters that show gets into the line, and the cursor is put
   in its place at the end of what was printed.                             *)
ScreenInv ==
  /\ LineShown /\ Clearing
  /\ input_buf \in Seq(Glyphs)
  /\ out = <<>> => cursor = Here
  /\ sh = "start" => command = "none"

(* A character that shows: the screen moves up by nothing or by a row.      *)
LEMMA PutGlyph ==
  ASSUME TerminalTypeOK, NEW c \in Glyphs, NEW last \in BOOLEAN, Put(c, last)
  PROVE  \E up \in {0, W} :
           /\ Here' = Here + 1 - up
           /\ up = W => Here' = W * (H - 1)
           /\ \A p \in 0 .. Here' - 1 : fb'[p] = IF p + up = Here THEN c ELSE fb[p + up]
           /\ Here' \in 0 .. W * H - 1
  <1>1. Here \in Cells /\ W \in Nat /\ H \in Nat /\ W > 0 /\ H > 0 /\ W * H \in Nat
    BY GridFacts, SizeFacts DEF Here, TerminalTypeOK
  <1>2. c # Backspace /\ c # Newline
    BY TerminalAssumption
  <1>. DEFINE row == IF sys_col + 1 >= W THEN sys_row + 1 ELSE sys_row
              col == IF sys_col + 1 >= W THEN 0 ELSE sys_col + 1
              mem == [fb EXCEPT ![Here] = c]
              t == [fb |-> mem, row |-> row, col |-> col]
  <1>3. Written(c) = t
    BY <1>2 DEF Written, Shown, framebuffer_write, Here
  <1>4. row \in 0 .. H /\ col \in 0 .. W - 1 /\ (row = H => col = 0)
    BY SizeFacts DEF TerminalTypeOK
  <1>5. Position(row, col) = Here + 1
    BY SizeFacts DEF TerminalTypeOK, Position, Here
  <1>6. \A p \in Cells : mem[p] = IF p = Here THEN c ELSE fb[p]
    BY <1>1 DEF TerminalTypeOK
  <1>. HIDE DEF row, col, mem
  <1>7. CASE row < H
    <2>1. Scrolled(Written(c)) = t
      BY <1>1, <1>3, <1>4, <1>7 DEF Scrolled
    <2>2. fb' = mem /\ sys_row' = row /\ sys_col' = col
      BY <2>1 DEF Put
    <2>3. Here' = Here + 1
      BY <1>5, <2>2 DEF Here, Position
    <2>4. Position(row, col) \in Cells
      BY <1>1, <1>4, <1>7, GridFacts
    <2>5. Here' \in 0 .. W * H - 1
      BY <1>5, <2>3, <2>4 DEF Cells
    <2>6. ASSUME NEW p \in 0 .. Here' - 1
          PROVE  fb'[p] = IF p + 0 = Here THEN c ELSE fb[p + 0]
      <3>1. p \in Cells /\ p + 0 = p
        BY <1>1, <2>3, <2>5 DEF Cells
      <3>. QED  BY <1>6, <2>2, <3>1
    <2>7. Here' = Here + 1 - 0 /\ (0 = W => Here' = W * (H - 1))
      BY <1>1, <2>3 DEF Cells
    <2>. QED  BY <2>5, <2>6, <2>7
  <1>8. CASE row = H
    <2>1. Scrolled(Written(c)) =
            [fb |-> [p \in Cells |-> IF p < (H - 1) * W THEN mem[p + W] ELSE Blank],
             row |-> H - 1, col |-> 0]
      BY <1>1, <1>3, <1>4, <1>8 DEF Scrolled
    <2>2. /\ fb' = [p \in Cells |-> IF p < (H - 1) * W THEN mem[p + W] ELSE Blank]
          /\ sys_row' = H - 1 /\ sys_col' = 0
      BY <2>1 DEF Put
    <2>3. (H - 1) * W = W * H - W /\ H * W = W * H /\ W * (H - 1) = W * H - W
      BY <1>1
    <2>4. Here + 1 = W * H
      BY <1>1, <1>4, <1>5, <1>8, <2>3 DEF Position
    <2>5. Here' = W * H - W
      BY <1>1, <2>2, <2>3 DEF Here, Position
    <2>6. Here' \in 0 .. W * H - 1
      <3>1. W * H - W >= 0
        <4>1. (H - 1) * W >= 0
          BY <1>1
        <4>. QED  BY <2>3, <4>1
      <3>. QED  BY <1>1, <2>5, <3>1
    <2>7. ASSUME NEW p \in 0 .. Here' - 1
          PROVE  fb'[p] = IF p + W = Here THEN c ELSE fb[p + W]
      <3>1. p \in Cells /\ p + W \in Cells /\ p < (H - 1) * W
        BY <1>1, <2>3, <2>5 DEF Cells
      <3>. QED  BY <1>6, <2>2, <3>1
    <2>8. Here' = Here + 1 - W /\ Here' = W * (H - 1)
      BY <1>1, <2>3, <2>4, <2>5 DEF Cells
    <2>. QED  BY <2>6, <2>7, <2>8
  <1>. QED  BY <1>1, <1>4, <1>7, <1>8

(* A backspace that is not at the top left corner.                          *)
LEMMA PutBackspace ==
  ASSUME TerminalTypeOK, NEW last \in BOOLEAN, Put(Backspace, last), Here > 0
  PROVE  Here' = Here - 1 /\ \A p \in 0 .. Here' - 1 : fb'[p] = fb[p]
  <1>. DEFINE row == IF sys_col = 0 /\ sys_row > 0 THEN sys_row - 1 ELSE sys_row
              col == IF sys_col > 0 THEN sys_col - 1 ELSE IF sys_row > 0 THEN W - 1 ELSE 0
              mem == [fb EXCEPT ![Position(row, col)] = Blank]
              t == [fb |-> mem, row |-> row, col |-> col]
  <1>1. Here \in Cells /\ W \in Nat /\ H \in Nat /\ W > 0 /\ H > 0 /\ W * H \in Nat
    BY GridFacts, SizeFacts DEF Here, TerminalTypeOK
  <1>2. row \in 0 .. H - 1 /\ col \in 0 .. W - 1
    BY SizeFacts DEF TerminalTypeOK
  <1>3. Position(row, col) = Here - 1
    BY <1>1 DEF TerminalTypeOK, Position, Here
  <1>4. Written(Backspace) = t
    BY DEF Written, Erased, framebuffer_write
  <1>. HIDE DEF row, col
  <1>5. Scrolled(Written(Backspace)) = t
    BY <1>1, <1>2, <1>4 DEF Scrolled
  <1>6. fb' = mem /\ sys_row' = row /\ sys_col' = col
    BY <1>5 DEF Put
  <1>7. Here' = Here - 1
    BY <1>3, <1>6 DEF Here, Position
  <1>8. ASSUME NEW p \in 0 .. Here' - 1 PROVE fb'[p] = fb[p]
    <2>1. p \in Cells /\ p # Position(row, col)
      BY <1>1, <1>3, <1>7 DEF Cells
    <2>. QED  BY <1>6, <2>1 DEF TerminalTypeOK
  <1>. QED  BY <1>7, <1>8

(* A newline.                                                               *)
LEMMA PutNewline ==
  ASSUME TerminalTypeOK, NEW last \in BOOLEAN, Put(Newline, last)
  PROVE  \/ sys_row' = sys_row + 1 /\ fb' = fb
         \/ /\ sys_row = H - 1 /\ sys_row' = H - 1
            /\ fb' = [p \in Cells |-> IF p < (H - 1) * W THEN fb[p + W] ELSE Blank]
  <1>1. Written(Newline) = [fb |-> fb, row |-> sys_row + 1, col |-> 0]
    BY TerminalAssumption DEF Written, LineEnded
  <1>2. CASE sys_row < H - 1
    <2>1. ~(sys_row + 1 >= H)
      BY <1>2, SizeFacts DEF TerminalTypeOK
    <2>2. Scrolled(Written(Newline)) = Written(Newline)
      BY <1>1, <2>1 DEF Scrolled
    <2>. QED  BY <1>1, <2>2 DEF Put
  <1>3. CASE sys_row = H - 1
    <2>1. sys_row + 1 >= H
      BY <1>3, SizeFacts DEF TerminalTypeOK
    <2>2. Scrolled(Written(Newline)) =
            [fb |-> [p \in Cells |-> IF p < (H - 1) * W THEN fb[p + W] ELSE Blank],
             row |-> H - 1, col |-> 0]
      BY <1>1, <2>1 DEF Scrolled
    <2>. QED  BY <1>3, <2>2 DEF Put
  <1>. QED  BY <1>2, <1>3, SizeFacts DEF TerminalTypeOK

(* The line fits above the last row.                                        *)
LEMMA LineFacts ==
  ASSUME ConsoleTypeOK, input_buf \in Seq(Glyphs)
  PROVE  /\ Line \in Seq(Glyphs) /\ Len(Line) = Len(PromptText) + Len(input_buf)
         /\ Len(Line) \in Nat /\ Len(Line) <= W * (H - 1) /\ W * (H - 1) \in Int
         /\ Here \in Nat
  <1>1. PromptText \in Seq(Glyphs) /\ Len(PromptText) + MaxInput <= W * (H - 1)
        /\ MaxInput \in Nat
    BY ConsoleAssumption
  <1>2. Line \in Seq(Glyphs) /\ Len(Line) = Len(PromptText) + Len(input_buf)
    BY <1>1 DEF Line
  <1>3. Len(input_buf) <= MaxInput /\ Len(input_buf) \in Nat /\ Len(PromptText) \in Nat
    BY <1>1 DEF ConsoleTypeOK
  <1>4. W * (H - 1) \in Int
    BY SizeFacts
  <1>5. Here \in Nat
    BY SizeFacts DEF Here, Position, ConsoleTypeOK, TerminalTypeOK
  <1>. QED  BY <1>1, <1>2, <1>3, <1>4, <1>5

(* A character of the line is echoed, or one is erased.                     *)
LEMMA DisplayLine ==
  ASSUME ConsoleTypeOK, ScreenInv, Display, sh \in {"read", "edit"}
  PROVE  LineShown'
  <1>1. /\ TerminalTypeOK /\ out \in Seq(Characters) /\ out # <<>>
        /\ Put(Head(out), Len(out) = 1) /\ (Len(out) = 1) \in BOOLEAN
        /\ out' = Tail(out) /\ UNCHANGED <<sh, input_buf, command>>
    BY DEF Display, ConsoleTypeOK
  <1>2. PICK L, n : L = Line /\ n = Len(L)
    OBVIOUS
  <1>3. L \in Seq(Glyphs) /\ n \in Nat /\ n <= W * (H - 1) /\ W * (H - 1) \in Int /\ Here \in Nat
    BY <1>2, LineFacts DEF ScreenInv
  <1>4. Line' = L
    BY <1>1, <1>2 DEF Line
  <1>5. Len(out) \in Nat /\ Len(out) > 0 /\ Len(out') = Len(out) - 1
        /\ \A k \in 1 .. Len(out') : out'[k] = out[k + 1]
    BY <1>1
  <1>6. /\ LineStart >= 0 /\ LineStart = Here - ShownSoFar
        /\ \A k \in 1 .. n : k <= ShownSoFar => fb[LineStart + k - 1] = L[k]
    BY <1>2 DEF ScreenInv, LineShown, LineStart
  <1>7. CASE out = << Backspace >>
    <2>1. LineStart = Here - (n + 1) /\ ShownSoFar = n + 1 /\ LineStart >= 0
      BY <1>2, <1>7 DEF LineStart, ShownSoFar, ScreenInv, LineShown
    <2>2. Here > 0
      BY <1>3, <2>1
    <2>3. Put(Backspace, Len(out) = 1)
      BY <1>1, <1>7
    <2>4. Here' = Here - 1 /\ \A p \in 0 .. Here' - 1 : fb'[p] = fb[p]
      BY <1>1, <2>2, <2>3, PutBackspace
    <2>5. Len(out') = 0 /\ out' # << Backspace >>
      BY <1>5, <1>7
    <2>6. ShownSoFar' = n /\ LineStart' = LineStart
      BY <1>2, <1>3, <1>4, <2>1, <2>4, <2>5 DEF ShownSoFar, LineStart
    <2>7. ASSUME NEW k \in 1 .. n PROVE fb'[LineStart' + k - 1] = L[k]
      <3>1. LineStart + k - 1 \in 0 .. Here' - 1
        BY <1>3, <2>1, <2>4
      <3>2. k <= n + 1
        BY <1>3
      <3>3. fb[LineStart + k - 1] = L[k]
        BY <1>6, <2>1, <3>2
      <3>. QED  BY <2>4, <2>6, <3>1, <3>3
    <2>8. ASSUME command = "clear", NEW p \in 0 .. LineStart' - 1 PROVE fb'[p] = Blank
      <3>1. p \in 0 .. LineStart - 1 /\ p \in 0 .. Here' - 1
        BY <1>3, <2>1, <2>4, <2>6
      <3>. QED  BY <2>4, <2>8, <3>1 DEF ScreenInv, LineShown
    <2>. QED  BY <1>1, <1>2, <1>3, <1>4, <2>1, <2>5, <2>6, <2>7, <2>8 DEF LineShown
  <1>8. CASE out # << Backspace >>
    <2>1. PICK s : s = n - Len(out)
      OBVIOUS
    <2>2. /\ s \in Nat /\ s + 1 \in 1 .. n /\ ShownSoFar = s /\ LineStart = Here - s
          /\ LineStart >= 0 /\ \A k \in 1 .. Len(out) : out[k] = L[s + k]
      <3>1. Len(out) <= n /\ \A k \in 1 .. Len(out) : out[k] = L[s + k]
        BY <1>1, <1>2, <1>8, <2>1 DEF ScreenInv, LineShown
      <3>2. ShownSoFar = s
        BY <1>2, <1>8, <2>1 DEF ShownSoFar
      <3>3. s \in Nat /\ s + 1 \in 1 .. n
        BY <1>3, <1>5, <2>1, <3>1
      <3>. QED  BY <1>6, <3>1, <3>2, <3>3
    <2>3. \A k \in 1 .. n : L[k] \in Glyphs /\ L[k] # Backspace
      BY <1>2, <1>3, TerminalAssumption
    <2>4. Head(out) = L[s + 1] /\ L[s + 1] \in Glyphs
      BY <1>1, <1>5, <2>2, <2>3
    <2>5. PICK up \in {0, W} :
            /\ Here' = Here + 1 - up
            /\ up = W => Here' = W * (H - 1)
            /\ \A p \in 0 .. Here' - 1 : fb'[p] = IF p + up = Here THEN L[s + 1] ELSE fb[p + up]
      <3>1. Put(L[s + 1], Len(out) = 1)
        BY <1>1, <2>4
      <3>. QED  BY <1>1, <2>4, <3>1, PutGlyph
    <2>6. up \in Nat
      BY <2>5, SizeFacts
    <2>7. /\ Len(out') <= n /\ n - Len(out') = s + 1
          /\ \A k \in 1 .. Len(out') : out'[k] = L[n - Len(out') + k]
      BY <1>3, <1>5, <2>1, <2>2
    <2>8. out' # << Backspace >>
      <3>1. ASSUME out' = << Backspace >> PROVE FALSE
        <4>1. Len(out') = 1 /\ out'[1] = Backspace
          BY <3>1
        <4>2. n - Len(out') + 1 \in 1 .. n
          BY <1>3, <2>7, <4>1
        <4>. QED  BY <2>3, <2>7, <4>1, <4>2
      <3>. QED  BY <3>1
    <2>9. ShownSoFar' = s + 1 /\ LineStart' = LineStart - up
      <3>1. ShownSoFar' = s + 1
        BY <1>2, <1>4, <2>7, <2>8 DEF ShownSoFar
      <3>2. LineStart' = Here' - (s + 1)
        BY <3>1 DEF LineStart
      <3>. QED  BY <1>3, <2>2, <2>5, <2>6, <3>1, <3>2
    <2>10. LineStart' >= 0 /\ LineStart' \in Int /\ Here' = LineStart' + s + 1
      <3>1. CASE up = W
        BY <1>3, <2>2, <2>5, <2>6, <2>9, <3>1
      <3>2. CASE up = 0
        BY <1>3, <2>2, <2>5, <2>9, <3>2
      <3>. QED  BY <3>1, <3>2
    <2>11. ASSUME NEW k \in 1 .. n, k <= s + 1 PROVE fb'[LineStart' + k - 1] = L[k]
      <3>1. PICK p : p = LineStart' + k - 1
        OBVIOUS
      <3>2. p \in 0 .. Here' - 1 /\ p + up = LineStart + k - 1
        BY <1>3, <2>2, <2>6, <2>9, <2>10, <2>11, <3>1
      <3>3. CASE k = s + 1
        BY <1>3, <2>2, <2>5, <3>1, <3>2, <3>3
      <3>4. CASE k <= s
        <4>1. p + up # Here
          BY <1>3, <2>2, <3>2, <3>4
        <4>2. fb[LineStart + k - 1] = L[k]
          BY <1>6, <2>2, <3>4
        <4>. QED  BY <2>5, <3>1, <3>2, <4>1, <4>2
      <3>. QED  BY <2>2, <2>11, <3>3, <3>4
    <2>12. ASSUME command = "clear", NEW p \in 0 .. LineStart' - 1 PROVE fb'[p] = Blank
      <3>1. p \in 0 .. Here' - 1 /\ p + up \in 0 .. LineStart - 1 /\ p + up # Here
        BY <1>3, <2>2, <2>6, <2>9, <2>10
      <3>. QED  BY <2>5, <2>12, <3>1 DEF ScreenInv, LineShown
    <2>. QED  BY <1>1, <1>2, <1>4, <2>7, <2>9, <2>10, <2>11, <2>12 DEF LineShown
  <1>. QED  BY <1>7, <1>8

(* A newline of clear.                                                      *)
LEMMA DisplayClear ==
  ASSUME ConsoleTypeOK, ScreenInv, Display, sh = "prompt"
  PROVE  Clearing'
  <1>. SUFFICES ASSUME command' = "clear"
                PROVE  /\ \A k \in 1 .. Len(out') : out'[k] = Newline
                       /\ \A p \in Cells : p >= (sys_row' - H + 1 + Len(out')) * W => fb'[p] = Blank
    BY DEF Clearing
  <1>1. /\ TerminalTypeOK /\ out \in Seq(Characters) /\ out # <<>>
        /\ Put(Head(out), Len(out) = 1) /\ (Len(out) = 1) \in BOOLEAN
        /\ out' = Tail(out) /\ command = "clear"
    BY DEF Display, ConsoleTypeOK
  <1>2. Len(out) \in Nat /\ Len(out) > 0 /\ Len(out') = Len(out) - 1
        /\ (\A k \in 1 .. Len(out') : out'[k] = out[k + 1]) /\ Head(out) = out[1]
    BY <1>1
  <1>3. /\ \A k \in 1 .. Len(out) : out[k] = Newline
        /\ \A p \in Cells : p >= (sys_row - H + 1 + Len(out)) * W => fb[p] = Blank
    BY <1>1 DEF ScreenInv, Clearing
  <1>4. \A k \in 1 .. Len(out') : out'[k] = Newline
    BY <1>2, <1>3
  <1>5. Put(Newline, Len(out) = 1)
    <2>1. Head(out) = Newline
      BY <1>2, <1>3
    <2>. QED  BY <1>1, <2>1
  <1>6. PICK m : m = sys_row - H + 1 + Len(out)
    OBVIOUS
  <1>7. m \in Int /\ sys_row \in Int /\ H \in Int /\ W \in Nat /\ H > 0 /\ H * W \in Int /\ W * H \in Int
    BY <1>1, <1>2, <1>6, SizeFacts DEF TerminalTypeOK
  <1>8. \/ sys_row' = sys_row + 1 /\ fb' = fb
        \/ /\ sys_row = H - 1 /\ sys_row' = H - 1
           /\ fb' = [p \in Cells |-> IF p < (H - 1) * W THEN fb[p + W] ELSE Blank]
    BY <1>1, <1>5, PutNewline
  <1>9. ASSUME NEW p \in Cells, p >= (sys_row' - H + 1 + Len(out')) * W PROVE fb'[p] = Blank
    <2>1. CASE sys_row' = sys_row + 1 /\ fb' = fb
      <3>1. sys_row' - H + 1 + Len(out') = m
        BY <1>2, <1>6, <1>7, <2>1
      <3>. QED  BY <1>3, <1>6, <1>9, <2>1, <3>1
    <2>2. CASE /\ sys_row = H - 1 /\ sys_row' = H - 1
               /\ fb' = [q \in Cells |-> IF q < (H - 1) * W THEN fb[q + W] ELSE Blank]
      <3>1. sys_row' - H + 1 + Len(out') = m - 1
        BY <1>2, <1>6, <1>7, <2>2
      <3>2. (m - 1) * W = m * W - W /\ m * W \in Int /\ (H - 1) * W = W * H - W
        BY <1>7
      <3>3. p >= m * W - W
        BY <1>9, <3>1, <3>2
      <3>4. CASE p < (H - 1) * W
        <4>1. p + W \in Cells /\ p + W >= m * W
          BY <1>7, <3>2, <3>3, <3>4 DEF Cells
        <4>2. fb[p + W] = Blank
          BY <1>3, <1>6, <4>1
        <4>. QED  BY <2>2, <3>4, <4>2
      <3>5. CASE ~(p < (H - 1) * W)
        BY <2>2, <3>5
      <3>. QED  BY <3>4, <3>5
    <2>. QED  BY <1>8, <2>1, <2>2
  <1>. QED  BY <1>4, <1>9

(* The prompt, of which nothing is shown yet.                               *)
LEMMA PromptLine ==
  ASSUME ConsoleTypeOK, ScreenInv, Prompt
  PROVE  ScreenInv'
  <1>1. /\ sh = "prompt" /\ out = <<>> /\ out' = PromptText /\ input_buf' = <<>>
        /\ sh' = "read" /\ UNCHANGED <<terminal, command>>
    BY DEF Prompt, At
  <1>2. PromptText \in Seq(Glyphs) /\ Len(PromptText) \in Nat
    BY ConsoleAssumption
  <1>3. Line' = PromptText
    BY <1>1, <1>2 DEF Line
  <1>4. out' # << Backspace >>
    <2>1. ASSUME PromptText = << Backspace >> PROVE FALSE
      <3>1. 1 \in 1 .. Len(PromptText) /\ PromptText[1] = Backspace
        BY <2>1
      <3>2. Backspace \in Glyphs
        BY <1>2, <3>1
      <3>. QED  BY <3>2, TerminalAssumption
    <2>. QED  BY <1>1, <2>1
  <1>5. Here' = Here /\ Here \in Nat
    BY <1>1, LineFacts DEF ScreenInv, terminal, Here
  <1>6. ShownSoFar' = 0
    BY <1>1, <1>2, <1>3, <1>4 DEF ShownSoFar
  <1>7. LineStart' = Here
    BY <1>5, <1>6 DEF LineStart
  <1>8. ASSUME command = "clear", NEW p \in 0 .. Here - 1 PROVE fb[p] = Blank
    <2>1. Here \in Cells /\ W * H \in Int
      BY GridFacts, SizeFacts DEF Here, ConsoleTypeOK, TerminalTypeOK
    <2>2. p \in Cells /\ p >= 0
      BY <1>5, <2>1 DEF Cells
    <2>3. PICK m : m = sys_row - H + 1 + Len(out)
      OBVIOUS
    <2>4. m \in Int /\ m <= 0 /\ W \in Nat
      BY <1>1, <2>3, SizeFacts DEF ConsoleTypeOK, TerminalTypeOK
    <2>5. m * W <= 0 /\ m * W \in Int
      BY <2>4
    <2>6. p >= m * W
      BY <2>2, <2>5
    <2>. QED  BY <1>1, <1>8, <2>2, <2>3, <2>6 DEF ScreenInv, Clearing
  <1>9. LineShown'
    <2>1. /\ Len(out') <= Len(Line')
          /\ \A k \in 1 .. Len(out') : out'[k] = Line'[Len(Line') - Len(out') + k]
      BY <1>1, <1>2, <1>3
    <2>2. LineStart' >= 0 /\ \A k \in 1 .. Len(Line') : ~(k <= ShownSoFar')
      BY <1>2, <1>3, <1>5, <1>6, <1>7
    <2>3. command' = "clear" => \A p \in 0 .. LineStart' - 1 : fb'[p] = Blank
      BY <1>1, <1>7, <1>8 DEF terminal
    <2>. QED  BY <2>1, <2>2, <2>3 DEF LineShown
  <1>10. input_buf' \in Seq(Glyphs)
    BY <1>1
  <1>11. cursor' = Here'
    BY <1>1, <1>5 DEF ScreenInv, terminal
  <1>. QED  BY <1>1, <1>9, <1>10, <1>11 DEF ScreenInv, Clearing

(* A character is put into the line or taken out of it.                     *)
LEMMA EditLine ==
  ASSUME ConsoleTypeOK, ConsoleTypeOK', ScreenInv, Edit
  PROVE  ScreenInv'
  <1>1. sh = "edit" /\ out = <<>> /\ UNCHANGED terminal /\ got \in Characters
    BY ConsoleAssumption DEF Edit, At, ConsoleTypeOK, TypeOK
  <1>2. CASE got = Newline
    <2>1. out' = << Newline >> /\ sh' \in {"prompt", "run"} /\ input_buf' = input_buf /\ command' = "none"
      BY <1>2, TerminalAssumption DEF Edit
    <2>2. out' # <<>>
      BY <2>1
    <2>. QED  BY <2>1, <2>2 DEF ScreenInv, LineShown, Clearing
  <1>3. CASE got # Newline
    <2>1. sh' = "read" /\ command' = command /\ (got = Backspace => Erase) /\ (got # Backspace => Insert)
      BY <1>3 DEF Edit
    <2>2. PICK L, n, P : L = Line /\ n = Len(L) /\ P = PromptText
      OBVIOUS
    <2>3. /\ P \in Seq(Glyphs) /\ input_buf \in Seq(Glyphs) /\ L = P \o input_buf
          /\ n = Len(P) + Len(input_buf) /\ n \in Nat /\ Here \in Nat /\ L \in Seq(Glyphs)
      BY <2>2, LineFacts, ConsoleAssumption DEF ScreenInv, Line
    <2>4. out # << Backspace >> /\ Len(out) = 0
      BY <1>1
    <2>5. ShownSoFar = n /\ LineStart = Here - n
      BY <2>2, <2>3, <2>4 DEF ShownSoFar, LineStart
    <2>6. /\ LineStart >= 0 /\ \A k \in 1 .. n : fb[LineStart + k - 1] = L[k]
          /\ command = "clear" => \A p \in 0 .. LineStart - 1 : fb[p] = Blank
      BY <1>1, <2>2, <2>3, <2>5 DEF ScreenInv, LineShown
    <2>7. UNCHANGED <<fb, cursor, Here>> /\ Line' = P \o input_buf'
      BY <1>1, <2>2 DEF terminal, Here, Line
    <2>8. CASE UNCHANGED <<input_buf, out>>
      <3>1. LineShown' /\ Clearing'
        BY <1>1, <2>1, <2>7, <2>8 DEF ScreenInv, LineShown, Clearing, Line, ShownSoFar, LineStart
      <3>. QED  BY <1>1, <2>1, <2>7, <2>8, <3>1 DEF ScreenInv
    <2>9. CASE got = Backspace /\ ~(UNCHANGED <<input_buf, out>>)
      <3>1. /\ input_buf # <<>> /\ input_buf' = SubSeq(input_buf, 1, Len(input_buf) - 1)
            /\ out' = << Backspace >>
        BY <2>1, <2>9 DEF Erase
      <3>2. PICK b : b = input_buf'
        OBVIOUS
      <3>3. /\ b \in Seq(Glyphs) /\ Len(b) = Len(input_buf) - 1 /\ Len(b) \in Nat
            /\ \A k \in 1 .. Len(b) : b[k] = input_buf[k]
        BY <2>3, <3>1, <3>2
      <3>4. /\ Len(P \o b) = n - 1
            /\ \A k \in 1 .. n - 1 : (P \o b)[k] = L[k]
        BY <2>3, <3>3
      <3>5. ShownSoFar' = n /\ LineStart' = LineStart
        BY <2>3, <2>5, <2>7, <3>1, <3>2, <3>4 DEF ShownSoFar, LineStart
      <3>6. LineShown'
        BY <2>1, <2>3, <2>6, <2>7, <3>1, <3>2, <3>4, <3>5 DEF LineShown
      <3>7. out' # <<>>
        BY <3>1
      <3>. QED  BY <2>1, <3>2, <3>3, <3>6, <3>7 DEF ScreenInv, Clearing
    <2>10. CASE got # Backspace /\ ~(UNCHANGED <<input_buf, out>>)
      <3>1. input_buf' = Append(input_buf, got) /\ out' = << got >> /\ got \in Glyphs
        BY <1>1, <1>3, <2>1, <2>10 DEF Insert, Characters
      <3>2. PICK b : b = input_buf'
        OBVIOUS
      <3>3. /\ b \in Seq(Glyphs) /\ Len(b) = Len(input_buf) + 1 /\ Len(b) \in Nat /\ b[Len(b)] = got
            /\ \A k \in 1 .. Len(input_buf) : b[k] = input_buf[k]
        BY <2>3, <3>1, <3>2
      <3>4. /\ Len(P \o b) = n + 1 /\ (P \o b)[n + 1] = got
            /\ \A k \in 1 .. n : (P \o b)[k] = L[k]
        BY <2>3, <3>3
      <3>5. out' # << Backspace >> /\ Len(out') = 1 /\ out'[1] = got /\ out' # <<>>
        BY <3>1, <2>10
      <3>6. ShownSoFar' = n /\ LineStart' = LineStart
        BY <2>3, <2>5, <2>7, <3>2, <3>4, <3>5 DEF ShownSoFar, LineStart
      <3>7. LineShown'
        <4>1. /\ Len(out') <= n + 1
              /\ \A k \in 1 .. Len(out') : out'[k] = (P \o b)[n + 1 - Len(out') + k]
          BY <2>3, <3>4, <3>5
        <4>2. \A k \in 1 .. n + 1 : k <= n => fb[LineStart + k - 1] = (P \o b)[k]
          BY <2>3, <2>6, <3>4
        <4>3. Line' = P \o b /\ Len(Line') = n + 1 /\ fb' = fb
          BY <2>7, <3>2, <3>4
        <4>4. \A k \in 1 .. Len(out') : out'[k] = Line'[Len(Line') - Len(out') + k]
          BY <2>3, <3>5, <4>1, <4>3
        <4>5. \A k \in 1 .. Len(Line') : k <= ShownSoFar' => fb'[LineStart' + k - 1] = Line'[k]
          BY <3>6, <4>2, <4>3
        <4>6. Len(out') <= Len(Line') /\ LineStart' >= 0
          BY <2>6, <3>6, <4>1, <4>3
        <4>7. command' = "clear" => \A p \in 0 .. LineStart' - 1 : fb'[p] = Blank
          BY <2>1, <2>6, <3>6, <4>3
        <4>. QED  BY <4>4, <4>5, <4>6, <4>7 DEF LineShown
      <3>. QED  BY <2>1, <3>2, <3>3, <3>5, <3>7 DEF ScreenInv, Clearing
    <2>. QED  BY <2>8, <2>9, <2>10
  <1>. QED  BY <1>2, <1>3

(* clear starts to print: nothing is below its own row.                     *)
LEMMA ClearStarts ==
  ASSUME ConsoleTypeOK, BlankAhead, ScreenInv, cmd_clear
  PROVE  ScreenInv'
  <1>1. /\ out' = ClearText /\ sh' = "prompt" /\ UNCHANGED <<terminal, input_buf>>
    BY DEF cmd_clear
  <1>2. /\ W \in Nat /\ W > 0 /\ H \in Nat /\ H > 0 /\ sys_row \in 0 .. H - 1 /\ sys_col \in 0 .. W - 1
    BY SizeFacts DEF ConsoleTypeOK, TerminalTypeOK
  <1>3. Len(out') = H /\ (\A k \in 1 .. H : out'[k] = Newline) /\ out' # <<>>
    BY <1>1, <1>2 DEF ClearText
  <1>4. ASSUME NEW p \in Cells, p >= (sys_row - H + 1 + H) * W PROVE fb[p] = Blank
    <2>1. (sys_row - H + 1 + H) * W = sys_row * W + W /\ sys_row * W \in Nat
      <3>1. sys_row - H + 1 + H = sys_row + 1
        BY <1>2
      <3>2. (sys_row + 1) * W = sys_row * W + W
        BY <1>2
      <3>. QED  BY <1>2, <3>1, <3>2
    <2>2. Here = sys_row * W + sys_col
      BY DEF Here, Position
    <2>3. p >= Here
      BY <1>2, <1>4, <2>1, <2>2 DEF Cells
    <2>. QED  BY <2>3 DEF BlankAhead
  <1>5. Clearing'
    BY <1>1, <1>3, <1>4 DEF Clearing, terminal
  <1>. QED  BY <1>1, <1>3, <1>5 DEF ScreenInv, LineShown

(* Every step keeps the line on the screen.                                 *)
LEMMA ScreenStep ==
  ConsoleInv /\ ConsoleInv' /\ ScreenInv /\ [ConsoleNext]_consoleVars => ScreenInv'
  <1>. SUFFICES ASSUME ConsoleInv, ConsoleInv', ScreenInv, [ConsoleNext]_consoleVars
                PROVE  ScreenInv'
    OBVIOUS
  <1>t. ConsoleTypeOK /\ ConsoleTypeOK' /\ TerminalTypeOK
    BY DEF ConsoleInv, ConsoleTypeOK
  <1>q. ASSUME UNCHANGED <<terminal, sh, input_buf, out, command>> PROVE ScreenInv'
    BY <1>q DEF ScreenInv, LineShown, Clearing, Line, ShownSoFar, LineStart, terminal, Here
  <1>1. CASE Start
    <2>1. sh' = "prompt" /\ out' # <<>> /\ UNCHANGED <<terminal, input_buf, command>> /\ sh = "start"
      BY <1>1, ConsoleAssumption DEF Start
    <2>2. command # "clear"
      BY <2>1 DEF ScreenInv
    <2>. QED  BY <2>1, <2>2 DEF ScreenInv, LineShown, Clearing
  <1>2. CASE Display
    <2>1. /\ out' = Tail(out) /\ Put(Head(out), Len(out) = 1) /\ out # <<>>
          /\ UNCHANGED <<sh, input_buf, command>>
      BY <1>2 DEF Display
    <2>2. out' = <<>> => Len(out) = 1
      <3>1. out \in Seq(Characters)
        BY <1>t DEF ConsoleTypeOK
      <3>2. Len(out') = Len(out) - 1 /\ Len(out) \in Nat
        BY <2>1, <3>1
      <3>. QED  BY <3>2
    <2>3. out' = <<>> => cursor' = Here'
      BY <2>1, <2>2 DEF Put, Here
    <2>4. LineShown'
      BY <1>2, <1>t, <2>1, DisplayLine DEF LineShown
    <2>5. Clearing'
      BY <1>2, <1>t, <2>1, DisplayClear DEF Clearing
    <2>. QED  BY <2>1, <2>3, <2>4, <2>5 DEF ScreenInv
  <1>3. CASE Prompt
    BY <1>3, <1>t, PromptLine
  <1>4. CASE Poll
    <2>1. sh \in {"read", "edit"} /\ sh' \in {"read", "edit"} /\ UNCHANGED <<terminal, input_buf, out, command>>
      BY <1>4 DEF Poll, At
    <2>2. LineShown' /\ Clearing'
      BY <2>1 DEF ScreenInv, LineShown, Clearing, Line, ShownSoFar, LineStart, terminal, Here
    <2>. QED  BY <2>1, <2>2 DEF ScreenInv, terminal, Here
  <1>5. CASE Edit
    BY <1>5, <1>t, EditLine
  <1>6. CASE Run
    <2>1. out = <<>> /\ sh' = "prompt" /\ command' = "other" /\ UNCHANGED <<terminal, input_buf>>
      BY <1>6 DEF Run, At
    <2>. QED  BY <2>1 DEF ScreenInv, LineShown, Clearing, terminal, Here
  <1>7. CASE cmd_clear
    <2>1. BlankAhead
      BY <1>7 DEF cmd_clear, At, ConsoleInv, BootScreen
    <2>. QED  BY <1>7, <1>t, <2>1, ClearStarts
  <1>8. CASE Interrupted
    BY <1>8, <1>q DEF Interrupted, shell
  <1>9. CASE UNCHANGED consoleVars
    BY <1>9, <1>q DEF consoleVars, shell
  <1>. QED  BY <1>1, <1>2, <1>3, <1>4, <1>5, <1>6, <1>7, <1>8, <1>9 DEF ConsoleNext, Main

(* At boot nothing has been printed.                                        *)
LEMMA ScreenInit == ConsoleInit => ScreenInv
  <1>. SUFFICES ASSUME ConsoleInit PROVE ScreenInv
    OBVIOUS
  <1>1. cursor = Here
    BY SizeFacts DEF ConsoleInit, Here, Position
  <1>. QED  BY <1>1 DEF ConsoleInit, ScreenInv, LineShown, Clearing

(* The invariants hold in every state of the console.                       *)
LEMMA ScreenAlways == ConsoleSpec => [](ConsoleInv /\ ScreenInv)
  <1>1. ConsoleInv /\ ScreenInv /\ [ConsoleNext]_consoleVars => (ConsoleInv /\ ScreenInv)'
    BY ConsoleStepInv, ScreenStep
  <1>. QED  BY ConsoleInitInv, ScreenInit, <1>1, PTL DEF ConsoleSpec

(* Across wraps, scrolling, erasing and keys typed ahead, the line editor of
   main shows the line it is going to run, right before the cursor: echoing and
   erasing on the screen never drift from input_buf.                        *)
THEOREM LineAlwaysOnScreen == ConsoleSpec => []LineOnScreen
  <1>1. ASSUME ConsoleInv, ScreenInv PROVE LineOnScreen
    <2>. SUFFICES ASSUME At("read")
                  PROVE  /\ cursor = Here /\ Here >= Len(Line)
                         /\ \A k \in 1 .. Len(Line) : fb[Here - Len(Line) + k - 1] = Line[k]
      BY DEF LineOnScreen, Line
    <2>1. sh = "read" /\ out = <<>> /\ out # << Backspace >> /\ Len(out) = 0
      BY DEF At
    <2>2. Len(Line) \in Nat /\ Here \in Nat
      BY <1>1, LineFacts DEF ConsoleInv, ScreenInv
    <2>3. ShownSoFar = Len(Line) /\ LineStart = Here - Len(Line)
      BY <2>1, <2>2 DEF ShownSoFar, LineStart
    <2>4. LineStart >= 0 /\ \A k \in 1 .. Len(Line) : k <= ShownSoFar => fb[LineStart + k - 1] = Line[k]
      BY <1>1, <2>1 DEF ScreenInv, LineShown
    <2>5. Here >= Len(Line)
      BY <2>2, <2>3, <2>4
    <2>6. \A k \in 1 .. Len(Line) : fb[Here - Len(Line) + k - 1] = Line[k]
      BY <2>2, <2>3, <2>4
    <2>7. cursor = Here
      BY <1>1, <2>1 DEF ScreenInv
    <2>. QED  BY <2>5, <2>6, <2>7
  <1>. QED  BY ScreenAlways, <1>1, PTL

(* The newlines cmd_clear prints push everything off the screen, in whatever row
   it starts: then the screen shows the prompt and the line and nothing else. *)
THEOREM ClearAlwaysClears == ConsoleSpec => []ClearClears
  <1>1. ASSUME ConsoleInv, ScreenInv PROVE ClearClears
    <2>. SUFFICES ASSUME At("read"), command = "clear"
                  PROVE  \A p \in 0 .. Here - Len(Line) - 1 : fb[p] = Blank
      BY DEF ClearClears, Line
    <2>1. sh = "read" /\ out = <<>> /\ out # << Backspace >> /\ Len(out) = 0
      BY DEF At
    <2>2. Len(Line) \in Nat /\ Here \in Nat
      BY <1>1, LineFacts DEF ConsoleInv, ScreenInv
    <2>3. LineStart = Here - Len(Line)
      BY <2>1, <2>2 DEF ShownSoFar, LineStart
    <2>4. \A p \in 0 .. LineStart - 1 : fb[p] = Blank
      BY <1>1, <2>1 DEF ScreenInv, LineShown
    <2>. QED  BY <2>3, <2>4
  <1>. QED  BY ScreenAlways, <1>1, PTL
=============================================================================
