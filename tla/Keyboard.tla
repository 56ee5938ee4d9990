------------------------------ MODULE Keyboard ------------------------------
(***************************************************************************)
(* The keyboard driver, src/src/driver/keyboard.c: the interrupt handler   *)
(* decodes scancodes into a ring buffer that the GETCHAR system call       *)
(* empties.  IRQ 1 enters through an interrupt gate and runs to its end;   *)
(* int 0x80 is a trap gate, so the handler may run between any two steps   *)
(* of get_keyboard_buffer.                                                 *)
(***************************************************************************)
EXTENDS Integers, Sequences

CONSTANTS
  KEYBOARD_BUFFER_SIZE,
  Scancodes,  \* bytes the keyboard sends, E0 among them
  E0,         \* EXTENDED_SCANCODE_BYTE
  Chars,      \* characters the handler can enqueue
  NoChar,     \* 0: no character
  Ascii,      \* character of a plain scancode; NoChar for a key release and
              \* for a key without one
  Extended,   \* character of a scancode after E0, or NoChar
  MaxKeys     \* bound on the scancodes the keyboard sends

ASSUME KeyboardAssumption ==
  /\ KEYBOARD_BUFFER_SIZE \in Nat \ {0, 1}
  /\ E0 \in Scancodes /\ NoChar \notin Chars
  /\ Ascii \in [Scancodes -> Chars \cup {NoChar}]
  /\ Extended \in [Scancodes -> Chars \cup {NoChar}]
  /\ MaxKeys \in Nat

VARIABLES
  buffer, head, tail,   \* the ring
  read_extended_mode,
  keyboard_input_on,
  pc, char,             \* place and local of get_keyboard_buffer
  got,                  \* character the last GETCHAR gave to its caller
  sent                  \* scancodes sent so far

driver == <<buffer, head, tail, read_extended_mode, keyboard_input_on>>
vars == <<driver, pc, char, got, sent>>

N == KEYBOARD_BUFFER_SIZE
Succ(i) == (i + 1) % N

(* The buffer is static and zero-initialised.                               *)
Init ==
  /\ buffer = [i \in 0 .. N - 1 |-> NoChar] /\ head = 0 /\ tail = 0
  /\ read_extended_mode = FALSE /\ keyboard_input_on = FALSE
  /\ pc = "idle" /\ char = NoChar /\ got = NoChar
  /\ sent = 0

(* Fault: the ring overwrites its oldest key.                               *)
add_overwriting(c) ==
  IF c = NoChar
  THEN UNCHANGED <<buffer, head>>
  ELSE /\ buffer' = [buffer EXCEPT ![head] = c]
       /\ head' = Succ(head)

(* A key that finds the ring full is dropped.                               *)
add_to_buffer(c) ==
  IF c = NoChar \/ Succ(head) = tail
  THEN UNCHANGED <<buffer, head>>
  ELSE /\ buffer' = [buffer EXCEPT ![head] = c]
       /\ head' = Succ(head)

(* keyboard_isr: one scancode from the port.                                *)
KeyboardIsr(code) ==
  /\ sent < MaxKeys
  /\ sent' = sent + 1
  /\ IF ~keyboard_input_on
     THEN UNCHANGED <<buffer, head, read_extended_mode>>
     ELSE IF code = E0
     THEN read_extended_mode' = TRUE /\ UNCHANGED <<buffer, head>>
     ELSE /\ read_extended_mode' = FALSE
          /\ add_to_buffer(IF read_extended_mode THEN Extended[code] ELSE Ascii[code])
  /\ UNCHANGED <<tail, keyboard_input_on, pc, char, got>>

(* The ACTIVATE system call; the shell makes it when it starts.             *)
keyboard_state_activate ==
  /\ pc = "idle"
  /\ keyboard_input_on' = TRUE
  /\ UNCHANGED <<buffer, head, tail, read_extended_mode, pc, char, got, sent>>

(* get_keyboard_buffer in three steps: the comparison of head and tail, the
   read of the slot, the move of the tail.                                  *)
GetEmpty ==
  /\ pc = "idle"
  /\ head = tail
  /\ got' = NoChar
  /\ UNCHANGED <<driver, pc, char, sent>>

GetCheck ==
  /\ pc = "idle"
  /\ head # tail
  /\ pc' = "read"
  /\ UNCHANGED <<driver, char, got, sent>>

GetRead ==
  /\ pc = "read"
  /\ char' = buffer[tail]
  /\ pc' = "advance"
  /\ UNCHANGED <<driver, got, sent>>

(* Fault: the tail does not move.                                           *)
GetAgain ==
  /\ pc = "advance"
  /\ got' = char /\ char' = NoChar
  /\ pc' = "idle"
  /\ UNCHANGED <<driver, sent>>

GetAdvance ==
  /\ pc = "advance"
  /\ tail' = Succ(tail)
  /\ got' = char
  /\ char' = NoChar
  /\ pc' = "idle"
  /\ UNCHANGED <<buffer, head, read_extended_mode, keyboard_input_on, sent>>

Get == GetEmpty \/ GetCheck \/ GetRead \/ GetAdvance

Next == Get \/ keyboard_state_activate \/ \E code \in Scancodes : KeyboardIsr(code)

Spec == Init /\ [][Next]_vars

-----------------------------------------------------------------------------
(* Every variable keeps its type, the indices stay inside the ring.         *)
TypeOK ==
  /\ buffer \in [0 .. N - 1 -> Chars \cup {NoChar}]
  /\ head \in 0 .. N - 1 /\ tail \in 0 .. N - 1
  /\ read_extended_mode \in BOOLEAN /\ keyboard_input_on \in BOOLEAN
  /\ pc \in {"idle", "read", "advance"}
  /\ char \in Chars \cup {NoChar} /\ got \in Chars \cup {NoChar}
  /\ sent \in 0 .. MaxKeys

(* What get_keyboard_buffer saw stays true while the handler interrupts it:
   the ring is still not empty and the slot it read has not been reused.    *)
SlotStable ==
  /\ pc # "idle" => head # tail
  /\ pc = "advance" => char = buffer[tail]

(* The ring as a queue.                                                     *)
Count == (head + N - tail) % N
Queue == [i \in 1 .. Count |-> buffer[(tail + i - 1) % N]]

(* The queue holds characters only, never an empty slot: GETCHAR returns 0
   only when there is nothing to read, which is how its callers use it.     *)
QueueHoldsChars == \A i \in 1 .. Count : Queue[i] \in Chars

KQ == INSTANCE KeyQueue WITH
  Capacity <- N - 1, queue <- Queue

(* The driver is a queue of N - 1 characters: interrupting GETCHAR anywhere
   neither loses, repeats nor reorders a key.                               *)
ImplementsQueue == KQ!Spec
=============================================================================
