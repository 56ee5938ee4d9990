------------------------------ MODULE KeyQueue ------------------------------
(***************************************************************************)
(* What the keyboard driver promises: a bounded first-in first-out queue   *)
(* of characters.  A key typed while the queue is full is dropped, every   *)
(* other key is delivered once and in the order typed.                     *)
(***************************************************************************)
EXTENDS Naturals, Sequences

CONSTANTS Chars,     \* characters the driver can enqueue
          Capacity   \* characters the queue can hold

VARIABLES queue,  \* typed and not yet delivered
          got     \* the character last delivered, or NoChar

CONSTANT NoChar

Init == queue = <<>> /\ got = NoChar

Type(c) == /\ Len(queue) < Capacity
           /\ queue' = Append(queue, c)
           /\ UNCHANGED got

Deliver == /\ queue # <<>>
           /\ got' = Head(queue)
           /\ queue' = Tail(queue)

(* A poll that finds nothing delivers NoChar.                               *)
Nothing == queue = <<>> /\ got' = NoChar /\ UNCHANGED queue

Next == (\E c \in Chars : Type(c)) \/ Deliver \/ Nothing

Spec == Init /\ [][Next]_<<queue, got>>
=============================================================================
