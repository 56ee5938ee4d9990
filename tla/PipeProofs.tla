----------------------------- MODULE PipeProofs -----------------------------
(***************************************************************************)
(* The buffers of a pipeline stay inside their arrays, for every size of   *)
(* the buffers and every line.  Most of the work is to show that what the  *)
(* shell cuts out of a line and what a command prints are sequences at     *)
(* all: the recursive functions that stand for the loops of main,          *)
(* parse_input and cmd_grep have a value at every place they are used.     *)
(***************************************************************************)
EXTENDS Pipe, SequenceTheorems, NaturalsInduction, WellFoundedInduction, TLAPS

-----------------------------------------------------------------------------
(* Numbers: induction by sets, which the provers can instantiate.           *)

(* A set of natural numbers that is not empty has a least element.          *)
LEMMA LeastNat ==
  ASSUME NEW T \in SUBSET Nat, T # {}
  PROVE  \E x \in T : \A y \in T : x <= y
  <1>. DEFINE R == {ss \in Nat \X Nat : ss[1] < ss[2]}
  <1>1. IsWellFoundedOn(R, Nat)
    BY NatLessThanWellFounded, Zenon DEF OpToRel
  <1>2. PICK x \in T : \A y \in T : ~(<<y, x>> \in R)
    <2>. HIDE DEF R
    <2>. QED  BY <1>1, WFMin
  <1>3. ASSUME NEW y \in T PROVE x <= y
    <2>1. y \in Nat /\ x \in Nat
      OBVIOUS
    <2>2. <<y, x>> \in Nat \X Nat /\ <<y, x>>[1] = y /\ <<y, x>>[2] = x
      BY <2>1
    <2>3. y < x => <<y, x>> \in R
      BY <2>2
    <2>4. ~(y < x)
      BY <1>2, <2>3, Zenon
    <2>. QED  BY <2>1, <2>4
  <1>. QED  BY <1>3

(* A set that holds 0 and, below n, with every number the next one holds all
   numbers up to n.                                                         *)
LEMMA UpTo ==
  ASSUME NEW n \in Nat, NEW S, 0 \in S, \A k \in 0 .. n - 1 : k \in S => k + 1 \in S
  PROVE  \A k \in 0 .. n : k \in S
  <1>. SUFFICES ASSUME (0 .. n) \ S # {} PROVE FALSE
    OBVIOUS
  <1>1. PICK x \in (0 .. n) \ S : \A y \in (0 .. n) \ S : x <= y
    <2>1. (0 .. n) \ S \in SUBSET Nat
      OBVIOUS
    <2>. QED  BY <2>1, LeastNat
  <1>2. x # 0 /\ x - 1 \in 0 .. n - 1 /\ x - 1 \notin (0 .. n) \ S
    BY <1>1
  <1>. QED  BY <1>2

(* The first place from p on that is in S, or the end.                      *)
LEMMA FirstFrom ==
  ASSUME NEW n \in Nat, NEW p \in 1 .. n + 1, NEW S
  PROVE  \E q \in p .. n + 1 : (\A r \in p .. q - 1 : r \notin S) /\ (q <= n => q \in S)
  <1>. DEFINE T == {q \in p .. n + 1 : q <= n => q \in S}
  <1>1. T \in SUBSET Nat /\ n + 1 \in T
    OBVIOUS
  <1>2. PICK q \in T : \A r \in T : q <= r
    <2>. HIDE DEF T
    <2>. QED  BY <1>1, LeastNat
  <1>3. ASSUME NEW r \in p .. q - 1 PROVE r \notin S
    BY <1>2
  <1>. QED  BY <1>2, <1>3

(* What the turns of a loop do to a value in X, and the values of a loop that
   goes up from 0 and of one that goes down from n + 1, by steps of any size. *)
Turns(n, X) == [1 .. n -> [X -> X]]
GoesUp(g, n, X, x0, F) ==
  g \in [0 .. n -> X] /\ g[0] = x0 /\ \A i \in 1 .. n : g[i] = F[i][g[i - 1]]
GoesDown(g, n, X, x0, F, to) ==
  g \in [1 .. n + 1 -> X] /\ g[n + 1] = x0 /\ \A p \in 1 .. n : g[p] = F[p][g[to[p]]]

(* A loop that goes up has a value at every turn.                           *)
LEMMA Ascending ==
  ASSUME NEW n \in Nat, NEW X, NEW x0 \in X, NEW F \in Turns(n, X)
  PROVE  \E g : GoesUp(g, n, X, x0, F)
  <1>. F \in [1 .. n -> [X -> X]]
    BY DEF Turns
  <1>. DEFINE App(m) == {g \in [0 .. m -> X] :
                           g[0] = x0 /\ \A i \in 1 .. m : g[i] = F[i][g[i - 1]]}
              S == {m \in 0 .. n : App(m) # {}}
  <1>1. 0 \in S
    <2>1. [i \in 0 .. 0 |-> x0] \in App(0)
      OBVIOUS
    <2>. QED  BY <2>1
  <1>2. ASSUME NEW m \in 0 .. n - 1, m \in S PROVE m + 1 \in S
    <2>1. PICK g \in App(m) : TRUE
      BY <1>2
    <2>. DEFINE h == [i \in 0 .. m + 1 |-> IF i <= m THEN g[i] ELSE F[m + 1][g[m]]]
    <2>2. \A i \in 0 .. m : g[i] \in X
      BY <2>1
    <2>3. m + 1 \in 1 .. n /\ F[m + 1] \in [X -> X]
      OBVIOUS
    <2>4. F[m + 1][g[m]] \in X
      BY <2>2, <2>3
    <2>5. h \in [0 .. m + 1 -> X]
      BY <2>2, <2>4
    <2>6. h[0] = x0
      BY <2>1
    <2>7. ASSUME NEW i \in 1 .. m + 1 PROVE h[i] = F[i][h[i - 1]]
      <3>1. CASE i <= m
        BY <3>1, <2>1
      <3>2. CASE i = m + 1
        BY <3>2
      <3>. QED  BY <3>1, <3>2
    <2>8. h \in App(m + 1)
      BY <2>5, <2>6, <2>7
    <2>. HIDE DEF App
    <2>. QED  BY <2>8
  <1>. HIDE DEF S
  <1>3. \A m \in 0 .. n : m \in S
    BY <1>1, <1>2, UpTo
  <1>. QED  BY <1>3 DEF S, GoesUp

(* So has one that goes down.                                               *)
LEMMA Descending ==
  ASSUME NEW n \in Nat, NEW X, NEW x0 \in X, NEW F \in Turns(n, X),
         NEW to \in [1 .. n -> 1 .. n + 1], \A p \in 1 .. n : to[p] > p
  PROVE  \E g : GoesDown(g, n, X, x0, F, to)
  <1>. F \in [1 .. n -> [X -> X]]
    BY DEF Turns
  <1>. DEFINE App(m) == {g \in [(n + 1) - m .. n + 1 -> X] :
                           /\ g[n + 1] = x0
                           /\ \A p \in (n + 1) - m .. n : g[p] = F[p][g[to[p]]]}
              S == {m \in 0 .. n : App(m) # {}}
  <1>1. 0 \in S
    <2>1. [i \in (n + 1) - 0 .. n + 1 |-> x0] \in App(0)
      OBVIOUS
    <2>. HIDE DEF App
    <2>. QED  BY <2>1
  <1>2. ASSUME NEW m \in 0 .. n - 1, m \in S PROVE m + 1 \in S
    <2>1. PICK g \in App(m) : TRUE
      BY <1>2
    <2>2. PICK z : z = n - m
      OBVIOUS
    <2>3. z \in 1 .. n /\ (n + 1) - m = z + 1 /\ (n + 1) - (m + 1) = z
      BY <2>2
    <2>4. F[z] \in [X -> X] /\ to[z] \in z + 1 .. n + 1
      BY <2>3
    <2>5. /\ g \in [z + 1 .. n + 1 -> X] /\ g[n + 1] = x0
          /\ \A p \in z + 1 .. n : g[p] = F[p][g[to[p]]]
      BY <2>1, <2>3
    <2>6. F[z][g[to[z]]] \in X
      BY <2>4, <2>5
    <2>. DEFINE h == [p \in z .. n + 1 |-> IF p = z THEN F[z][g[to[z]]] ELSE g[p]]
    <2>7. h \in [z .. n + 1 -> X] /\ h[n + 1] = x0
      BY <2>3, <2>5, <2>6
    <2>8. ASSUME NEW p \in z .. n PROVE h[p] = F[p][h[to[p]]]
      <3>1. to[p] \in z + 1 .. n + 1 /\ h[to[p]] = g[to[p]]
        <4>1. p \in 1 .. n
          BY <2>3
        <4>2. to[p] \in 1 .. n + 1 /\ to[p] > p
          BY <4>1
        <4>. QED  BY <2>3, <4>2
      <3>2. CASE p = z
        BY <2>3, <3>1, <3>2
      <3>3. CASE p # z
        BY <2>3, <2>5, <3>1, <3>3
      <3>. QED  BY <3>2, <3>3
    <2>9. h \in App(m + 1)
      <3>. HIDE DEF h
      <3>. QED  BY <2>3, <2>7, <2>8
    <2>. HIDE DEF App
    <2>. QED  BY <2>9
  <1>. HIDE DEF S
  <1>3. \A m \in 0 .. n : m \in S
    BY <1>1, <1>2, UpTo
  <1>4. App(n) # {} /\ (n + 1) - n = 1
    BY <1>3 DEF S
  <1>. QED  BY <1>4 DEF GoesDown

-----------------------------------------------------------------------------
(* What the shell makes of a line.                                          *)

(* What stands in a line, and what stands between two of its bars.          *)
Token == Words \cup {Bar, Space}
Segment == Seq(Words \cup {Space})

(* AtMost keeps a sequence a sequence, no longer than the bound.            *)
LEMMA AtMostType ==
  ASSUME NEW X, NEW s \in Seq(X), NEW n \in Nat
  PROVE  /\ AtMost(n, s) \in Seq(X) /\ Len(AtMost(n, s)) <= n
         /\ Len(s) > 0 /\ n > 0 => Len(AtMost(n, s)) > 0
  <1>1. CASE Len(s) <= n
    BY <1>1 DEF AtMost
  <1>2. CASE Len(s) > n
    <2>1. /\ SubSeq(s, 1, n) \in Seq(X) /\ Len(SubSeq(s, 1, n)) = n
      <3>1. 1 \in 1 .. Len(s) + 1 /\ n \in 0 .. Len(s) /\ Len(s) \in Nat
        BY <1>2
      <3>. QED  BY <3>1, SubSeqProperties
    <2>. QED  BY <1>2, <2>1 DEF AtMost
  <1>. QED  BY <1>1, <1>2

(* A part of a sequence of which every element is in X.                     *)
LEMMA PartType ==
  ASSUME NEW Y, NEW s \in Seq(Y), NEW X, NEW p \in 1 .. Len(s) + 1,
         NEW q \in p .. Len(s) + 1, \A r \in p .. q - 1 : s[r] \in X
  PROVE  SubSeq(s, p, q - 1) \in Seq(X) /\ Len(SubSeq(s, p, q - 1)) = q - p
  <1>1. p \in Int /\ q - 1 \in Int /\ Len(s) \in Nat
    OBVIOUS
  <1>2. /\ SubSeq(s, p, q - 1) \in Seq(X)
        /\ Len(SubSeq(s, p, q - 1)) = IF p <= q - 1 THEN (q - 1) - p + 1 ELSE 0
    BY <1>1, SubSeqProperties
  <1>. QED  BY <1>1, <1>2

(* A segment holds words and spaces, no bar.                                *)
LEMMA SegmentType ==
  ASSUME NEW line \in Seq(Token), NEW p \in 1 .. Len(line) + 1
  PROVE  SegmentAt(line, p) \in Segment
  <1>1. Len(line) \in Nat
    OBVIOUS
  <1>. DEFINE S == {r \in 1 .. Len(line) : line[r] = Bar}
              Stops(q) == /\ \A r \in p .. q - 1 : line[r] # Bar
                          /\ q <= Len(line) => line[q] = Bar
  <1>2. PICK q \in p .. Len(line) + 1 :
          (\A r \in p .. q - 1 : r \notin S) /\ (q <= Len(line) => q \in S)
    <2>. HIDE DEF S
    <2>. QED  BY <1>1, FirstFrom
  <1>3. Stops(q)
    BY <1>1, <1>2
  <1>. DEFINE e == CHOOSE x \in p .. Len(line) + 1 : Stops(x)
  <1>4. e \in p .. Len(line) + 1 /\ Stops(e)
    <2>. HIDE DEF Stops
    <2>. QED  BY <1>3
  <1>5. SegmentAt(line, p) = SubSeq(line, p, e - 1)
    BY DEF SegmentAt
  <1>. HIDE DEF e
  <1>6. ASSUME NEW r \in p .. e - 1 PROVE line[r] \in Words \cup {Space}
    <2>1. r \in 1 .. Len(line)
      BY <1>1, <1>4
    <2>. QED  BY <1>4, <2>1 DEF Token
  <1>7. SubSeq(line, p, e - 1) \in Seq(Words \cup {Space})
    BY <1>4, <1>6, PartType
  <1>. QED  BY <1>5, <1>7 DEF Segment

(* SkipSpaces does not go back, nor past the end.                           *)
LEMMA SkipRange ==
  ASSUME NEW line \in Seq(Token), NEW p \in 1 .. Len(line) + 1
  PROVE  SkipSpaces(line, p) \in p .. Len(line) + 1
  <1>1. Len(line) \in Nat
    OBVIOUS
  <1>. DEFINE S == {r \in 1 .. Len(line) : line[r] # Space}
  <1>2. PICK q \in p .. Len(line) + 1 :
          (\A r \in p .. q - 1 : r \notin S) /\ (q <= Len(line) => q \in S)
    <2>. HIDE DEF S
    <2>. QED  BY <1>1, FirstFrom
  <1>3. (\A r \in p .. q - 1 : line[r] = Space) /\ (q <= Len(line) => line[q] # Space)
    BY <1>1, <1>2
  <1>. QED  BY <1>3 DEF SkipSpaces

(* What parse_input returns are words.                                      *)
LEMMA WordsType ==
  ASSUME NEW segment \in Segment
  PROVE  parse_input(segment) \in Seq(Words)
  <1>. DEFINE n == Len(segment)
              X == Seq(Words)
              Body(g) == [i \in 0 .. n |->
                            IF i = 0 THEN <<>>
                            ELSE IF segment[i] = Space THEN g[i - 1]
                            ELSE Append(g[i - 1], segment[i])]
              F == [i \in 1 .. n |-> [x \in X |-> IF segment[i] = Space THEN x
                                                  ELSE Append(x, segment[i])]]
  <1>1. n \in Nat /\ \A i \in 1 .. n : segment[i] \in Words \cup {Space}
    BY DEF Segment
  <1>2. <<>> \in X
    OBVIOUS
  <1>2a. F \in Turns(n, X)
    BY <1>1 DEF Turns
  <1>3. PICK g \in [0 .. n -> X] : g[0] = <<>> /\ \A i \in 1 .. n : g[i] = F[i][g[i - 1]]
    <2>1. n \in Nat
      BY <1>1
    <2>2. \E g : GoesUp(g, n, X, <<>>, F)
      <3>. HIDE DEF n, X, F, Body
      <3>. QED  BY <1>2, <1>2a, <2>1, Ascending
    <2>. HIDE DEF n, X, F, Body
    <2>. QED  BY <2>2 DEF GoesUp
  <1>4. g = Body(g)
    <2>. HIDE DEF n
    <2>1. ASSUME NEW i \in 0 .. n PROVE g[i] = Body(g)[i]
      <3>1. CASE i = 0
        BY <3>1, <1>3
      <3>2. CASE i # 0
        <4>1. i \in 1 .. n /\ i - 1 \in 0 .. n
          BY <1>1, <3>2
        <4>2. g[i - 1] \in X
          BY <1>3, <4>1
        <4>. QED  BY <1>3, <3>2, <4>1, <4>2
      <3>. QED  BY <3>1, <3>2
    <2>2. g = [i \in 0 .. n |-> g[i]]
      BY <1>3
    <2>3. Body(g) = [i \in 0 .. n |-> Body(g)[i]]
      OBVIOUS
    <2>. HIDE DEF Body
    <2>. QED  BY <2>1, <2>2, <2>3
  <1>. DEFINE u == CHOOSE f : f = Body(f)
  <1>5. u = Body(u)
    <2>. HIDE DEF Body
    <2>. QED  BY <1>4
  <1>6. parse_input(segment) = u[n]
    BY DEF parse_input
  <1>. HIDE DEF u
  <1>. DEFINE S == {k \in 0 .. n : u[k] \in X}
  <1>7. 0 \in S
    BY <1>1, <1>2, <1>5
  <1>8. ASSUME NEW k \in 0 .. n - 1, k \in S PROVE k + 1 \in S
    <2>1. k + 1 \in 1 .. n /\ (k + 1) - 1 = k /\ k + 1 \in 0 .. n /\ k + 1 # 0
      BY <1>1
    <2>2. u[k + 1] = IF segment[k + 1] = Space THEN u[k] ELSE Append(u[k], segment[k + 1])
      BY <1>5, <2>1
    <2>3. u[k] \in Seq(Words)
      BY <1>8
    <2>4. segment[k + 1] \in Words \cup {Space}
      BY <1>1, <2>1
    <2>5. u[k + 1] \in Seq(Words)
      BY <2>2, <2>3, <2>4
    <2>. QED  BY <2>1, <2>5
  <1>9. \A k \in 0 .. n : k \in S
    <2>. HIDE DEF S, n
    <2>. QED  BY <1>1, <1>7, <1>8, UpTo
  <1>. QED  BY <1>1, <1>6, <1>9

(* What main finds after the first command are commands too.                *)
LEMMA CommandsType ==
  ASSUME NEW line \in Seq(Token)
  PROVE  CommandsFrom(line)[1] \in Seq(Segment)
  <1>. DEFINE n == Len(line)
              X == Seq(Segment)
              One(p) == LET q == SkipSpaces(line, p + 1)
                        IN  IF q <= Len(line) THEN << SegmentAt(line, q) >> ELSE <<>>
              Body(g) == [p \in 1 .. n + 1 |->
                            IF p > n THEN <<>>
                            ELSE IF line[p] # Bar THEN g[p + 1]
                            ELSE One(p) \o g[SkipSpaces(line, p + 1)]]
              to == [p \in 1 .. n |-> IF line[p] # Bar THEN p + 1
                                      ELSE SkipSpaces(line, p + 1)]
              F == [p \in 1 .. n |-> [x \in X |-> IF line[p] # Bar THEN x ELSE One(p) \o x]]
  <1>1. n \in Nat
    OBVIOUS
  <1>2. ASSUME NEW p \in 1 .. n
        PROVE  SkipSpaces(line, p + 1) \in p + 1 .. n + 1 /\ One(p) \in X
    <2>1. p + 1 \in 1 .. n + 1
      BY <1>1
    <2>2. SkipSpaces(line, p + 1) \in p + 1 .. n + 1
      BY <2>1, SkipRange
    <2>3. SkipSpaces(line, p + 1) \in 1 .. n + 1
      BY <1>1, <2>2
    <2>4. SegmentAt(line, SkipSpaces(line, p + 1)) \in Segment
      BY <2>3, SegmentType
    <2>5. One(p) \in X
      <3>. HIDE DEF n
      <3>. QED  BY <2>4
    <2>. QED  BY <2>2, <2>5
  <1>. HIDE DEF One
  <1>3. <<>> \in X
    OBVIOUS
  <1>4. F \in Turns(n, X)
    <2>1. ASSUME NEW p \in 1 .. n, NEW x \in X
          PROVE  (IF line[p] # Bar THEN x ELSE One(p) \o x) \in X
      <3>1. One(p) \in X
        BY <1>2
      <3>2. One(p) \o x \in X
        BY <3>1, ConcatProperties
      <3>. QED  BY <3>2
    <2>. HIDE DEF X, n
    <2>. QED  BY <2>1 DEF Turns
  <1>5. to \in [1 .. n -> 1 .. n + 1] /\ \A p \in 1 .. n : to[p] > p
    <2>1. ASSUME NEW p \in 1 .. n PROVE to[p] \in 1 .. n + 1 /\ to[p] > p
      <3>1. to[p] = IF line[p] # Bar THEN p + 1 ELSE SkipSpaces(line, p + 1)
        OBVIOUS
      <3>2. SkipSpaces(line, p + 1) \in p + 1 .. n + 1
        BY <1>2
      <3>. HIDE DEF to, n
      <3>. QED  BY <1>1, <3>1, <3>2
    <2>2. to = [p \in 1 .. n |-> to[p]]
      OBVIOUS
    <2>. HIDE DEF to, n
    <2>. QED  BY <2>1, <2>2
  <1>6. PICK g : GoesDown(g, n, X, <<>>, F, to)
    <2>. HIDE DEF n, X, F, Body, to
    <2>. QED  BY <1>1, <1>3, <1>4, <1>5, Descending
  <1>7. g = Body(g)
    <2>. HIDE DEF n
    <2>1. ASSUME NEW p \in 1 .. n + 1 PROVE g[p] = Body(g)[p]
      <3>1. CASE p = n + 1
        <4>1. g[n + 1] = <<>>
          <5>. HIDE DEF F, X, to, Body
          <5>. QED  BY <1>6 DEF GoesDown
        <4>2. n + 1 \in 1 .. n + 1 /\ n + 1 > n
          BY <1>1
        <4>3. Body(g)[n + 1] = <<>>
          BY <4>2
        <4>. HIDE DEF Body
        <4>. QED  BY <3>1, <4>1, <4>3
      <3>2. CASE p # n + 1
        <4>1. p \in 1 .. n /\ ~(p > n)
          BY <1>1, <3>2
        <4>2. to[p] \in 1 .. n + 1
          <5>. HIDE DEF to
          <5>. QED  BY <1>5, <4>1
        <4>3. g[p] = F[p][g[to[p]]] /\ g[to[p]] \in X
          <5>. HIDE DEF F, X, to
          <5>. QED  BY <1>6, <4>1, <4>2 DEF GoesDown
        <4>4. g[p] = IF line[p] # Bar THEN g[to[p]] ELSE One(p) \o g[to[p]]
          <5>. HIDE DEF X, to
          <5>. QED  BY <4>1, <4>3
        <4>5. Body(g)[p] = IF line[p] # Bar THEN g[p + 1]
                           ELSE One(p) \o g[SkipSpaces(line, p + 1)]
          BY <4>1
        <4>6. to[p] = IF line[p] # Bar THEN p + 1 ELSE SkipSpaces(line, p + 1)
          BY <4>1
        <4>. HIDE DEF Body, to
        <4>. QED  BY <4>4, <4>5, <4>6
      <3>. QED  BY <3>1, <3>2
    <2>2. g = [p \in 1 .. n + 1 |-> g[p]]
      BY <1>6 DEF GoesDown
    <2>3. Body(g) = [p \in 1 .. n + 1 |-> Body(g)[p]]
      OBVIOUS
    <2>. HIDE DEF Body
    <2>. QED  BY <2>1, <2>2, <2>3
  <1>. DEFINE u == CHOOSE f : f = Body(f)
  <1>8. u = Body(u)
    <2>. HIDE DEF Body
    <2>. QED  BY <1>7
  <1>9. CommandsFrom(line) = u
    BY DEF CommandsFrom, One
  <1>. HIDE DEF u, F, to
  <1>. DEFINE S == {k \in 0 .. n : \A p \in (n + 1) - k .. n + 1 : u[p] \in X}
  <1>10. 0 \in S
    <2>1. u[n + 1] = <<>>
      BY <1>1, <1>8
    <2>2. u[n + 1] \in X
      BY <1>3, <2>1
    <2>. HIDE DEF X, n
    <2>3. \A p \in (n + 1) - 0 .. n + 1 : p = n + 1
      BY <1>1
    <2>. QED  BY <1>1, <2>2, <2>3
  <1>11. ASSUME NEW k \in 0 .. n - 1, k \in S PROVE k + 1 \in S
    <2>1. PICK z : z = n - k
      OBVIOUS
    <2>2. z \in 1 .. n /\ ~(z > n) /\ z \in 1 .. n + 1
          /\ (n + 1) - k = z + 1 /\ (n + 1) - (k + 1) = z /\ k + 1 \in 0 .. n
      BY <1>1, <2>1
    <2>3. \A p \in z + 1 .. n + 1 : u[p] \in X
      BY <1>11, <2>2
    <2>4. u[z] = IF line[z] # Bar THEN u[z + 1] ELSE One(z) \o u[SkipSpaces(line, z + 1)]
      BY <1>8, <2>2
    <2>5. SkipSpaces(line, z + 1) \in z + 1 .. n + 1 /\ One(z) \in X
      BY <1>2, <2>2
    <2>6. u[z + 1] \in X /\ u[SkipSpaces(line, z + 1)] \in X
      <3>1. z + 1 \in z + 1 .. n + 1
        BY <1>1, <2>2
      <3>. HIDE DEF X, n
      <3>. QED  BY <2>3, <2>5, <3>1
    <2>7. u[z] \in X
      BY <2>4, <2>5, <2>6
    <2>8. \A p \in z .. n + 1 : u[p] \in X
      <3>. HIDE DEF X, n
      <3>. QED  BY <1>1, <2>2, <2>3, <2>7
    <2>. HIDE DEF X, n
    <2>. QED  BY <2>2, <2>8
  <1>12. \A k \in 0 .. n : k \in S
    <2>. HIDE DEF S, n
    <2>. QED  BY <1>1, <1>10, <1>11, UpTo
  <1>13. n \in S
    <2>. HIDE DEF S, n
    <2>. QED  BY <1>1, <1>12
  <1>14. (n + 1) - n = 1 /\ 1 \in 1 .. n + 1
    BY <1>1
  <1>. HIDE DEF n
  <1>15. u[1] \in X
    BY <1>13, <1>14
  <1>. QED  BY <1>9, <1>15

(* main finds at least one command and no more than its table holds.        *)
LEMMA SplitType ==
  ASSUME NEW line \in Seq(Token)
  PROVE  /\ Split(line) \in Seq(Segment)
         /\ Len(Split(line)) \in 1 .. MAX_CMDS
  <1>1. 1 \in 1 .. Len(line) + 1
    OBVIOUS
  <1>2. SegmentAt(line, 1) \in Segment
    BY <1>1, SegmentType
  <1>3. PICK c : c = CommandsFrom(line)[1]
    OBVIOUS
  <1>4. c \in Seq(Segment)
    BY <1>3, CommandsType
  <1>5. PICK f : f = SegmentAt(line, 1)
    OBVIOUS
  <1>6. PICK all : all = << f >> \o c
    OBVIOUS
  <1>7. << f >> \in Seq(Segment) /\ Len(<< f >>) = 1
    BY <1>2, <1>5
  <1>8. all \in Seq(Segment) /\ Len(all) = 1 + Len(c)
    BY <1>4, <1>6, <1>7, ConcatProperties
  <1>9. Len(all) > 0
    BY <1>4, <1>8
  <1>10. MAX_CMDS \in Nat /\ MAX_CMDS > 0
    BY PipeAssumption
  <1>11. Split(line) = AtMost(MAX_CMDS, all)
    BY <1>3, <1>5, <1>6 DEF Split
  <1>12. /\ AtMost(MAX_CMDS, all) \in Seq(Segment) /\ Len(AtMost(MAX_CMDS, all)) <= MAX_CMDS
         /\ Len(AtMost(MAX_CMDS, all)) > 0
    BY <1>8, <1>9, <1>10, AtMostType
  <1>. QED  BY <1>10, <1>11, <1>12

-----------------------------------------------------------------------------
(* What commands print.                                                     *)

(* The line that ends before place i begins somewhere.                      *)
LEMMA LineStart ==
  ASSUME NEW file \in Seq(Chars), NEW i \in 1 .. Len(file) + 1
  PROVE  \E s \in 1 .. i : /\ s > 1 => file[s - 1] = Newline
                           /\ \A j \in s .. i - 1 : file[j] # Newline
  <1>. DEFINE T == {s \in 1 .. i : \A j \in s .. i - 1 : file[j] # Newline}
  <1>1. i \in Nat \ {0}
    OBVIOUS
  <1>2. T \in SUBSET Nat /\ i \in T
    BY <1>1
  <1>3. PICK s \in T : \A t \in T : s <= t
    <2>. HIDE DEF T
    <2>. QED  BY <1>2, LeastNat
  <1>4. s \in 1 .. i /\ \A j \in s .. i - 1 : file[j] # Newline
    BY <1>3
  <1>5. ASSUME s > 1, file[s - 1] # Newline PROVE FALSE
    <2>1. s - 1 \in 1 .. i /\ s - 1 \in Int /\ ~(s <= s - 1)
      BY <1>1, <1>4, <1>5
    <2>2. ASSUME NEW j \in s - 1 .. i - 1 PROVE file[j] # Newline
      <3>1. CASE j = s - 1
        BY <3>1, <1>5
      <3>2. CASE j # s - 1
        BY <1>1, <1>4, <2>1, <3>2
      <3>. QED  BY <3>1, <3>2
    <2>3. s - 1 \in T
      BY <2>1, <2>2
    <2>. HIDE DEF T
    <2>. QED  BY <1>3, <2>1, <2>3
  <1>. QED  BY <1>4, <1>5

(* grep prints characters, whatever the file and the pattern.               *)
LEMMA GrepType ==
  ASSUME NEW file \in Seq(Chars), NEW pattern
  PROVE  GrepFile(file, pattern) \in Seq(Chars)
  <1>. DEFINE n == Len(file) + 1
              X == Seq(Chars)
              Begins(s, i) == /\ s > 1 => file[s - 1] = Newline
                              /\ \A j \in s .. i - 1 : file[j] # Newline
              start(i) == CHOOSE s \in 1 .. i : Begins(s, i)
              line(i) == SubSeq(file, start(i), i - 1)
              Adds(i) == IF /\ i = Len(file) + 1 \/ file[i] = Newline
                            /\ line(i) # <<>> /\ Len(line(i)) < LINE_SIZE
                            /\ str_contains(line(i), pattern)
                         THEN line(i) \o << Newline >> ELSE <<>>
              Body(g) == [i \in 0 .. n |-> IF i = 0 THEN <<>> ELSE g[i - 1] \o Adds(i)]
              F == [i \in 1 .. n |-> [x \in X |-> x \o Adds(i)]]
  <1>1. n \in Nat /\ Len(file) \in Nat
    OBVIOUS
  <1>2. ASSUME NEW i \in 1 .. n PROVE Adds(i) \in X
    <2>1. \E s \in 1 .. i : Begins(s, i)
      BY LineStart
    <2>2. start(i) \in 1 .. i
      <3>. HIDE DEF Begins
      <3>. QED  BY <2>1
    <2>. HIDE DEF start
    <2>3. line(i) \in Seq(Chars)
      <3>1. start(i) \in 1 .. Len(file) + 1 /\ i \in start(i) .. Len(file) + 1
        BY <1>1, <2>2
      <3>2. \A r \in start(i) .. i - 1 : file[r] \in Chars
        <4>1. ASSUME NEW r \in start(i) .. i - 1 PROVE r \in 1 .. Len(file)
          BY <1>1, <2>2
        <4>. QED  BY <4>1
      <3>. QED  BY <3>1, <3>2, PartType
    <2>4. << Newline >> \in Seq(Chars)
      BY PipeAssumption
    <2>. HIDE DEF line
    <2>5. line(i) \o << Newline >> \in Seq(Chars)
      BY <2>3, <2>4, ConcatProperties
    <2>. QED  BY <2>5
  <1>. HIDE DEF Adds
  <1>3. <<>> \in X
    OBVIOUS
  <1>4. F \in Turns(n, X)
    <2>1. ASSUME NEW i \in 1 .. n, NEW x \in X PROVE x \o Adds(i) \in X
      BY <1>2, ConcatProperties
    <2>. HIDE DEF X, n
    <2>. QED  BY <2>1 DEF Turns
  <1>5. PICK g : GoesUp(g, n, X, <<>>, F)
    <2>1. n \in Nat
      BY <1>1
    <2>. HIDE DEF n, X, F, Body
    <2>. QED  BY <1>3, <1>4, <2>1, Ascending
  <1>6. g = Body(g)
    <2>. HIDE DEF n
    <2>1. ASSUME NEW i \in 0 .. n PROVE g[i] = Body(g)[i]
      <3>1. CASE i = 0
        <4>1. g[0] = <<>>
          <5>. HIDE DEF F, X, Body
          <5>. QED  BY <1>5 DEF GoesUp
        <4>. QED  BY <1>1, <3>1, <4>1
      <3>2. CASE i # 0
        <4>1. i \in 1 .. n /\ i - 1 \in 0 .. n
          BY <1>1, <3>2
        <4>2. g[i] = F[i][g[i - 1]] /\ g[i - 1] \in X
          <5>. HIDE DEF F, X, Body
          <5>. QED  BY <1>5, <4>1 DEF GoesUp
        <4>3. g[i] = g[i - 1] \o Adds(i)
          <5>. HIDE DEF X, Body
          <5>. QED  BY <4>1, <4>2
        <4>. QED  BY <3>2, <4>3
      <3>. QED  BY <3>1, <3>2
    <2>2. g = [i \in 0 .. n |-> g[i]]
      BY <1>5 DEF GoesUp
    <2>3. Body(g) = [i \in 0 .. n |-> Body(g)[i]]
      OBVIOUS
    <2>. HIDE DEF Body
    <2>. QED  BY <2>1, <2>2, <2>3
  <1>. DEFINE u == CHOOSE f : f = Body(f)
  <1>7. u = Body(u)
    <2>. HIDE DEF Body
    <2>. QED  BY <1>6
  <1>8. GrepFile(file, pattern) = u[n]
    BY DEF GrepFile, Adds
  <1>. HIDE DEF u, F
  <1>. DEFINE S == {k \in 0 .. n : u[k] \in X}
  <1>9. 0 \in S
    BY <1>1, <1>3, <1>7
  <1>10. ASSUME NEW k \in 0 .. n - 1, k \in S PROVE k + 1 \in S
    <2>1. k + 1 \in 1 .. n /\ (k + 1) - 1 = k /\ k + 1 \in 0 .. n /\ k + 1 # 0
      BY <1>1
    <2>2. u[k + 1] = u[k] \o Adds(k + 1)
      BY <1>7, <2>1
    <2>3. u[k] \in X
      BY <1>10
    <2>4. Adds(k + 1) \in X
      BY <1>2, <2>1
    <2>5. u[k + 1] \in X
      BY <2>2, <2>3, <2>4, ConcatProperties
    <2>. QED  BY <2>1, <2>5
  <1>11. \A k \in 0 .. n : k \in S
    <2>. HIDE DEF S, n
    <2>. QED  BY <1>1, <1>9, <1>10, UpTo
  <1>. QED  BY <1>1, <1>8, <1>11

(* What a command prints are characters.                                    *)
LEMMA PrintsType ==
  ASSUME NEW words \in Seq(Words)
  PROVE  Prints(words) \in Seq(Chars)
  <1>1. /\ Newline \in Chars /\ Complaint \in Seq(Chars)
        /\ Text \in [Words -> Seq(Chars)] /\ Said \in [Words -> Seq(Chars)]
        /\ Content \in [Words -> Seq(Chars)] /\ Report \in [Words -> Seq(Chars)]
    BY PipeAssumption
  <1>2. <<>> \in Seq(Chars) /\ << Newline >> \in Seq(Chars)
    BY <1>1
  <1>3. words # <<>> => Said[Head(words)] \in Seq(Chars)
    BY <1>1
  <1>4. Len(words) > 1 => Text[words[2]] \o << Newline >> \in Seq(Chars)
    <2>1. Len(words) > 1 => words[2] \in Words
      OBVIOUS
    <2>2. Len(words) > 1 => Text[words[2]] \in Seq(Chars)
      BY <1>1, <2>1
    <2>. QED  BY <1>2, <2>2, ConcatProperties
  <1>5. Len(words) > 2 => GrepFile(Content[words[3]], Text[words[2]]) \in Seq(Chars)
    <2>1. Len(words) > 2 => words[3] \in Words
      OBVIOUS
    <2>2. Len(words) > 2 => Content[words[3]] \in Seq(Chars)
      BY <1>1, <2>1
    <2>. QED  BY <2>2, GrepType
  <1>6. Len(words) > 2 => Report[words[3]] \in Seq(Chars)
    BY <1>1
  <1>. QED  BY <1>1, <1>2, <1>3, <1>4, <1>5, <1>6 DEF Prints

(* pipe_getline reads forward and not past the end of the input.            *)
LEMMA GetlineType ==
  ASSUME pipe_input \in Seq(Chars), pipe_input_pos \in 0 .. Len(pipe_input)
  PROVE  /\ pipe_getline.pos \in 0 .. Len(pipe_input)
         /\ pipe_getline.line \in Seq(Chars)
  <1>. DEFINE rest == SubSeq(pipe_input, pipe_input_pos + 1, Len(pipe_input))
              ends == {i \in 1 .. Len(rest) : rest[i] = Newline \/ i = LINE_SIZE}
              n == IF ends = {} THEN Len(rest)
                   ELSE (CHOOSE i \in ends : \A j \in ends : i <= j) - 1
              taken == IF n < LINE_SIZE - 1 /\ n < Len(rest) THEN n + 1 ELSE n
  <1>1. Len(pipe_input) \in Nat
    OBVIOUS
  <1>2. rest \in Seq(Chars) /\ Len(rest) = Len(pipe_input) - pipe_input_pos
    <2>1. PICK p : p = pipe_input_pos + 1
      OBVIOUS
    <2>2. PICK q : q = Len(pipe_input) + 1
      OBVIOUS
    <2>3. p \in 1 .. Len(pipe_input) + 1 /\ q \in p .. Len(pipe_input) + 1
      BY <1>1, <2>1, <2>2
    <2>4. \A r \in p .. q - 1 : pipe_input[r] \in Chars
      <3>1. ASSUME NEW r \in p .. q - 1 PROVE r \in 1 .. Len(pipe_input)
        BY <1>1, <2>1, <2>2
      <3>. QED  BY <3>1
    <2>5. /\ SubSeq(pipe_input, p, q - 1) \in Seq(Chars)
          /\ Len(SubSeq(pipe_input, p, q - 1)) = q - p
      BY <2>3, <2>4, PartType
    <2>6. q - 1 = Len(pipe_input) /\ q - p = Len(pipe_input) - pipe_input_pos
      BY <1>1, <2>1, <2>2
    <2>. QED  BY <2>1, <2>5, <2>6
  <1>3. pipe_getline.pos = pipe_input_pos + taken /\ pipe_getline.line = SubSeq(rest, 1, n)
    BY DEF pipe_getline
  <1>. HIDE DEF rest
  <1>4. n \in 0 .. Len(rest)
    <2>1. CASE ends = {}
      BY <1>2, <2>1
    <2>2. CASE ends # {}
      <3>1. ends \in SUBSET Nat
        OBVIOUS
      <3>. DEFINE least == CHOOSE i \in ends : \A j \in ends : i <= j
      <3>2. least \in ends
        <4>. HIDE DEF ends
        <4>1. \E i \in ends : \A j \in ends : i <= j
          BY <2>2, <3>1, LeastNat
        <4>. QED  BY <4>1
      <3>3. n = least - 1
        BY <2>2
      <3>. HIDE DEF least, n
      <3>. QED  BY <1>2, <3>2, <3>3
    <2>. QED  BY <2>1, <2>2
  <1>. HIDE DEF n
  <1>5. taken \in 0 .. Len(rest)
    BY <1>2, <1>4
  <1>6. SubSeq(rest, 1, n) \in Seq(Chars)
    <2>1. PICK q : q = n + 1
      OBVIOUS
    <2>2. q \in 1 .. Len(rest) + 1 /\ q - 1 = n
      BY <1>2, <1>4, <2>1
    <2>3. 1 \in 1 .. Len(rest) + 1
      BY <1>2
    <2>4. \A r \in 1 .. q - 1 : rest[r] \in Chars
      <3>1. ASSUME NEW r \in 1 .. q - 1 PROVE r \in 1 .. Len(rest)
        BY <1>2, <2>2
      <3>. QED  BY <1>2, <3>1
    <2>5. SubSeq(rest, 1, q - 1) \in Seq(Chars)
      BY <1>2, <2>2, <2>3, <2>4, PartType
    <2>. QED  BY <2>2, <2>5
  <1>. HIDE DEF taken
  <1>. QED  BY <1>1, <1>2, <1>3, <1>5, <1>6

-----------------------------------------------------------------------------
(* The inductive invariant: the bounds, and that the buffers hold characters
   and the table commands without bars.                                     *)
PipeInv ==
  /\ pipe_output \in Seq(Chars) /\ pipe_input \in Seq(Chars)
  /\ pipe_cmds \in Seq(Segment)
  /\ PipeInBounds

(* At the start everything is empty.                                        *)
LEMMA InitPipe == Init => PipeInv
  <1>. SUFFICES ASSUME Init PROVE PipeInv
    OBVIOUS
  <1>1. /\ pipe_output = <<>> /\ pipe_input = <<>> /\ pipe_cmds = <<>>
        /\ pipe_input_pos = 0 /\ stage = "prompt"
    BY DEF Init
  <1>2. PIPE_BUFFER_SIZE \in Nat \ {0} /\ MAX_CMDS \in Nat
    BY PipeAssumption
  <1>. QED  BY <1>1, <1>2 DEF PipeInv, PipeInBounds

(* Printing fills the output buffer up to its last byte but one.            *)
LEMMA PutsType ==
  ASSUME PipeInv, NEW text \in Seq(Chars), Puts(text)
  PROVE  pipe_output' \in Seq(Chars) /\ Len(pipe_output') < PIPE_BUFFER_SIZE
  <1>1. pipe_output \in Seq(Chars) /\ Len(pipe_output) < PIPE_BUFFER_SIZE
    BY DEF PipeInv, PipeInBounds
  <1>2. PIPE_BUFFER_SIZE \in Nat /\ PIPE_BUFFER_SIZE - 1 \in Nat
    BY PipeAssumption
  <1>3. PICK both : both = pipe_output \o text
    OBVIOUS
  <1>4. both \in Seq(Chars)
    BY <1>1, <1>3, ConcatProperties
  <1>5. PICK n : n = PIPE_BUFFER_SIZE - 1
    OBVIOUS
  <1>6. AtMost(n, both) \in Seq(Chars) /\ Len(AtMost(n, both)) <= n
    BY <1>2, <1>4, <1>5, AtMostType
  <1>7. PICK kept : kept = AtMost(n, both)
    OBVIOUS
  <1>8. pipe_output' = kept \/ pipe_output' = pipe_output
    BY <1>3, <1>5, <1>7 DEF Puts
  <1>9. kept \in Seq(Chars) /\ Len(kept) < PIPE_BUFFER_SIZE
    BY <1>2, <1>5, <1>6, <1>7
  <1>. QED  BY <1>1, <1>8, <1>9

(* Every step keeps the invariant.                                          *)
LEMMA PipeStep == PipeInv /\ [Next]_vars => PipeInv'
  <1>. SUFFICES ASSUME PipeInv, [Next]_vars PROVE PipeInv'
    OBVIOUS
  <1>. USE DEF PipeInv, PipeInBounds
  <1>1. /\ pipe_output \in Seq(Chars) /\ pipe_input \in Seq(Chars)
        /\ Len(pipe_output) < PIPE_BUFFER_SIZE /\ Len(pipe_input) < PIPE_BUFFER_SIZE
        /\ pipe_input_pos \in 0 .. Len(pipe_input)
    OBVIOUS
  <1>2. /\ pipe_cmds \in Seq(Segment) /\ Len(pipe_cmds) <= MAX_CMDS
        /\ stage # "prompt" => pipe_idx \in DOMAIN pipe_cmds
    OBVIOUS
  <1>3. PIPE_BUFFER_SIZE \in Nat \ {0} /\ MAX_CMDS \in Nat
    BY PipeAssumption
  <1>4. ASSUME stage # "prompt" PROVE Parsed \in Seq(Words)
    <2>1. pipe_cmds[pipe_idx] \in Segment
      BY <1>2, <1>4
    <2>. QED  BY <2>1, WordsType DEF Parsed
  <1>. DEFINE Buffers == /\ pipe_output \in Seq(Chars) /\ pipe_input \in Seq(Chars)
                         /\ Len(pipe_output) < PIPE_BUFFER_SIZE
                         /\ Len(pipe_input) < PIPE_BUFFER_SIZE
                         /\ pipe_input_pos \in 0 .. Len(pipe_input)
              Table == /\ pipe_cmds \in Seq(Segment) /\ Len(pipe_cmds) <= MAX_CMDS
                       /\ stage # "prompt" => pipe_idx \in DOMAIN pipe_cmds
  <1>. SUFFICES Buffers' /\ Table'
    OBVIOUS
  <1>5. pipe_reset => Buffers'
    BY <1>3 DEF pipe_reset
  <1>6. ASSUME NEW line \in InputLines, ReadLine(line) PROVE Buffers' /\ Table'
    <2>1. line \in Seq(Token)
      BY PipeAssumption DEF Token
    <2>2. Split(line) \in Seq(Segment) /\ Len(Split(line)) \in 1 .. MAX_CMDS
      BY <2>1, SplitType
    <2>3. pipe_cmds' = Split(line) /\ pipe_idx' = 1 /\ pipe_reset
      BY <1>6 DEF ReadLine
    <2>4. 1 \in DOMAIN Split(line)
      BY <1>3, <2>2
    <2>5. Table'
      BY <1>3, <2>2, <2>3, <2>4
    <2>. QED  BY <1>5, <2>3, <2>5
  <1>7. CASE SetUp
    <2>1. pipe_output' \in {pipe_output, <<>>} /\ pipe_input_pos' \in {0, pipe_input_pos}
      BY <1>7 DEF SetUp
    <2>2. pipe_input' = pipe_input /\ pipe_cmds' = pipe_cmds /\ pipe_idx' = pipe_idx
          /\ stage = "setup"
      BY <1>7 DEF SetUp
    <2>3. pipe_output' \in Seq(Chars) /\ Len(pipe_output') < PIPE_BUFFER_SIZE
      <3>1. CASE pipe_output' = pipe_output
        BY <1>1, <3>1
      <3>2. CASE pipe_output' = <<>>
        BY <1>3, <3>2
      <3>. QED  BY <2>1, <3>1, <3>2
    <2>4. pipe_input_pos' \in 0 .. Len(pipe_input)
      BY <1>1, <2>1
    <2>. QED  BY <1>1, <1>2, <2>2, <2>3, <2>4
  <1>8. CASE Execute
    <2>1. /\ pipe_input' = pipe_input /\ pipe_input_pos' = pipe_input_pos
          /\ pipe_cmds' = pipe_cmds /\ pipe_idx' = pipe_idx /\ stage = "execute"
      BY <1>8 DEF Execute
    <2>2. pipe_output' = pipe_output \/ Puts(Prints(Parsed))
      BY <1>8 DEF Execute
    <2>3. Prints(Parsed) \in Seq(Chars)
      BY <1>4, <2>1, PrintsType
    <2>4. pipe_output' \in Seq(Chars) /\ Len(pipe_output') < PIPE_BUFFER_SIZE
      BY <1>1, <2>2, <2>3, PutsType
    <2>. QED  BY <1>1, <1>2, <2>1, <2>4
  <1>9. CASE GrepLine
    <2>1. /\ pipe_input' = pipe_input /\ pipe_input_pos' = pipe_getline.pos
          /\ pipe_cmds' = pipe_cmds /\ pipe_idx' = pipe_idx /\ stage = "grep"
      BY <1>9 DEF GrepLine
    <2>2. pipe_output' = pipe_output \/ Puts(pipe_getline.line \o << Newline >>)
      BY <1>9 DEF GrepLine
    <2>3. pipe_getline.pos \in 0 .. Len(pipe_input) /\ pipe_getline.line \in Seq(Chars)
      BY <1>1, GetlineType
    <2>4. << Newline >> \in Seq(Chars)
      BY PipeAssumption
    <2>5. pipe_getline.line \o << Newline >> \in Seq(Chars)
      BY <2>3, <2>4, ConcatProperties
    <2>6. pipe_output' \in Seq(Chars) /\ Len(pipe_output') < PIPE_BUFFER_SIZE
      BY <1>1, <2>2, <2>5, PutsType
    <2>. QED  BY <1>1, <1>2, <2>1, <2>3, <2>6
  <1>10. CASE GrepEnd
    <2>1. /\ pipe_input' = pipe_input /\ pipe_input_pos' = pipe_getline.pos
          /\ pipe_output' = pipe_output
          /\ pipe_cmds' = pipe_cmds /\ pipe_idx' = pipe_idx /\ stage = "grep"
      BY <1>10 DEF GrepEnd
    <2>2. pipe_getline.pos \in 0 .. Len(pipe_input)
      BY <1>1, GetlineType
    <2>. QED  BY <1>1, <1>2, <2>1, <2>2
  <1>11. CASE NextCommand
    <2>1. /\ pipe_input' = pipe_output /\ pipe_input_pos' = 0 /\ pipe_output' = <<>>
          /\ pipe_cmds' = pipe_cmds /\ pipe_idx' = pipe_idx + 1
          /\ stage = "executed" /\ pipe_idx # Len(pipe_cmds)
      BY <1>11 DEF NextCommand, pipe_transfer_output_to_input, Last
    <2>2. Buffers'
      <3>1. pipe_output' \in Seq(Chars) /\ Len(pipe_output') < PIPE_BUFFER_SIZE
        BY <1>3, <2>1
      <3>2. pipe_input' \in Seq(Chars) /\ Len(pipe_input') < PIPE_BUFFER_SIZE
        BY <1>1, <2>1
      <3>3. pipe_input_pos' \in 0 .. Len(pipe_input')
        BY <2>1, <3>2
      <3>. QED  BY <3>1, <3>2, <3>3
    <2>3. pipe_idx + 1 \in DOMAIN pipe_cmds
      BY <1>2, <2>1
    <2>. QED  BY <1>2, <2>1, <2>2, <2>3
  <1>12. CASE LineDone
    <2>1. pipe_cmds' = pipe_cmds /\ pipe_idx' = pipe_idx /\ stage = "executed" /\ pipe_reset
      BY <1>12 DEF LineDone
    <2>2. Table'
      BY <1>2, <2>1
    <2>. QED  BY <1>5, <2>1, <2>2
  <1>13. CASE Prompt
    <2>1. /\ pipe_input' = pipe_input /\ pipe_input_pos' = pipe_input_pos
          /\ pipe_output' = pipe_output /\ pipe_cmds' = <<>> /\ stage' = "prompt"
      BY <1>13 DEF Prompt, buffers
    <2>. QED  BY <1>1, <1>3, <2>1
  <1>14. CASE UNCHANGED vars
    BY <1>1, <1>2, <1>14 DEF vars, buffers
  <1>. QED
    BY <1>6, <1>7, <1>8, <1>9, <1>10, <1>11, <1>12, <1>13, <1>14 DEF Next, Run

(* For every size of the buffers, the table and grep's line, and for every line
   of words, bars and spaces, puts, pipe_getline and main stay inside
   pipe_output_buffer, pipe_input_buffer and pipe_cmds.                     *)
THEOREM PipeStaysInBounds == Spec => []PipeInBounds
  <1>1. PipeInv => PipeInBounds
    BY DEF PipeInv
  <1>. QED  BY <1>1, InitPipe, PipeStep, PTL DEF Spec
=============================================================================
