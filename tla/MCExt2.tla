------------------------------- MODULE MCExt2 -------------------------------
(* Small instances of Ext2.  A run's cfg chooses the geometry; the names and
   the contents are defined here.                                           *)
EXTENDS Ext2

(* "a" fits where any name fits; "b" is longer.                             *)
MCNameLen == [n \in Names \cup Dots |->
                CASE n = "." -> 1 [] n = ".." -> 2 [] n = "a" -> 1
                  [] n = "b" -> 6 [] OTHER -> 3]

(* Contents of which none is a prefix of another: one block, two, three (the third
   through the indirect block when NDirect = 2), and five, more than NDirect +
   NIndirect pointers can hold when both are 2.                             *)
ShortContents == {<<1>>}
TwoBlocks == {<<2, 3>>}
LongContents == {<<1>>, <<2, 3, 1>>, <<3, 1, 2, 1, 2>>}
=============================================================================
