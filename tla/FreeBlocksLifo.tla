---------------------------- MODULE FreeBlocksLifo ---------------------------
(***************************************************************************)
(* The free list read as a stack: the chain of tables from the bottom one  *)
(* to the superblock's, each one's slot 0 first.                           *)
(***************************************************************************)
EXTENDS FreeBlocks, Sequences

(* Entries of a table in the order they were released; the end mark, which *)
(* only slot 0 can have, is left out.                                       *)
TableSeq(t) ==
  LET lowest == IF TableOf(t).s_free[0] = 0 THEN 1 ELSE 0
  IN  [i \in 1 .. TableOf(t).s_nfree - lowest |-> TableOf(t).s_free[lowest + i - 1]]

(* The part of the stack that a table and the ones under it hold; depth    *)
(* bounds the walk, which a corrupted chain could make endless.            *)
StackUpTo[depth \in 0 .. Cardinality(Blocks)] ==
  [t \in Blocks \cup {0} |->
     LET below == TableOf(t).s_free[0]
     IN  IF depth = 0 \/ below \notin Blocks
           THEN TableSeq(t)
           ELSE StackUpTo[depth - 1][below] \o TableSeq(t)]

Lifo == INSTANCE BlockStack WITH stack <- StackUpTo[Cardinality(Blocks)][0]

(* The block released last is the one allocated next, however many tables  *)
(* were spilled and reloaded in between.                                   *)
LifoSpec == Lifo!Spec
=============================================================================
