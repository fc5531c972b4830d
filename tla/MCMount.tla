------------------------------- MODULE MCMount -------------------------------
(***************************************************************************)
(* Small instance of Mount: tables of 2 entries, 3 blocks, so that the new *)
(* list has one table below the one in memory, and one inode besides the   *)
(* root.  Callers write data that reads as a full table naming the first   *)
(* two blocks.                                                             *)
(***************************************************************************)
EXTENDS Mount, FiniteSetsExt

MCForged ==
  {[s_nfree |-> FREE_INDEX_PER_BLOCK,
    s_free |-> [i \in 0 .. FREE_INDEX_PER_BLOCK - 1 |-> DATA_START + i]]}

(* How many values of its blocks a crash may choose from, all together. *)
ChoiceCount ==
  Cardinality(left.first) + Cardinality(left.second) + Cardinality(left.inodes)
    + MapThenSumSet(LAMBDA b : Cardinality(left.data[b]), Blocks)

(* Bounds: a crash has up to three blocks to choose two values for, or one  *)
(* with three; one block of a file reads as a table; and a disk is not      *)
(* followed further once it is mounted after a crash.                       *)
MCBound ==
  /\ ChoiceCount <= Cardinality(Blocks) + 6
  /\ Cardinality(left.first) <= 2
  /\ Cardinality(left.second) <= 2
  /\ Cardinality({b \in held : disk[b].s_nfree > 0}) <= 1
  /\ crashed => phase = "unmounted"
=============================================================================
