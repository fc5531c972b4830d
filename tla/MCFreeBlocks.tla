----------------------------- MODULE MCFreeBlocks ----------------------------
(***************************************************************************)
(* Small instance of FreeBlocks: with tables of 2 entries, 4 blocks spill  *)
(* two tables, so that a reload finds a chain below it.  Callers write     *)
(* data that reads as a full table naming other data blocks.               *)
(***************************************************************************)
EXTENDS FreeBlocksLifo

MCForged ==
  {[s_nfree |-> FREE_INDEX_PER_BLOCK,
    s_free |-> [i \in Slots |-> DATA_START + i]]}
=============================================================================
