------------------------------ MODULE BlockPool ------------------------------
(***************************************************************************)
(* What FreeBlockInterface (free_block_interface.py) promises its callers, *)
(* the inodes and the disk operations: a pool of data blocks from which    *)
(* allocate_block takes some free block and to which release_block gives a *)
(* block back.  A block is in the pool or in a caller's hands, never both. *)
(* Formatting starts from an empty pool and releases every block into it.  *)
(***************************************************************************)
CONSTANT Blocks

VARIABLES
  free,   \* the blocks allocate_block may return
  held    \* the blocks callers own

poolVars == <<free, held>>

Init ==
  /\ free = {}
  /\ held = Blocks

Allocate ==
  \E b \in free :
    /\ free' = free \ {b}
    /\ held' = held \cup {b}

Release ==
  \E b \in held :
    /\ free' = free \cup {b}
    /\ held' = held \ {b}

Next == Allocate \/ Release

Spec == Init /\ [][Next]_poolVars
=============================================================================
