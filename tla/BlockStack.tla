------------------------------ MODULE BlockStack -----------------------------
(***************************************************************************)
(* The order in which the pool hands out blocks: the free list of the      *)
(* superblock is a stack.  release_block pushes, allocate_block pops, and  *)
(* the spilling of full tables into free blocks must not be visible.       *)
(***************************************************************************)
EXTENDS Sequences, Integers

CONSTANT Blocks

VARIABLES
  stack,  \* the free blocks, the next one to be handed out last
  held    \* the blocks callers own

stackVars == <<stack, held>>

Init ==
  /\ stack = <<>>
  /\ held = Blocks

Pop ==
  /\ stack # <<>>
  /\ held' = held \cup {stack[Len(stack)]}
  /\ stack' = SubSeq(stack, 1, Len(stack) - 1)

Push(b) ==
  /\ b \in held
  /\ held' = held \ {b}
  /\ stack' = Append(stack, b)

Next == Pop \/ \E b \in Blocks : Push(b)

Spec == Init /\ [][Next]_stackVars
=============================================================================
