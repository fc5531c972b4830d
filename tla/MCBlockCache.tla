----------------------------- MODULE MCBlockCache ----------------------------
(***************************************************************************)
(* Small instance of BlockCache: three blocks of two parts through a cache *)
(* of two.  Blocks are model values that the code only compares, so they   *)
(* may be permuted.                                                        *)
(***************************************************************************)
EXTENDS BlockCache, TLC

MCSymmetry == Permutations(Blocks)

(* The parts of a block only matter while they differ. *)
Mixed(v) == \E p, q \in Parts : v[p] # v[q]

MixedBlocks ==
  {b \in Blocks : Mixed(FileRead(b)) \/ \E v \in recoverable[b] : Mixed(v)}

(* Blocks for which a crash may choose from several values. *)
UnsavedBlocks == {b \in Blocks : Cardinality(recoverable[b]) > 1}

(* Bounds: a crash chooses from two values of a block, in two blocks or in  *)
(* one while the parts of a block differ; and states are only followed when *)
(* the last read returned zeros, since no action looks at it.               *)
MCBound ==
  /\ \A b \in Blocks : Cardinality(recoverable[b]) <= 2
  /\ Cardinality(MixedBlocks) <= 1
  /\ Cardinality(MixedBlocks) + Cardinality(UnsavedBlocks) <= 2
  /\ result = [p \in Parts |-> 0]
=============================================================================
