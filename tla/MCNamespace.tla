----------------------------- MODULE MCNamespace -----------------------------
(***************************************************************************)
(* Small instance of Namespace: directories of two entries a block.        *)
(***************************************************************************)
EXTENDS Namespace

(* No operation compares names but for equality.                           *)
MCSymmetry == Permutations(Names)

(* States after the first deletion of an inode that had another entry are  *)
(* checked but not followed.                                               *)
MCUndamaged == ~damaged
=============================================================================
