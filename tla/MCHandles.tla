------------------------------ MODULE MCHandles ------------------------------
(***************************************************************************)
(* Small instance of Handles: a tree two names deep, and two handles.      *)
(***************************************************************************)
EXTENDS Handles

MCSymmetry == Permutations(Names)

(* As in MCNamespace: states after the first deletion of an inode that had *)
(* another entry are checked but not followed.                             *)
MCUndamaged == ~damaged
=============================================================================
