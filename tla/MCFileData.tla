------------------------------ MODULE MCFileData -----------------------------
(***************************************************************************)
(* Small instances of FileData.  The code never looks into the bytes that  *)
(* it is given to write, so they may be permuted.                          *)
(***************************************************************************)
EXTENDS FileData, TLC

MCSymmetry == Permutations(Values)
=============================================================================
