----------------------------- MODULE MCFileIndex -----------------------------
(***************************************************************************)
(* Small instance of FileIndex: two files on a disk with one block more    *)
(* than the largest file takes, and too small for it after a leak.         *)
(***************************************************************************)
EXTENDS FileIndex

CONSTANTS f1, f2

Count(f) == Node(f).block_count

(* Bounds: the first file alone reaches every level of the index and every *)
(* boundary, and abandons operations anywhere below the second level; with *)
(* the second file both reach the first level of index blocks, and abandon *)
(* operations while they are small.                                        *)
MCBound ==
  \/ Count(f2) = 0 /\ (leaked = {} \/ Count(f1) <= 6)
  \/ leaked = {} /\ Count(f1) + Count(f2) <= 4
  \/ Count(f1) + Count(f2) <= 2
=============================================================================
