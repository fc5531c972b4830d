------------------------------ MODULE FreeInodes -----------------------------
(***************************************************************************)
(* The free-inode table of the superblock (superblock.py) and the inode    *)
(* half of Disk.create and Disk.unlink.  The table caches the numbers of   *)
(* some inodes whose IALLOC bit is clear on disk; allocate_inode takes the *)
(* last one and, when that empties the table, refills it from disk.        *)
(*                                                                         *)
(* allocate_inode does not set IALLOC: create does, when it flushes the    *)
(* new inode, after a refill has already looked at the old bit.  A table   *)
(* index below 0 counts from the end of the list, as in Python.            *)
(***************************************************************************)
EXTENDS Integers, FiniteSets, Functions

CONSTANTS
  INODE_COUNT,            \* inodes of the disk; inode 0 is the root directory
  SUPERBLOCK_FREE_INODE,  \* entries of the table (100 in constants.py)
  INODE_PER_BLOCK,        \* what release_inode compares with (8)
  MAX_USES                \* bound: files that one inode is handed to

ASSUME InodesAssumption ==
  /\ INODE_COUNT \in Nat
  /\ SUPERBLOCK_FREE_INODE \in Nat \ {0}
  /\ INODE_COUNT > SUPERBLOCK_FREE_INODE
  /\ INODE_PER_BLOCK \in 1 .. SUPERBLOCK_FREE_INODE
  /\ MAX_USES \in Nat

Inodes == 1 .. INODE_COUNT - 1
Slots  == 0 .. SUPERBLOCK_FREE_INODE - 1

VARIABLES
  s_ninode,  \* live entries of the table; below 0 after allocating from an empty one
  s_inode,   \* the table
  ialloc,    \* the IALLOC bits on disk
  ffree,     \* the free-inode count kept for statfs
  uses,      \* history: the live files that create gave each inode to
  refilled   \* history: whether allocate_inode ever refilled the table

vars == <<s_ninode, s_inode, ialloc, ffree, uses, refilled>>

(* A Python index into the table: -1 is the last slot.                     *)
Slot(n) == IF n < 0 THEN n + SUPERBLOCK_FREE_INODE ELSE n

(* _fill_inode on an empty table: the first inodes with IALLOC clear, in   *)
(* the order of their numbers.  Slots it does not reach keep old entries.  *)
Blank == {i \in Inodes : ~ialloc[i]}

Rank(i) == Cardinality({j \in Blank : j < i})

FilledCount ==
  IF Cardinality(Blank) < SUPERBLOCK_FREE_INODE
    THEN Cardinality(Blank) ELSE SUPERBLOCK_FREE_INODE

Filled(table) ==
  [k \in Slots |->
     IF k < FilledCount THEN CHOOSE i \in Blank : Rank(i) = k ELSE table[k]]

(* Superblock.__init__ of a new disk.                                      *)
Init ==
  /\ ialloc = [i \in Inodes |-> FALSE]
  /\ s_ninode = FilledCount
  /\ s_inode = Filled([k \in Slots |-> 0])
  /\ ffree = INODE_COUNT - 1
  /\ uses = [i \in Inodes |-> 0]
  /\ refilled = FALSE
-----------------------------------------------------------------------------
(* The inode that allocate_inode returns.                                  *)
NextInode == s_inode[Slot(s_ninode - 1)]

(* allocate_inode, with entries left in the table or with none at all.     *)
TakeEntry ==
  /\ s_ninode # 1
  /\ s_ninode > -SUPERBLOCK_FREE_INODE  \* bound: beyond it the index is an error
  /\ s_ninode' = s_ninode - 1
  /\ UNCHANGED <<s_inode, refilled>>

(* allocate_inode of the last entry refills the table, by the bits on disk.*)
TakeLastEntry ==
  /\ s_ninode = 1
  /\ s_ninode' = FilledCount
  /\ s_inode' = Filled(s_inode)
  /\ refilled' = TRUE

(* The part of Disk.create that concerns inodes: allocate_inode, and only  *)
(* then Inode.new and flush, which set IALLOC.                             *)
Create ==
  /\ uses[NextInode] < MAX_USES
  /\ TakeEntry \/ TakeLastEntry
  /\ ialloc' = [ialloc EXCEPT ![NextInode] = TRUE]
  /\ uses' = [uses EXCEPT ![NextInode] = @ + 1]
  /\ ffree' = ffree - 1

(* Fault: the bit on disk is left set. *)
FaultyClearIALLOC(i) == ialloc' = ialloc

ClearIALLOC(i) == ialloc' = [ialloc EXCEPT ![i] = FALSE]

(* Fault: the inode is put over the last entry instead of after it. *)
FaultyRemember(i) ==
  /\ s_ninode < INODE_PER_BLOCK
  /\ s_inode' = [s_inode EXCEPT ![Slot(s_ninode - 1)] = i]
  /\ s_ninode' = s_ninode + 1

(* Fault: whether there is room in the table is not looked at. *)
FaultyRemember_Unguarded(i) ==
  /\ s_inode' = [s_inode EXCEPT ![Slot(s_ninode)] = i]
  /\ s_ninode' = s_ninode + 1

(* release_inode puts the inode into the table while the table is short.   *)
Remember(i) ==
  /\ s_ninode < INODE_PER_BLOCK
  /\ s_inode' = [s_inode EXCEPT ![Slot(s_ninode)] = i]
  /\ s_ninode' = s_ninode + 1

Forget ==
  /\ s_ninode >= INODE_PER_BLOCK
  /\ UNCHANGED <<s_inode, s_ninode>>

(* Fault: the inode is only counted when it enters the table. *)
FaultyCountReleased == ffree' = IF s_ninode < INODE_PER_BLOCK THEN ffree + 1 ELSE ffree

CountReleased == ffree' = ffree + 1

(* release_inode, which unlink calls for a file whose last link goes.      *)
Release(i) ==
  /\ uses[i] > 0
  /\ ClearIALLOC(i)
  /\ Remember(i) \/ Forget
  /\ CountReleased
  /\ uses' = [uses EXCEPT ![i] = @ - 1]
  /\ UNCHANGED refilled

Next == Create \/ \E i \in Inodes : Release(i)

Spec == Init /\ [][Next]_vars
-----------------------------------------------------------------------------
TypeOK ==
  /\ s_ninode \in -SUPERBLOCK_FREE_INODE .. SUPERBLOCK_FREE_INODE
  /\ s_inode \in [Slots -> Nat]
  /\ ialloc \in [Inodes -> BOOLEAN]
  /\ ffree \in Int
  /\ uses \in [Inodes -> 0 .. MAX_USES]
  /\ refilled \in BOOLEAN

Live == 0 .. s_ninode - 1
Entries == {s_inode[k] : k \in Live}

(* Until allocate_inode first refills the table, the table lists distinct  *)
(* blank inodes that no file has, so no inode is given to two files.       *)
ExactBeforeRefill ==
  ~refilled =>
    /\ \A k \in Live : s_inode[k] \in Inodes /\ uses[s_inode[k]] = 0
    /\ \A k, l \in Live : s_inode[k] = s_inode[l] => k = l
    /\ \A i \in Inodes : uses[i] = IF ialloc[i] THEN 1 ELSE 0

(* An inode that no file has is blank on disk, so that a refill can find   *)
(* it, even after it was shared or left out of the table on release.       *)
UnusedIsBlank == \A i \in Inodes : uses[i] = 0 => ~ialloc[i]

(* What statfs reports as free is what creates and unlinks leave, through  *)
(* refills, forgotten releases and an exhausted table.                     *)
CountFollowsUses == ffree = Cardinality(Inodes) - FoldFunction(+, 0, uses)

(* superblock.py:161 and :174 call the table the cache of blank inodes.    *)
(* The code refills it while the inode just taken still looks blank.       *)
TableIsBlank == \A k \in Live : ~ialloc[s_inode[k]]
=============================================================================
