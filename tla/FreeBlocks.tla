------------------------------ MODULE FreeBlocks -----------------------------
(***************************************************************************)
(* The free-block list of the superblock (superblock.py): a table of at    *)
(* most FREE_INDEX_PER_BLOCK block numbers in memory; when it overflows,   *)
(* release_block writes the whole table into the block being released and  *)
(* starts a new table whose slot 0 names that block.  allocate_block takes *)
(* the last entry; when that was slot 0, the block it names is read back   *)
(* as the table before it is handed out.  The bottom table has 0 in slot 0.*)
(*                                                                         *)
(* The chain lives inside free blocks, so it survives only as long as no   *)
(* caller writes a block the chain runs through, and no block is cleared   *)
(* before its table has been read.  A block has no type on disk: callers   *)
(* write arbitrary bytes, which could parse as any table (ClientData).     *)
(***************************************************************************)
EXTENDS Integers, FiniteSets

CONSTANTS
  DATA_START,            \* first data block (disk_params.py)
  DISK_BLOCKS,           \* number of blocks of the disk
  FREE_INDEX_PER_BLOCK,  \* entries of a table (100 in constants.py)
  ClientData             \* what callers write into their blocks, read as tables

Blocks == DATA_START .. DISK_BLOCKS - 1
Slots  == 0 .. FREE_INDEX_PER_BLOCK - 1
Table  == [s_nfree : Nat, s_free : [Slots -> Nat]]

ASSUME GeometryAssumption ==
  /\ DATA_START \in Nat \ {0}
  /\ DISK_BLOCKS \in Nat
  /\ DATA_START < DISK_BLOCKS
  /\ FREE_INDEX_PER_BLOCK \in Nat \ {0}

ASSUME ClientDataAssumption == ClientData \subseteq Table

VARIABLES
  s_nfree,  \* live entries of the superblock's table
  s_free,   \* the superblock's table
  bfree,    \* the free-block count kept for statfs
  disk,     \* content of every data block, parsed as a table
  held,     \* environment: the blocks that callers own
  next      \* format: the next block of the loop in Superblock.__init__

vars == <<s_nfree, s_free, bfree, disk, held, next>>

ZeroSlots == [i \in Slots |-> 0]
ZeroTable == [s_nfree |-> 0, s_free |-> ZeroSlots]

Formatted == next = DISK_BLOCKS

(* format_disk zeroes the image; Superblock.new starts with one entry, 0,  *)
(* which ends the chain, and has released no block yet.                    *)
Init ==
  /\ s_nfree = 1
  /\ s_free = ZeroSlots
  /\ bfree = 0
  /\ disk = [b \in Blocks |-> ZeroTable]
  /\ held = Blocks
  /\ next = DATA_START
-----------------------------------------------------------------------------
(* Faults are what a plausible slip in the code would make of the          *)
(* definition that follows them; no specification uses them.               *)

(* Fault: <= for <, the table takes an entry too many. *)
FaultyReleaseIntoTable_Overfull(b) ==
  /\ s_nfree <= FREE_INDEX_PER_BLOCK
  /\ s_free' = [s_free EXCEPT ![s_nfree] = b]
  /\ s_nfree' = s_nfree + 1
  /\ UNCHANGED disk

(* Fault: the entry lands on the last live one instead of after it. *)
FaultyReleaseIntoTable_OffByOne(b) ==
  /\ s_nfree < FREE_INDEX_PER_BLOCK
  /\ s_free' = [s_free EXCEPT ![s_nfree - 1] = b]
  /\ s_nfree' = s_nfree + 1
  /\ UNCHANGED disk

(* release_block, first branch: the table has room.                        *)
ReleaseIntoTable(b) ==
  /\ s_nfree < FREE_INDEX_PER_BLOCK
  /\ s_free' = [s_free EXCEPT ![s_nfree] = b]
  /\ s_nfree' = s_nfree + 1
  /\ UNCHANGED disk

(* Fault: the entries that were spilled stay in the superblock as well. *)
FaultyReleaseSpilling_NotReset(b) ==
  /\ s_nfree >= FREE_INDEX_PER_BLOCK
  /\ disk' = [disk EXCEPT ![b] = [s_nfree |-> s_nfree, s_free |-> s_free]]
  /\ s_nfree' = s_nfree
  /\ s_free' = [s_free EXCEPT ![0] = b]

(* Fault: the new table does not name the block that holds the old one. *)
FaultyReleaseSpilling_NoLink(b) ==
  /\ s_nfree >= FREE_INDEX_PER_BLOCK
  /\ disk' = [disk EXCEPT ![b] = [s_nfree |-> s_nfree, s_free |-> s_free]]
  /\ s_nfree' = 1
  /\ s_free' = ZeroSlots

(* release_block, second branch: the full table goes into the released     *)
(* block, which becomes the only entry of a new table.                     *)
ReleaseSpilling(b) ==
  /\ s_nfree >= FREE_INDEX_PER_BLOCK
  /\ disk' = [disk EXCEPT ![b] = [s_nfree |-> s_nfree, s_free |-> s_free]]
  /\ s_nfree' = 1
  /\ s_free' = [ZeroSlots EXCEPT ![0] = b]

(* Fault: a block that takes a table is not counted. *)
FaultyReleaseBlock_Uncounted(b) ==
  /\ ReleaseIntoTable(b) \/ ReleaseSpilling(b)
  /\ bfree' = IF s_nfree < FREE_INDEX_PER_BLOCK THEN bfree + 1 ELSE bfree
  /\ held' = held \ {b}

ReleaseBlock(b) ==
  /\ ReleaseIntoTable(b) \/ ReleaseSpilling(b)
  /\ bfree' = bfree + 1
  /\ held' = held \ {b}

(* The loop of Superblock.__init__ for a new disk releases every block.    *)
FormatStep ==
  /\ ~Formatted
  /\ ReleaseBlock(next)
  /\ next' = next + 1

Release(b) ==
  /\ Formatted
  /\ b \in held
  /\ ReleaseBlock(b)
  /\ UNCHANGED next

(* Fault: the last entry always taken for the end mark. *)
FaultyNoFreeBlock == s_nfree = 1

(* allocate_block raises "No free block".                                  *)
NoFreeBlock == s_nfree = 1 /\ s_free[0] = 0

(* clear_data_block for a caller that asked for a zeroed block.            *)
Cleared(b, zero) == IF zero THEN [disk EXCEPT ![b] = ZeroTable] ELSE disk

(* allocate_block while entries remain: the last one is handed out.        *)
AllocateFromTable(zero) ==
  /\ s_nfree > 1
  /\ s_nfree' = s_nfree - 1
  /\ disk' = Cleared(s_free[s_nfree - 1], zero)
  /\ held' = held \cup {s_free[s_nfree - 1]}
  /\ UNCHANGED s_free

(* Fault: the block is cleared before its table is read. *)
FaultyAllocateReloading_ClearedFirst(zero) ==
  /\ s_nfree = 1
  /\ disk' = Cleared(s_free[0], zero)
  /\ s_nfree' = disk'[s_free[0]].s_nfree
  /\ s_free' = disk'[s_free[0]].s_free
  /\ held' = held \cup {s_free[0]}

(* allocate_block on the last entry: the table stored in that block is     *)
(* read into the superblock, and only then is the block cleared.           *)
AllocateReloading(zero) ==
  /\ s_nfree = 1
  /\ s_nfree' = disk[s_free[0]].s_nfree
  /\ s_free' = disk[s_free[0]].s_free
  /\ disk' = Cleared(s_free[0], zero)
  /\ held' = held \cup {s_free[0]}

Allocate(zero) ==
  /\ Formatted
  /\ ~NoFreeBlock
  /\ AllocateFromTable(zero) \/ AllocateReloading(zero)
  /\ bfree' = bfree - 1
  /\ UNCHANGED next

(* Environment: a caller writes a block it owns, through any of the views  *)
(* of ObjectAccessor.                                                      *)
ClientWrite(b, data) ==
  /\ Formatted
  /\ b \in held
  /\ disk' = [disk EXCEPT ![b] = data]
  /\ UNCHANGED <<s_nfree, s_free, bfree, held, next>>

Next ==
  \/ FormatStep
  \/ \E b \in Blocks : Release(b)
  \/ \E zero \in BOOLEAN : Allocate(zero)
  \/ \E b \in Blocks, data \in ClientData : ClientWrite(b, data)

Spec == Init /\ [][Next]_vars
-----------------------------------------------------------------------------
(* The free list as a set.  Tables are named by the block that stores      *)
(* them; 0, which is no data block, names the one in the superblock.       *)
TableOf(t) ==
  IF t = 0 THEN [s_nfree |-> s_nfree, s_free |-> s_free] ELSE disk[t]

Live(t) == 0 .. TableOf(t).s_nfree - 1

(* Spilled: the blocks reached from the superblock by following slot 0,    *)
(* which are the least set closed under that step.                         *)
Closed(L) ==
  \A t \in L \cup {0} :
    TableOf(t).s_free[0] \in Blocks => TableOf(t).s_free[0] \in L

Spilled == {b \in Blocks : \A L \in SUBSET Blocks : Closed(L) => b \in L}

Tables == Spilled \cup {0}

Entries(t) == {TableOf(t).s_free[i] : i \in Live(t)}

Listed == (UNION {Entries(t) : t \in Tables}) \ {0}

TypeOK ==
  /\ s_nfree \in 1 .. FREE_INDEX_PER_BLOCK
  /\ s_free \in [Slots -> Nat]
  /\ bfree \in 0 .. DISK_BLOCKS
  /\ disk \in [Blocks -> Table]
  /\ held \in SUBSET Blocks
  /\ next \in DATA_START .. DISK_BLOCKS

(* No block is on the free list twice: not in two tables, not in two slots *)
(* (a second copy would be handed to a second file), and the end mark 0    *)
(* stands once, in a slot 0.                                               *)
ListedOnce ==
  /\ \A t, u \in Tables : \A i \in Live(t), j \in Live(u) :
       TableOf(t).s_free[i] = TableOf(u).s_free[j] => t = u /\ i = j
  /\ \A t \in Tables : \A i \in Live(t) :
       \/ TableOf(t).s_free[i] \in Blocks
       \/ i = 0 /\ TableOf(t).s_free[i] = 0

(* Every block is either on the free list or owned by a caller: none is    *)
(* lost in a spill or a reload, and none that is in use can be allocated.  *)
Partition ==
  /\ Listed \cap held = {}
  /\ Listed \cup held = Blocks

(* The statfs counter bfree, never recomputed while mounted, is the length *)
(* of the chain.                                                           *)
CountExact == bfree = Cardinality(Listed)

(* allocate_block refuses exactly when no block is free.                   *)
DiskFullIsReal == NoFreeBlock <=> Listed = {}

(* The least set of blocks closed under slot 0 holds full tables only: a   *)
(* table is spilled only when it is full, and nobody overwrites it.        *)
SpilledFull ==
  \A t \in Spilled : TableOf(t).s_nfree = FREE_INDEX_PER_BLOCK

IInv ==
  /\ TypeOK
  /\ ListedOnce
  /\ SpilledFull
  /\ Partition
  /\ CountExact
  /\ next .. DISK_BLOCKS - 1 \subseteq held

(* The free list implements the pool that its callers see.                 *)
Pool == INSTANCE BlockPool WITH free <- Listed
PoolSpec == Pool!Spec
=============================================================================
