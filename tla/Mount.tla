-------------------------------- MODULE Mount --------------------------------
(***************************************************************************)
(* Mounting an image (disk.py, superblock.py, format_disk.py): what of the *)
(* superblock is in memory and what is in the store, format, mount with or *)
(* without a recount, flush, unmount, and a crash of the process.          *)
(*                                                                         *)
(* The superblock takes two blocks.  The first holds the table of free     *)
(* blocks, the second the counts for statfs and a hash over both.  It is   *)
(* written by flush only, while inodes and data blocks are written as the  *)
(* calls go.  mount trusts the counts when the hash fits, and otherwise    *)
(* walks the chain of tables to count again.                               *)
(*                                                                         *)
(* FreeBlocks has the list itself; its s_nfree, s_free and bfree are the   *)
(* superblock in memory, its disk is what a reader of the store gets.  Of  *)
(* the inodes only the allocation bits and the blocks they own (held) are  *)
(* kept; which inode is handed out is the subject of FreeInodes.           *)
(***************************************************************************)
EXTENDS FreeBlocks

CONSTANTS
  INODE_COUNT,   \* inodes of the disk (disk_params.py)
  MAX_COUNT      \* bound: how far a recount on a broken chain is followed

ASSUME MountAssumption ==
  /\ INODE_COUNT \in Nat \ {0}
  /\ MAX_COUNT \in Nat

VARIABLES
  ffree,    \* the free-inode count kept for statfs
  ialloc,   \* the inodes with the IALLOC bit, but for the root
  phase,    \* what the program is doing with the image
  index,    \* recount: the next block of the chain
  first,    \* the first block of the superblock in the store
  second,   \* its second block
  left,     \* history: the values that a crash may leave the blocks with
  whole,    \* history: the superblocks that one call of flush has written
  crashed   \* history: whether a crash has come since the last format

inodeVars == <<ffree, ialloc>>
storeVars == <<first, second, left, whole>>
mountVars == <<s_nfree, s_free, bfree, disk, held, next, ffree, ialloc,
               phase, index, first, second, left, whole, crashed>>

Inodes == 1 .. INODE_COUNT - 1

(* The superblock in memory, by the block it is written to.                *)
InMemory == [s_nfree |-> s_nfree, s_free |-> s_free]
Counts   == [bfree |-> bfree, ffree |-> ffree]

(* Fault: the hash covers the counts only. *)
FaultyHash(table, counts) == <<counts>>

(* get_superblock_hash: all of the superblock but the hash and the magic.  *)
(* No two superblocks are taken to have the same hash.                     *)
Hash(table, counts) == <<table, counts>>
NoHash == <<>>

(* What a new image has before anything is written to it.                  *)
Blank == [counts |-> [bfree |-> 0, ffree |-> 0], hash |-> NoHash]

Pair == <<first, second.counts>>

MountInit ==
  /\ Init
  /\ ffree = INODE_COUNT - 1
  /\ ialloc = {}
  /\ phase = "format"
  /\ index = 0
  /\ first = ZeroTable
  /\ second = Blank
  /\ left = [first |-> {first}, second |-> {second}, inodes |-> {<<held, ialloc>>},
             data |-> [b \in Blocks |-> {disk[b]}]]
  /\ whole = {}
  /\ crashed = FALSE
-----------------------------------------------------------------------------
(* Superblock.flush: both blocks are written to the store.                 *)
FlushSuperblock ==
  /\ first' = InMemory'
  /\ second' = [counts |-> Counts', hash |-> Hash(InMemory', Counts')]

(* After a write, a crash may leave each block with any value it had since *)
(* the image was opened: flush does not empty the buffer of the file       *)
(* object, and the blocks go to the file in any order (BlockStore).  The   *)
(* inodes are taken to be in one block.                                    *)
Written ==
  left' = [first  |-> left.first \cup {first'},
           second |-> left.second \cup {second'},
           inodes |-> left.inodes \cup {<<held', ialloc'>>},
           data   |-> [b \in Blocks |-> left.data[b] \cup {disk'[b]}]]

(* After the file is closed there is one value of each.                    *)
Settled ==
  left' = [first |-> {first'}, second |-> {second'}, inodes |-> {<<held', ialloc'>>},
           data |-> [b \in Blocks |-> {disk'[b]}]]

(* format_disk: the image is zeroed, then Superblock.new fills the list.   *)
(* Disk.format of a mounted disk is Unmount, Format and Mount.  Only a new *)
(* format can follow a crash in here, so none is modelled.                 *)
Format ==
  /\ phase = "unmounted"
  /\ phase' = "format"
  /\ s_nfree' = 1
  /\ s_free' = ZeroSlots
  /\ bfree' = 0
  /\ disk' = [b \in Blocks |-> ZeroTable]
  /\ held' = Blocks
  /\ next' = DATA_START
  /\ ffree' = INODE_COUNT - 1
  /\ ialloc' = {}
  /\ first' = ZeroTable
  /\ second' = Blank
  /\ Settled
  /\ whole' = {}
  /\ crashed' = FALSE
  /\ UNCHANGED index

FormatBlock ==
  /\ phase = "format"
  /\ FormatStep
  /\ UNCHANGED <<inodeVars, phase, index, storeVars, crashed>>

(* The end of format_disk: the superblock is flushed and the file closed.  *)
EndFormat ==
  /\ phase = "format"
  /\ Formatted
  /\ phase' = "unmounted"
  /\ UNCHANGED <<vars, inodeVars, index, crashed>>
  /\ FlushSuperblock
  /\ Settled
  /\ whole' = {Pair'}

(* Disk.mount and Superblock.__init__: both blocks are read, and the hash  *)
(* computed from them is compared with the one they hold.                  *)
HashFits == second.hash = Hash(first, second.counts)

(* Fault: the end mark is subtracted here as well as at the end. *)
FaultyEntriesInMemory == first.s_nfree - 1

EntriesInMemory == first.s_nfree

Load ==
  /\ phase = "unmounted"
  /\ s_nfree' = first.s_nfree
  /\ s_free' = first.s_free
  /\ UNCHANGED <<disk, held, next, ialloc, storeVars, crashed>>

MountTrusting ==
  /\ Load
  /\ HashFits
  /\ bfree' = second.counts.bfree
  /\ ffree' = second.counts.ffree
  /\ phase' = "mounted"
  /\ UNCHANGED index

(* recount begins with the table in memory.                                *)
MountCounting ==
  /\ Load
  /\ ~HashFits
  /\ bfree' = EntriesInMemory
  /\ ffree' = second.counts.ffree
  /\ index' = first.s_free[0]
  /\ phase' = "recount"

(* Fault: the link is taken from the table in memory again. *)
FaultyRecountStep ==
  /\ phase = "recount"
  /\ index \in Blocks
  /\ bfree <= MAX_COUNT
  /\ bfree' = bfree + disk[index].s_nfree
  /\ index' = s_free[0]
  /\ UNCHANGED <<s_nfree, s_free, disk, held, next, inodeVars, phase, storeVars, crashed>>

(* One turn of recount's loop.                                             *)
RecountStep ==
  /\ phase = "recount"
  /\ index \in Blocks
  /\ bfree <= MAX_COUNT
  /\ bfree' = bfree + disk[index].s_nfree
  /\ index' = disk[index].s_free[0]
  /\ UNCHANGED <<s_nfree, s_free, disk, held, next, inodeVars, phase, storeVars, crashed>>

(* Fault: the end mark is counted as a block. *)
FaultyRecountEnd ==
  /\ phase = "recount"
  /\ index = 0
  /\ bfree' = bfree
  /\ ffree' = Cardinality(Inodes \ ialloc)
  /\ phase' = "mounted"
  /\ UNCHANGED <<s_nfree, s_free, disk, held, next, ialloc, index, crashed>>
  /\ FlushSuperblock
  /\ Written
  /\ whole' = whole \cup {Pair'}

(* The rest of recount, and the flush with which the mount ends.           *)
RecountEnd ==
  /\ phase = "recount"
  /\ index = 0
  /\ bfree' = bfree - 1
  /\ ffree' = Cardinality(Inodes \ ialloc)
  /\ phase' = "mounted"
  /\ UNCHANGED <<s_nfree, s_free, disk, held, next, ialloc, index, crashed>>
  /\ FlushSuperblock
  /\ Written
  /\ whole' = whole \cup {Pair'}

(* The calls of a mounted disk, as they reach the superblock and the store.*)
BlockCall ==
  /\ phase = "mounted"
  /\ \/ \E zero \in BOOLEAN : Allocate(zero)
     \/ \E b \in Blocks : Release(b)
     \/ \E b \in Blocks, data \in ClientData : ClientWrite(b, data)
  /\ UNCHANGED <<inodeVars, phase, index, first, second, whole, crashed>>
  /\ Written

(* allocate_inode with the flush of the new inode, and release_inode.      *)
InodeCall(i) ==
  /\ phase = "mounted"
  /\ \/ i \notin ialloc /\ ialloc' = ialloc \cup {i} /\ ffree' = ffree - 1
     \/ i \in ialloc /\ ialloc' = ialloc \ {i} /\ ffree' = ffree + 1
  /\ UNCHANGED <<vars, phase, index, first, second, whole, crashed>>
  /\ Written

(* Disk.flush, which fsync calls.                                          *)
Flush ==
  /\ phase = "mounted"
  /\ UNCHANGED <<vars, inodeVars, phase, index, crashed>>
  /\ FlushSuperblock
  /\ Written
  /\ whole' = whole \cup {Pair'}

(* Fault: the superblock is not flushed before the image is closed. *)
FaultyUnmount ==
  /\ phase = "mounted"
  /\ phase' = "unmounted"
  /\ UNCHANGED <<vars, inodeVars, index, first, second, whole, crashed>>
  /\ Settled

(* Disk.unmount: flush and close.  The superblock in memory is of no use   *)
(* any more; it stays in the model to be compared with the next one.       *)
Unmount ==
  /\ phase = "mounted"
  /\ phase' = "unmounted"
  /\ UNCHANGED <<vars, inodeVars, index, crashed>>
  /\ FlushSuperblock
  /\ Settled
  /\ whole' = {Pair'}

(* Another system has used the image in between.  It knows the table but   *)
(* neither the counts nor the hash.                                        *)
Foreign ==
  /\ phase = "unmounted"
  /\ ~crashed
  /\ second' = Blank
  /\ UNCHANGED <<vars, inodeVars, phase, index, first, whole, crashed>>
  /\ Settled

(* The process dies while the image is open, and the superblock in memory  *)
(* with it.                                                                *)
Crash ==
  /\ phase \in {"recount", "mounted"}
  /\ phase' = "unmounted"
  /\ crashed' = TRUE
  /\ first' \in left.first
  /\ second' \in left.second
  /\ \E inodes \in left.inodes : held' = inodes[1] /\ ialloc' = inodes[2]
  /\ disk' \in [Blocks -> UNION {left.data[b] : b \in Blocks}]
  /\ \A b \in Blocks : disk'[b] \in left.data[b]
  /\ Settled
  /\ s_nfree' = 0
  /\ s_free' = ZeroSlots
  /\ bfree' = 0
  /\ ffree' = 0
  /\ index' = 0
  /\ UNCHANGED <<next, whole>>

MountNext ==
  \/ Format \/ FormatBlock \/ EndFormat
  \/ MountTrusting \/ MountCounting \/ RecountStep \/ RecountEnd
  \/ BlockCall
  \/ \E i \in Inodes : InodeCall(i)
  \/ Flush \/ Unmount
  \/ Foreign
  \/ Crash

(* The loop of recount waits for nothing.                                  *)
Fairness == WF_mountVars(RecountStep \/ RecountEnd)

MountSpec == MountInit /\ [][MountNext]_mountVars /\ Fairness
-----------------------------------------------------------------------------
MountTypeOK ==
  /\ phase \in {"format", "unmounted", "recount", "mounted"}
  /\ crashed \in BOOLEAN
  /\ phase # "format" =>
       /\ first \in left.first
       /\ second \in left.second
       /\ <<held, ialloc>> \in left.inodes
       /\ \A b \in Blocks : disk[b] \in left.data[b]
  /\ ~crashed =>
       /\ held \subseteq Blocks
       /\ ialloc \subseteq Inodes
       /\ index \in Blocks \cup {0}
       /\ bfree \in 0 .. DISK_BLOCKS
       /\ ffree \in 0 .. INODE_COUNT - 1

(* While no crash has come, the counts of a mounted disk are right and its *)
(* list is that of the blocks no file owns, through every flush, unmount,  *)
(* visit of another system and recount.                                    *)
CountsHold ==
  phase = "mounted" /\ ~crashed =>
    /\ bfree = Cardinality(Listed)
    /\ ffree = Cardinality(Inodes \ ialloc)
    /\ Partition

(* Without a crash, going from one mount to the next keeps the list entry  *)
(* by entry, and the files: what unmount leaves is what mount finds.       *)
RemountKeepsList ==
  [][phase = "unmounted" /\ phase' \in {"mounted", "recount"} /\ ~crashed
       => UNCHANGED <<s_nfree, s_free, disk, held, ialloc>>]_mountVars

(* A mount that trusts the counts has found a superblock whose two blocks  *)
(* are from one flush: one torn by a crash is counted again.               *)
TornIsRecounted ==
  [][phase = "unmounted" /\ phase' = "mounted" => <<InMemory', Counts'>> \in whole]_mountVars

(* A recount comes to an end, since without a crash the chain has one.     *)
RecountEnds == phase = "recount" /\ ~crashed ~> phase = "mounted" \/ crashed

(* superblock.py:32: an image last used by this program need not be        *)
(* counted again.  After a crash the superblock is an old one of its own.  *)
TrustedCountsAreRight ==
  [][phase = "unmounted" /\ phase' = "mounted"
       => bfree' = Cardinality(Blocks \ held)]_mountVars
=============================================================================
