------------------------------ MODULE FileIndex ------------------------------
(***************************************************************************)
(* The block index of an inode (inode.py): d_addr names the first data     *)
(* blocks directly, then blocks of FILE_INDEX_PER_BLOCK numbers, then      *)
(* blocks of numbers of such blocks.  push_block and pop_block extend and  *)
(* shorten the index at its end, taking index blocks from the free list    *)
(* and giving them back; block_list walks it from any position.            *)
(*                                                                         *)
(* Disk.truncate, write_file and unlink work on a copy of the inode, push  *)
(* or pop block after block, and flush the inode at the end.  When the     *)
(* disk or the file is full the operation is abandoned half-way: the copy  *)
(* is lost, what was written into index blocks and taken from the free     *)
(* list is not taken back.                                                 *)
(***************************************************************************)
EXTENDS Integers, SequencesExt

CONSTANTS
  Files,                   \* the files that share the disk
  None,
  BLOCK_COUNT,             \* data blocks of the disk, numbered from 1
  INODE_SMALL_THRESHOLD,   \* first entry of d_addr for one-level index blocks
  INODE_LARGE_THRESHOLD,   \* first entry for two-level index blocks
  INODE_HUGE_THRESHOLD,    \* entries of d_addr
  FILE_INDEX_PER_BLOCK     \* entries of an index block

ASSUME IndexAssumption ==
  /\ BLOCK_COUNT \in Nat
  /\ INODE_SMALL_THRESHOLD \in Nat \ {0}
  /\ INODE_LARGE_THRESHOLD \in Nat
  /\ INODE_HUGE_THRESHOLD \in Nat
  /\ INODE_SMALL_THRESHOLD < INODE_LARGE_THRESHOLD
  /\ INODE_LARGE_THRESHOLD < INODE_HUGE_THRESHOLD
  /\ FILE_INDEX_PER_BLOCK \in Nat \ {0}

ASSUME NoneAssumption == None \notin Files

Blocks  == 1 .. BLOCK_COUNT
Addrs   == 0 .. INODE_HUGE_THRESHOLD - 1
Indexes == 0 .. FILE_INDEX_PER_BLOCK - 1

FILE_INDEX_SMALL_THRESHOLD == INODE_SMALL_THRESHOLD
FILE_INDEX_LARGE_THRESHOLD ==
  FILE_INDEX_SMALL_THRESHOLD
    + (INODE_LARGE_THRESHOLD - INODE_SMALL_THRESHOLD) * FILE_INDEX_PER_BLOCK
FILE_INDEX_HUGE_THRESHOLD ==
  FILE_INDEX_LARGE_THRESHOLD
    + (INODE_HUGE_THRESHOLD - INODE_LARGE_THRESHOLD)
        * FILE_INDEX_PER_BLOCK * FILE_INDEX_PER_BLOCK

VARIABLES
  opened,  \* the file that an operation works on, or None
  mode,    \* what it did so far: "none", "grow" or "shrink"
  inode,   \* the operation's copy: d_addr, and block_count
  inodes,  \* the inodes on disk
  disk,    \* content of every block, read as an index block
  free,    \* the blocks of the free list (BlockPool)
  taken,   \* history: blocks the operation allocated
  leaked,  \* history: blocks that abandoned operations had allocated
  before   \* history: blocks of the opened file before the operation

vars == <<opened, mode, inode, inodes, disk, free, taken, leaked, before>>

ZeroIndex == [i \in Indexes |-> 0]
Garbage   == [i \in Indexes |-> BLOCK_COUNT]  \* file data, or a table of the free list
NewInode  == [d_addr |-> [i \in Addrs |-> 0], block_count |-> 0]

Init ==
  /\ opened = None
  /\ mode = "none"
  /\ inode = NewInode
  /\ inodes = [f \in Files |-> NewInode]
  /\ disk = [b \in Blocks |-> Garbage]
  /\ free = Blocks
  /\ taken = {}
  /\ leaked = {}
  /\ before = <<>>
-----------------------------------------------------------------------------
(* Inode._get_block_index: the path to a data block, -1 where it has no    *)
(* such level.                                                             *)
GetBlockIndex(index) ==
  IF index < FILE_INDEX_SMALL_THRESHOLD THEN <<index, -1, -1>>
  ELSE IF index < FILE_INDEX_LARGE_THRESHOLD THEN
    LET i == index - FILE_INDEX_SMALL_THRESHOLD
    IN  <<i \div FILE_INDEX_PER_BLOCK + INODE_SMALL_THRESHOLD,
          i % FILE_INDEX_PER_BLOCK, -1>>
  ELSE IF index < FILE_INDEX_HUGE_THRESHOLD THEN
    LET i == index - FILE_INDEX_LARGE_THRESHOLD
        square == FILE_INDEX_PER_BLOCK * FILE_INDEX_PER_BLOCK
    IN  <<i \div square + INODE_LARGE_THRESHOLD,
          (i % square) \div FILE_INDEX_PER_BLOCK,
          i % FILE_INDEX_PER_BLOCK>>
  ELSE <<-1, -1, -1>>

(* Faults are what a plausible slip in the code would make of the          *)
(* definition that follows them; no specification uses them.               *)

(* Fault: a file at its largest size is not refused. *)
FaultyInRange(path) == TRUE

(* push_block raises for a file that has its largest size already.         *)
InRange(path) == path[1] # -1

(* Whether push_block adds, and pop_block deletes, an index block at the   *)
(* first or the second level for a data block at this path.                *)
NewOuter(path) == path[2] = 0 /\ path[3] \in {-1, 0}
NewInner(path) == path[3] = 0

IndexBlocksFor(path) ==
  (IF NewOuter(path) THEN 1 ELSE 0) + (IF NewInner(path) THEN 1 ELSE 0)

(* The block that the k-th allocation from now on returns.  Which free     *)
(* block it is makes no difference here: numbers are only tested for zero. *)
Fresh(k) ==
  CHOOSE b \in free : Cardinality({c \in free : c < b}) = k - 1

(* Fault: only the data block leaves the free list. *)
FaultyFreshBlocks(n) == {Fresh(k) : k \in 1 .. n} \cap {Fresh(1)}

FreshBlocks(n) == {Fresh(k) : k \in 1 .. n}

(* Fault: the index block is always started afresh. *)
FaultyIndexBlock(isNew, b) == ZeroIndex

(* The index block that push_block puts its entry into.                    *)
IndexBlock(isNew, b) == IF isNew THEN ZeroIndex ELSE disk[b]

(* The data block at every position of a file, found by GetBlockIndex.     *)
ListOf(node) ==
  [i \in 1 .. node.block_count |->
     LET path == GetBlockIndex(i - 1)
         at == node.d_addr[path[1]]
     IN  IF path[2] = -1 THEN at
         ELSE IF path[3] = -1 THEN disk[at][path[2]]
         ELSE disk[disk[at][path[2]]][path[3]]]

(* Disk._get_inode at the start of an operation.                           *)
Open(f) ==
  /\ opened = None
  /\ opened' = f
  /\ mode' = "none"
  /\ inode' = inodes[f]
  /\ taken' = {}
  /\ before' = ListOf(inodes[f])
  /\ UNCHANGED <<inodes, disk, free, leaked>>

(* One turn of the loop of truncate or write_file that grows the file:     *)
(* allocate_block for the data block, which is filled with file data, then *)
(* push_block, which allocates zeroed index blocks first.                  *)
PushBlock ==
  LET path  == GetBlockIndex(inode.block_count)
      n     == 1 + IndexBlocksFor(path)
      new   == Fresh(1)
      outer == IF NewOuter(path) THEN Fresh(2) ELSE inode.d_addr[path[1]]
      inner == IF NewInner(path) THEN Fresh(n) ELSE disk[outer][path[2]]
      block1 == IndexBlock(NewOuter(path), outer)
      block2 == IndexBlock(NewInner(path), inner)
  IN  /\ InRange(path)
      /\ Cardinality(free) >= n
      /\ free' = free \ FreshBlocks(n)
      /\ taken' = taken \cup FreshBlocks(n)
      /\ inode' =
           [d_addr |-> [inode.d_addr EXCEPT ![path[1]] =
                          IF path[2] = -1 THEN new ELSE outer],
            block_count |-> inode.block_count + 1]
      /\ disk' =
           IF path[2] = -1 THEN [disk EXCEPT ![new] = Garbage]
           ELSE IF path[3] = -1
           THEN [disk EXCEPT ![new] = Garbage,
                             ![outer] = [block1 EXCEPT ![path[2]] = new]]
           ELSE [disk EXCEPT ![new] = Garbage,
                             ![outer] = [block1 EXCEPT ![path[2]] = inner],
                             ![inner] = [block2 EXCEPT ![path[3]] = new]]

Grow ==
  /\ opened # None
  /\ mode # "shrink"
  /\ mode' = "grow"
  /\ PushBlock
  /\ UNCHANGED <<opened, inodes, leaked, before>>

(* The same turn when an allocation or push_block raises: the operation    *)
(* ends, with every block it could allocate allocated.                     *)
GrowFails ==
  LET path == GetBlockIndex(inode.block_count)
      got  == IF ~InRange(path) /\ free # {} THEN 1 ELSE Cardinality(free)
  IN  /\ opened # None
      /\ mode # "shrink"
      /\ ~InRange(path) \/ Cardinality(free) < 1 + IndexBlocksFor(path)
      /\ free' = free \ FreshBlocks(got)
      /\ leaked' = leaked \cup taken \cup FreshBlocks(got)
      /\ disk' = [b \in Blocks |->
                    IF b \in FreshBlocks(got) THEN ZeroIndex ELSE disk[b]]
      /\ opened' = None
      /\ mode' = "none"
      /\ inode' = NewInode
      /\ taken' = {}
      /\ before' = <<>>
      /\ UNCHANGED inodes

(* Fault: the second level is forgotten. *)
FaultyReleased(path, outer, inner, last) ==
  {last} \cup (IF NewOuter(path) THEN {outer} ELSE {})

(* The blocks that go back to the free list when an entry is popped.       *)
Released(path, outer, inner, last) ==
  {last} \cup (IF NewInner(path) THEN {inner} ELSE {})
         \cup (IF NewOuter(path) THEN {outer} ELSE {})

(* Fault: the entry of an index block stays in d_addr. *)
FaultyAddrCleared(path) == path[2] = -1

(* Whether popping clears the entry of d_addr.                             *)
AddrCleared(path) == path[2] = -1 \/ NewOuter(path)

(* One turn of the loop of truncate or unlink that shrinks the file:       *)
(* pop_block clears the entry and releases index blocks that became empty, *)
(* the second level first; then the caller releases the data block.  The   *)
(* free list may put a table into any block released.                      *)
PopBlock ==
  LET path  == GetBlockIndex(inode.block_count - 1)
      outer == inode.d_addr[path[1]]
      inner == disk[outer][path[2]]
      last  == IF path[2] = -1 THEN outer
               ELSE IF path[3] = -1 THEN inner
               ELSE disk[inner][path[3]]
      released == Released(path, outer, inner, last)
      cleared ==
        IF path[2] = -1 THEN disk
        ELSE IF path[3] = -1 THEN [disk EXCEPT ![outer][path[2]] = 0]
        ELSE IF path[3] = 0 THEN [disk EXCEPT ![outer][path[2]] = 0,
                                              ![inner][path[3]] = 0]
        ELSE [disk EXCEPT ![inner][path[3]] = 0]
  IN  /\ free' = free \cup released
      /\ disk' = [b \in Blocks |-> IF b \in released THEN Garbage ELSE cleared[b]]
      /\ inode' =
           [d_addr |-> [inode.d_addr EXCEPT ![path[1]] =
                          IF AddrCleared(path) THEN 0 ELSE @],
            block_count |-> inode.block_count - 1]

Shrink ==
  /\ opened # None
  /\ mode # "grow"
  /\ inode.block_count > 0
  /\ mode' = "shrink"
  /\ PopBlock
  /\ UNCHANGED <<opened, inodes, taken, leaked, before>>

(* inode.flush() at the end of the operation.                              *)
Save ==
  /\ opened # None
  /\ inodes' = [inodes EXCEPT ![opened] = inode]
  /\ opened' = None
  /\ mode' = "none"
  /\ inode' = NewInode
  /\ taken' = {}
  /\ before' = <<>>
  /\ UNCHANGED <<disk, free, leaked>>

Next ==
  \/ \E f \in Files : Open(f)
  \/ Grow
  \/ GrowFails
  \/ Shrink
  \/ Save

Spec == Init /\ [][Next]_vars
-----------------------------------------------------------------------------
(* block_list, a generator over the index.  _get_index_list strips the     *)
(* zeros from the end of an index block.                                   *)
GetIndexList(b) ==
  IF b = 0 THEN <<>>
  ELSE LET used == {i \in Indexes : disk[b][i] # 0}
           last == IF used = {} THEN -1 ELSE CHOOSE i \in used : \A j \in used : j <= i
       IN  [i \in 1 .. last + 1 |-> disk[b][i - 1]]

From(seq, start) == SubSeq(seq, start + 1, Len(seq))

(* Fault: the place inside the first inner block is used for the others. *)
FaultyWalkInner(outer, i2, i3) ==
  LET inners == From(GetIndexList(outer), i2)
  IN  FlattenSeq([k \in 1 .. Len(inners) |-> From(GetIndexList(inners[k]), i3)])

(* What _block_list yields for one entry of d_addr, from a place inside it.*)
WalkInner(outer, i2, i3) ==
  LET inners == From(GetIndexList(outer), i2)
  IN  FlattenSeq([k \in 1 .. Len(inners) |->
                    From(GetIndexList(inners[k]), IF k = 1 THEN i3 ELSE 0)])

WalkEntry(d_addr, i1, i2, i3) ==
  IF i1 < INODE_SMALL_THRESHOLD THEN <<d_addr[i1]>>
  ELSE IF i1 < INODE_LARGE_THRESHOLD THEN From(GetIndexList(d_addr[i1]), i2)
  ELSE WalkInner(d_addr[i1], i2, i3)

Walk(d_addr, start) ==
  LET path == GetBlockIndex(start)
  IN  FlattenSeq([k \in 1 .. INODE_HUGE_THRESHOLD - path[1] |->
                    IF k = 1 THEN WalkEntry(d_addr, path[1], path[2], path[3])
                    ELSE WalkEntry(d_addr, path[1] + k - 1, 0, 0)])

BlockList(node, start, length) ==
  LET rest == node.block_count - start
      n    == IF length < 0 \/ length > rest THEN rest ELSE length
  IN  IF n <= 0 THEN <<>>
      ELSE LET walk == Walk(node.d_addr, start)
           IN  SubSeq(walk, 1, Min({n, Len(walk)}))

-----------------------------------------------------------------------------
TypeOK ==
  LET Inode == [d_addr : [Addrs -> 0 .. BLOCK_COUNT],
                block_count : 0 .. FILE_INDEX_HUGE_THRESHOLD]
  IN  /\ opened \in Files \cup {None}
      /\ mode \in {"none", "grow", "shrink"}
      /\ inode \in Inode
      /\ inodes \in [Files -> Inode]
      /\ disk \in [Blocks -> [Indexes -> 0 .. BLOCK_COUNT]]
      /\ free \subseteq Blocks
      /\ taken \subseteq Blocks /\ leaked \subseteq Blocks
      /\ before \in Seq(Blocks)

(* The inode of a file, the operation's copy while it is open.             *)
Node(f) == IF f = opened THEN inode ELSE inodes[f]
Nodes   == {Node(f) : f \in Files}

(* The index blocks of a file of so many data blocks.                      *)
IndexBlocksOf(node) ==
  UNION {LET path == GetBlockIndex(i)
             outer == node.d_addr[path[1]]
         IN  IF path[2] = -1 THEN {}
             ELSE IF path[3] = -1 THEN {outer}
             ELSE {outer, disk[outer][path[2]]} : i \in 0 .. node.block_count - 1}

(* block_list yields the blocks that push_block put at these positions,    *)
(* from any position and for any length, across the levels of the index.   *)
ListIsExact ==
  \A node \in Nodes :
    \A start \in 0 .. node.block_count :
      \A length \in -1 .. node.block_count - start :
        BlockList(node, start, length) =
          SubSeq(ListOf(node), start + 1,
                 IF length < 0 THEN node.block_count ELSE start + length)

BlocksOf(f) == Range(ListOf(Node(f))) \cup IndexBlocksOf(Node(f))

IndexBlockCount(n) ==
  LET added[i \in 0 .. FILE_INDEX_HUGE_THRESHOLD] ==
        IF i = 0 THEN 0 ELSE added[i - 1] + IndexBlocksFor(GetBlockIndex(i - 1))
  IN  added[n]

(* Every block is free, part of one file, or leaked by an abandoned        *)
(* operation, and only one of these: files never share a data or an index  *)
(* block, and shrinking gives back every block that growing took.          *)
BlocksAccountedFor ==
  /\ \A f \in Files :
       Cardinality(BlocksOf(f))
         = Node(f).block_count + IndexBlockCount(Node(f).block_count)
  /\ \A f, g \in Files : f # g => BlocksOf(f) \cap BlocksOf(g) = {}
  /\ \A f \in Files : BlocksOf(f) \cap (free \cup leaked) = {}
  /\ free \cap leaked = {}
  /\ free \cup leaked \cup UNION {BlocksOf(f) : f \in Files} = Blocks

(* inode.py:26: an empty index block must be removed.  d_addr names an     *)
(* index block exactly while the file reaches into it.                     *)
NoEmptyIndexBlock ==
  \A node \in Nodes : \A i \in Addrs :
    node.d_addr[i] # 0 <=>
      \E p \in 0 .. node.block_count - 1 : GetBlockIndex(p)[1] = i

(* The index implements the list of blocks, also when growing fails: what  *)
(* the abandoned operation wrote into index blocks is not seen.            *)
List == INSTANCE FileBlocks WITH
  list <- IF opened = None THEN <<>> ELSE ListOf(inode),
  saved <- [f \in Files |-> IF f = opened THEN before ELSE ListOf(inodes[f])]
ListSpec == List!Spec
=============================================================================
