------------------------------- MODULE FileData ------------------------------
(***************************************************************************)
(* The content of a file (disk.py): write_file, truncate and read_file on  *)
(* the blocks of one file, with as many free blocks as the disk has left.  *)
(* Which blocks these are, and the index that finds them, is the subject   *)
(* of FreeBlocks and FileIndex; the files are small, so that no index      *)
(* block is needed.                                                        *)
(*                                                                         *)
(* write_file first extends the file, by calling truncate, then overwrites *)
(* existing blocks, then pushes new ones.  It works on a copy of the inode *)
(* made before the call of truncate, which has a copy of its own; and its  *)
(* place inside a block, position, stays what it was for the first block.  *)
(* So it does what it should only for some of the calls (Straight).        *)
(***************************************************************************)
EXTENDS Integers, SequencesExt

CONSTANTS
  BLOCK_BYTES,   \* bytes of a block (512 in constants.py)
  BLOCK_COUNT,   \* data blocks of the disk
  Values,        \* the bytes that are written; others are 0
  MAX_WRITE,     \* bound: bytes of a write
  MAX_SIZE       \* bound: offsets of writes and sizes for truncate

ASSUME DataAssumption ==
  /\ BLOCK_BYTES \in Nat \ {0}
  /\ BLOCK_COUNT \in Nat
  /\ MAX_WRITE \in Nat
  /\ MAX_SIZE \in Nat

Byte    == {0} \cup Values
Places  == 0 .. BLOCK_BYTES - 1
Data    == UNION {[1 .. n -> Values] : n \in 1 .. MAX_WRITE}
Offsets == 0 .. MAX_SIZE

ZeroBlock == [i \in Places |-> 0]

VARIABLES
  d_size,  \* the size in the inode on disk
  blocks,  \* the content of the blocks that the inode on disk names
  free,    \* how many blocks are free
  torn     \* history: whether a write failed

vars == <<d_size, blocks, free, torn>>

Init ==
  /\ d_size = 0
  /\ blocks = <<>>
  /\ free = BLOCK_COUNT
  /\ torn = FALSE
-----------------------------------------------------------------------------
Ceil(n) == (n + BLOCK_BYTES - 1) \div BLOCK_BYTES

(* Inode.__init__ derives block_count from the size.                       *)
BlockCount == Ceil(d_size)

(* Faults are what a plausible slip in the code would make of the          *)
(* definition that follows them; no specification uses them.               *)

(* The first n bytes of a block, the others zeroed.                        *)
Cut(block, n) == [i \in Places |-> IF i < n THEN block[i] ELSE 0]

(* Fault: the last block that stays is not trimmed. *)
FaultyTrimmed(kept, size) == kept

(* truncate trims the last block that stays.                               *)
Trimmed(kept, size) ==
  IF size % BLOCK_BYTES # 0 /\ size < d_size
    THEN [kept EXCEPT ![Ceil(size)] = Cut(@, size % BLOCK_BYTES)]
    ELSE kept

(* truncate: push zeroed blocks or pop blocks.                             *)
Truncate(size) ==
  LET more == Ceil(size) - BlockCount
  IN  /\ d_size' = size
      /\ more <= free
      /\ free' = free - more
      /\ blocks' = Trimmed(IF more > 0 THEN blocks \o [k \in 1 .. more |-> ZeroBlock]
                           ELSE SubSeq(blocks, 1, Ceil(size)), size)
      /\ UNCHANGED torn

(* truncate finds no free block: those it pushed on its copy are lost.     *)
TruncateFails(size) ==
  /\ Ceil(size) - BlockCount > free
  /\ free' = 0
  /\ UNCHANGED <<d_size, blocks, torn>>

(* Where a write starts: the first block, and the place inside it.         *)
Start(offset) == offset \div BLOCK_BYTES
Position(offset) == offset % BLOCK_BYTES

(* Whether write_file calls truncate first, and the block this allocates,  *)
(* which write_file's own copy of the inode does not know of.              *)
Extends(offset) == Position(offset) > d_size
Lost(offset) == IF Extends(offset) /\ BlockCount = 0 THEN 1 ELSE 0

(* How many bytes go into the existing blocks, as many into each.          *)
Stride(offset) == BLOCK_BYTES - Position(offset)
Existing(offset) == IF Start(offset) < BlockCount THEN BlockCount - Start(offset) ELSE 0

(* Fault: bytes behind those written are dropped. *)
FaultyOverwrittenByte(old, offset, data, k, i) ==
  LET j == (k - Start(offset) - 1) * Stride(offset) + i - Position(offset) + 1
  IN  IF k > Start(offset) /\ i >= Position(offset)
      THEN IF j <= Len(data) THEN data[j] ELSE 0
      ELSE old

(* One byte of the k-th block after the loop over block_list.              *)
OverwrittenByte(old, offset, data, k, i) ==
  LET j == (k - Start(offset) - 1) * Stride(offset) + i - Position(offset) + 1
  IN  IF k > Start(offset) /\ i >= Position(offset) /\ j <= Len(data)
      THEN data[j] ELSE old

Overwritten(offset, data) ==
  [k \in 1 .. Len(blocks) |->
     [i \in Places |-> OverwrittenByte(blocks[k][i], offset, data, k, i)]]

(* What the existing blocks did not take goes into new ones.               *)
Rest(offset, data) ==
  SubSeq(data, Existing(offset) * Stride(offset) + 1, Len(data))

(* Fault: the last chunk is not padded. *)
FaultyNewBlock(rest, k) ==
  [i \in {j \in Places : k * BLOCK_BYTES + j < Len(rest)} |-> rest[k * BLOCK_BYTES + i + 1]]

NewBlock(rest, k) ==
  [i \in Places |-> IF k * BLOCK_BYTES + i < Len(rest)
                      THEN rest[k * BLOCK_BYTES + i + 1] ELSE 0]

NewBlocks(rest) == [k \in 1 .. Ceil(Len(rest)) |-> NewBlock(rest, k - 1)]

(* Fault: the file ends where the write ended. *)
FaultyWrittenSize(target) == target

WrittenSize(target) == IF target > d_size THEN target ELSE d_size

(* write_file.  What the inode on disk names at the end is what its copy   *)
(* of the inode names.                                                     *)
WriteFile(offset, data) ==
  LET new  == NewBlocks(Rest(offset, data))
      need == Lost(offset) + Len(new)
  IN  /\ d_size' = WrittenSize(offset + Len(data))
      /\ need <= free
      /\ free' = free - need
      /\ blocks' = Overwritten(offset, data) \o new
      /\ UNCHANGED torn

(* "No free block" for a new block, or for truncate, whose result stays    *)
(* when it succeeded.                                                      *)
WriteFails(offset, data) ==
  /\ torn' = TRUE
  /\ free' = 0
  /\ Lost(offset) + Ceil(Len(Rest(offset, data))) > free
  /\ IF Lost(offset) > free
     THEN UNCHANGED <<blocks, d_size>>
     ELSE /\ blocks' = Overwritten(offset, data) \o [k \in 1 .. Lost(offset) |-> ZeroBlock]
          /\ d_size' = IF Extends(offset) THEN Position(offset) ELSE d_size

(* Writes that start in the file or right behind its last block, that      *)
(* start a block when they go behind it, and that start a block, end in it *)
(* or start in the last one.                                               *)
Straight(offset, data) ==
  /\ Start(offset) <= BlockCount
  /\ Start(offset) = BlockCount => Position(offset) = 0
  /\ Start(offset) < BlockCount - 1 =>
       Position(offset) = 0 \/ Position(offset) + Len(data) <= BLOCK_BYTES

Write(offset, data) == WriteFile(offset, data) \/ WriteFails(offset, data)
Resize == \E size \in Offsets : Truncate(size) \/ TruncateFails(size)

Next == Resize \/ \E offset \in Offsets, data \in Data : Write(offset, data)
Spec == Init /\ [][Next]_vars

StraightNext ==
  \/ Resize
  \/ \E offset \in Offsets, data \in Data : Straight(offset, data) /\ Write(offset, data)
StraightSpec == Init /\ [][StraightNext]_vars
-----------------------------------------------------------------------------
(* read_file.  A size below 0 asks for the rest of the file.               *)

(* Fault: the size of the file does not limit the read. *)
FaultyWanted(offset, size) == IF size < 0 THEN d_size - offset ELSE size

Wanted(offset, size) ==
  IF size < 0 \/ size > d_size - offset THEN d_size - offset ELSE size

ReadFile(offset, size) ==
  LET from  == SubSeq(blocks, Start(offset) + 1, BlockCount)
      bytes == FlattenSeq([k \in 1 .. Len(from) |->
                             [i \in 1 .. BLOCK_BYTES |-> from[k][i - 1]]])
      last  == Position(offset) + Wanted(offset, size)
  IN  SubSeq(bytes, Position(offset) + 1, IF last > Len(bytes) THEN Len(bytes) ELSE last)
-----------------------------------------------------------------------------
TypeOK ==
  /\ d_size \in Nat
  /\ blocks \in Seq([Places -> Byte])
  /\ free \in 0 .. BLOCK_COUNT
  /\ torn \in BOOLEAN

(* inode.py:24: size and number of blocks of the inode must match, also    *)
(* when truncate and write_file fail half-way.                             *)
SizeMatchesBlocks == Len(blocks) = BlockCount

(* The bytes of the last block behind the end are zero, so that a file     *)
(* that is extended shows zeros: truncate must trim, write_file must pad.  *)
TailIsZero ==
  ~torn => \A n \in d_size .. BlockCount * BLOCK_BYTES - 1 :
             blocks[Len(blocks)][Position(n)] = 0

(* The bytes of the file; there are none where the inode names no block.   *)
Content ==
  [n \in 1 .. d_size |->
     IF Start(n - 1) < Len(blocks) THEN blocks[Start(n - 1) + 1][Position(n - 1)] ELSE -1]

(* read_file returns the bytes of the file from an offset, across blocks,  *)
(* and nothing from behind the end.                                        *)
ReadIsExact ==
  \A offset \in Offsets : \A size \in -1 .. MAX_SIZE :
    ReadFile(offset, size) =
      SubSeq(Content, offset + 1,
             IF size < 0 \/ offset + size > d_size THEN d_size ELSE offset + size)

(* Each call does to the bytes of the file what the same call does to a    *)
(* sequence of bytes, at the offset and for the length it was given: those *)
(* writes that are straight, and truncations; also when the disk is full.  *)
Bytes == INSTANCE FileBytes WITH content <- Content

CallsAreExact ==
  [][/\ \A offset \in Offsets, data \in Data :
          /\ WriteFile(offset, data) /\ Straight(offset, data)
               => Bytes!Write(offset, data)
          /\ WriteFails(offset, data) /\ Straight(offset, data)
               => Bytes!WriteFails(offset, data)
     /\ \A size \in Offsets :
          /\ Truncate(size) => Bytes!Truncate(size)
          /\ TruncateFails(size) => UNCHANGED Bytes!bytesVars]_vars

(* disk.py:343: a write that starts behind the end first extends the file  *)
(* to where it starts.  The code compares the place inside the block with  *)
(* the size, and extends a copy of the inode that it does not go on with.  *)
GapIsFilled ==
  [][\A offset \in Offsets, data \in Data :
       offset > d_size /\ WriteFile(offset, data)
         => Content' = Content \o [n \in 1 .. offset - d_size |-> 0] \o data]_vars
=============================================================================
