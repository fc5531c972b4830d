---------------------------- MODULE FileDataProofs ---------------------------
(***************************************************************************)
(* For every size of block, disk, write and file: truncate and the         *)
(* straight writes keep as many blocks as the size needs, keep the tail of *)
(* the last block zero, and do to the bytes what FileBytes says.           *)
(***************************************************************************)
EXTENDS FileData, CountingProofs, SequenceTheorems, TLAPS

B == BLOCK_BYTES

(* Division by the size of a block.                                         *)
LEMMA DivMod ==
  ASSUME NEW n \in Int
  PROVE  /\ n \div B \in Int /\ n % B \in 0 .. B - 1
         /\ n = B * (n \div B) + (n % B)
<1>1. n \div B \in Int
  BY DataAssumption DEF B
<1>2. n % B \in 0 .. B - 1
  BY DataAssumption DEF B
<1>3. n = B * (n \div B) + (n % B)
  BY DataAssumption DEF B
<1> QED
  BY <1>1, <1>2, <1>3

LEMMA DivModUnique ==
  ASSUME NEW q \in Int, NEW r \in 0 .. B - 1
  PROVE  (B * q + r) \div B = q /\ (B * q + r) % B = r
BY DataAssumption DEF B

LEMMA Apart ==
  ASSUME NEW a \in Int, NEW b \in Int, a < b
  PROVE  B * a + B <= B * b
BY DataAssumption DEF B

(* Ceil is the number of blocks that so many bytes need.                    *)
LEMMA CeilIs ==
  ASSUME NEW n \in Int, NEW q \in Int, B * q - B < n, n <= B * q
  PROVE  Ceil(n) = q
<1>1. /\ n + B - 1 - B * q \in 0 .. B - 1
      /\ n + B - 1 = B * q + (n + B - 1 - B * q)
  BY DataAssumption DEF B
<1>2. (n + B - 1) \div B = q
  BY <1>1, DivModUnique
<1> QED
  BY <1>2 DEF Ceil, B

LEMMA CeilHas ==
  ASSUME NEW n \in Int
  PROVE  Ceil(n) \in Int /\ B * Ceil(n) - B < n /\ n <= B * Ceil(n)
<1>1. n + B - 1 \in Int
  BY DataAssumption DEF B
<1>2. Ceil(n) = (n + B - 1) \div B
  BY DEF Ceil, B
<1> QED
  BY <1>1, <1>2, DivMod, DataAssumption DEF B

LEMMA CeilGrows ==
  ASSUME NEW m \in Int, NEW n \in Int, m <= n
  PROVE  Ceil(m) <= Ceil(n)
<1>1. /\ Ceil(m) \in Int /\ B * Ceil(m) - B < m
      /\ Ceil(n) \in Int /\ n <= B * Ceil(n)
  BY CeilHas
<1>2. SUFFICES ASSUME Ceil(n) < Ceil(m)
               PROVE  FALSE
  BY <1>1
<1>3. B * Ceil(n) + B <= B * Ceil(m)
  BY <1>1, <1>2, Apart
<1>4. B * Ceil(n) \in Int /\ B * Ceil(m) \in Int /\ B \in Int
  BY <1>1, DataAssumption DEF B
<1> QED
  BY <1>1, <1>3, <1>4

LEMMA CeilNat ==
  ASSUME NEW n \in Nat
  PROVE  Ceil(n) \in Nat /\ (Ceil(n) = 0 <=> n = 0)
<1>1. Ceil(n) \in Int /\ B * Ceil(n) - B < n /\ n <= B * Ceil(n)
  BY CeilHas
<1>2. B \in Int /\ B > 0 /\ B * 0 = 0
  BY DataAssumption DEF B
<1>3. Ceil(0) = 0
  BY <1>2, CeilIs
<1>4. Ceil(n) >= 0
  BY <1>3, CeilGrows
<1> QED
  BY <1>1, <1>2, <1>3, <1>4
-----------------------------------------------------------------------------
Block == [Places -> Byte]

(* The offset in the file of place i of block k.                            *)
At(k, i) == B * (k - 1) + i

LEMMA BytesAndBlocks ==
  /\ B \in Nat /\ B > 0 /\ Places = 0 .. B - 1
  /\ 0 \in Byte /\ Values \subseteq Byte
  /\ ZeroBlock \in Block
BY DataAssumption DEF B, Places, Byte, ZeroBlock, Block

LEMMA AtProperties ==
  ASSUME NEW k \in Int, NEW i \in Places
  PROVE  /\ At(k, i) \in Int /\ B * k \in Int
         /\ B * k - B <= At(k, i) /\ At(k, i) < B * k
         /\ Start(At(k, i)) = k - 1 /\ Position(At(k, i)) = i
<1>1. i \in 0 .. B - 1 /\ B \in Nat
  BY BytesAndBlocks
<1>2. B * (k - 1) = B * k - B /\ B * k \in Int
  BY <1>1
<1>3. At(k, i) = B * k - B + i
  BY <1>2 DEF At
<1>4. (B * (k - 1) + i) \div B = k - 1 /\ (B * (k - 1) + i) % B = i
  BY <1>1, DivModUnique
<1>5. /\ Start(At(k, i)) = (B * (k - 1) + i) \div B
      /\ Position(At(k, i)) = (B * (k - 1) + i) % B
  BY DEF Start, Position, At, B
<1> QED
  BY <1>1, <1>2, <1>3, <1>4, <1>5

(* Every offset is in some block.                                           *)
LEMMA AtReached ==
  ASSUME NEW a \in Int
  PROVE  /\ Position(a) \in Places /\ Start(a) \in Int
         /\ At(Start(a) + 1, Position(a)) = a
<1>1. a \div B \in Int /\ a % B \in 0 .. B - 1 /\ a = B * (a \div B) + (a % B)
  BY DivMod
<1>2. Start(a) = a \div B /\ Position(a) = a % B
  BY DEF Start, Position, B
<1>3. (Start(a) + 1) - 1 = Start(a)
  BY <1>1, <1>2
<1> QED
  BY <1>1, <1>2, <1>3, BytesAndBlocks DEF At

(* The invariant that the results rest on: besides the types and the        *)
(* number of blocks, blocks and free blocks are no more than the disk has.  *)
DataInv ==
  /\ d_size \in Nat
  /\ free \in Nat
  /\ torn \in BOOLEAN
  /\ blocks \in Seq(Block)
  /\ Len(blocks) = Ceil(d_size)
  /\ free + Len(blocks) <= BLOCK_COUNT
  /\ ~torn => \A k \in 1 .. Len(blocks), i \in Places :
                At(k, i) >= d_size => blocks[k][i] = 0

LEMMA TruncateResult ==
  ASSUME DataInv, NEW size \in Nat, Truncate(size)
  PROVE  /\ d_size' = size
         /\ blocks' \in Seq(Block) /\ Len(blocks') = Ceil(size)
         /\ free' \in Nat /\ free' + Len(blocks') = free + Len(blocks)
         /\ \A k \in 1 .. Ceil(size), i \in Places :
              blocks'[k][i] =
                IF k <= Len(blocks) /\ (At(k, i) < size \/ size >= d_size)
                  THEN blocks[k][i] ELSE 0
<1> DEFINE more == Ceil(size) - Len(blocks)
           zeros == [k \in 1 .. more |-> ZeroBlock]
           kept == IF more > 0 THEN blocks \o zeros ELSE SubSeq(blocks, 1, Ceil(size))
<1>1. /\ d_size' = size
      /\ more <= free /\ free' = free - more
      /\ blocks' = Trimmed(kept, size)
  BY DEF Truncate, DataInv, BlockCount
<1>2. /\ d_size \in Nat /\ free \in Nat /\ blocks \in Seq(Block)
      /\ Len(blocks) = Ceil(d_size) /\ Len(blocks) \in Nat
      /\ Ceil(size) \in Nat
  BY CeilNat DEF DataInv
<1>3. /\ kept \in Seq(Block) /\ Len(kept) = Ceil(size)
      /\ \A k \in 1 .. Ceil(size) :
           kept[k] = IF k <= Len(blocks) THEN blocks[k] ELSE ZeroBlock
  <2>1. CASE more > 0
    <3>1. more \in Nat
      BY <1>2, <2>1
    <3>2. zeros \in Seq(Block) /\ Len(zeros) = more /\ \A k \in 1 .. more : zeros[k] = ZeroBlock
      <4> HIDE DEF more
      <4> QED
        BY <3>1, BytesAndBlocks
    <3> HIDE DEF zeros
    <3>3. /\ blocks \o zeros \in Seq(Block)
          /\ Len(blocks \o zeros) = Len(blocks) + Len(zeros)
          /\ \A k \in 1 .. Len(blocks) + Len(zeros) : (blocks \o zeros)[k] =
               IF k <= Len(blocks) THEN blocks[k] ELSE zeros[k - Len(blocks)]
      BY <1>2, <3>2, ConcatProperties
    <3>4. kept = blocks \o zeros /\ Len(blocks) + Len(zeros) = Ceil(size)
      BY SMTT(30), <1>2, <2>1, <3>2
    <3> HIDE DEF kept
    <3> QED
      BY <1>2, <3>1, <3>2, <3>3, <3>4
  <2>2. CASE ~(more > 0)
    <3>1. Ceil(size) \in 0 .. Len(blocks)
      BY <1>2, <2>2
    <3>2. \A k \in 1 .. Ceil(size) : blocks[k] \in Block
      BY <1>2, <3>1, ElementOfSeq
    <3>3. /\ SubSeq(blocks, 1, Ceil(size)) \in Seq(Block)
          /\ Len(SubSeq(blocks, 1, Ceil(size))) =
               IF 1 <= Ceil(size) THEN Ceil(size) - 1 + 1 ELSE 0
          /\ \A k \in 1 .. Ceil(size) - 1 + 1 :
               SubSeq(blocks, 1, Ceil(size))[k] = blocks[1 + k - 1]
      BY <1>2, <3>2, SubSeqProperties
    <3>4. kept = SubSeq(blocks, 1, Ceil(size))
      BY <2>2
    <3> HIDE DEF kept
    <3> QED
      BY <1>2, <3>1, <3>3, <3>4
  <2> QED
    BY <2>1, <2>2
<1> HIDE DEF kept
<1>4. free' \in Nat /\ free' + Ceil(size) = free + Len(blocks)
  BY <1>1, <1>2
<1>5. CASE size % BLOCK_BYTES # 0 /\ size < d_size
  <2>1. /\ B * Ceil(size) - B < size /\ size <= B * Ceil(size)
        /\ Ceil(size) <= Len(blocks) /\ Ceil(size) > 0
        /\ B * Ceil(size) \in Int /\ B \in Nat
    <3>1. size # 0
      <4>1. 0 % B = 0
        BY BytesAndBlocks
      <4> QED
        BY <1>5, <4>1 DEF B
    <3>2. Ceil(size) <= Ceil(d_size) /\ Ceil(size) > 0
      BY <1>2, <1>5, <3>1, CeilGrows, CeilNat
    <3>3. B * Ceil(size) - B < size /\ size <= B * Ceil(size)
      BY CeilHas
    <3>4. B * Ceil(size) \in Int /\ B \in Nat
      BY <1>2, BytesAndBlocks
    <3> QED
      BY <1>2, <3>2, <3>3, <3>4
  <2>2. PICK c \in 1 .. Len(blocks) : c = Ceil(size)
    BY <1>2, <2>1
  <2>3. PICK r \in 1 .. B - 1 : r = size % BLOCK_BYTES
    BY <1>5, DivMod, BytesAndBlocks DEF B
  <2>4. size = B * (c - 1) + r
    <3>0. Position(size) = r
      BY <2>3 DEF Position
    <3>1. Start(size) \in Int /\ At(Start(size) + 1, r) = size
      BY <3>0, AtReached
    <3>2. B * (Start(size) + 1) - B < size /\ size <= B * (Start(size) + 1)
      <4>1. PICK q \in Int : q = Start(size)
        BY <3>1
      <4>2. size = B * ((q + 1) - 1) + r /\ (q + 1) - 1 = q
        BY <3>1, <4>1 DEF At
      <4>3. B * q \in Int /\ B * (q + 1) = B * q + B /\ B \in Nat
        BY BytesAndBlocks
      <4>4. size = B * q + r
        BY <4>2
      <4>5. B * (q + 1) - B < size /\ size <= B * (q + 1)
        BY <2>3, <4>3, <4>4
      <4> QED
        BY <4>1, <4>5
    <3>3. c = Start(size) + 1
      BY <2>2, <3>1, <3>2, CeilIs
    <3> QED
      BY <3>1, <3>3 DEF At
  <2>5. /\ blocks' = [kept EXCEPT ![c] = Cut(kept[c], r)]
        /\ Cut(kept[c], r) \in Block
        /\ kept[c] = blocks[c]
    <3>1. kept[c] = blocks[c] /\ blocks[c] \in Block
      BY <1>2, <1>3, <2>2, ElementOfSeq
    <3>2. Cut(kept[c], r) \in Block
      BY <3>1, BytesAndBlocks DEF Cut, Block
    <3> QED
      BY <1>1, <1>5, <2>2, <2>3, <3>1, <3>2 DEF Trimmed
  <2>6. /\ blocks' \in Seq(Block) /\ Len(blocks') = Ceil(size)
        /\ \A k \in 1 .. Ceil(size) : blocks'[k] = IF k = c THEN Cut(kept[c], r) ELSE kept[k]
    BY <1>3, <2>2, <2>5, ExceptSeq
  <2>7. ASSUME NEW k \in 1 .. Ceil(size), NEW i \in Places
        PROVE  blocks'[k][i] = IF At(k, i) < size THEN blocks[k][i] ELSE 0
    <3>1. CASE k = c
      <4>1. blocks'[k][i] = IF i < r THEN blocks[k][i] ELSE 0
        BY <2>5, <2>6, <3>1 DEF Cut
      <4>2. At(k, i) < size <=> i < r
        <5>1. B * (c - 1) \in Int /\ i \in Int /\ At(k, i) = B * (c - 1) + i
          BY <3>1, BytesAndBlocks DEF At
        <5> QED
          BY <2>3, <2>4, <5>1
      <4> QED
        BY <4>1, <4>2
    <3>2. CASE k # c
      <4>1. blocks'[k] = blocks[k]
        BY SMTT(30), <1>2, <1>3, <2>1, <2>6, <3>2
      <4>2. B * k + B <= B * c
        BY <1>2, <2>2, <3>2, Apart
      <4>3. At(k, i) < B * k /\ B * k \in Int
        BY AtProperties, BytesAndBlocks
      <4>4. At(k, i) < size
        BY SMTT(30), <1>2, <2>1, <2>2, <4>2, <4>3, AtProperties
      <4> QED
        BY <4>1, <4>4
    <3> QED
      BY <3>1, <3>2
  <2>8. \A k \in 1 .. Ceil(size) : k <= Len(blocks)
    BY <1>2, <2>1
  <2> QED
    BY SMTT(30), <1>1, <1>2, <1>4, <1>5, <2>6, <2>7, <2>8
<1>6. CASE ~(size % BLOCK_BYTES # 0 /\ size < d_size)
  <2>1. blocks' = kept
    BY <1>1, <1>6 DEF Trimmed
  <2>2. ASSUME NEW k \in 1 .. Ceil(size), NEW i \in Places, k <= Len(blocks)
        PROVE  At(k, i) < size \/ size >= d_size
    <3>1. SUFFICES ASSUME size < d_size
                   PROVE  At(k, i) < size
      BY <1>2
    <3>2. size = B * Start(size) /\ Start(size) \in Int
      <4>1. size \div B \in Int /\ size = B * (size \div B) + (size % B)
        BY DivMod
      <4>2. size % B = 0
        BY <1>6, <3>1 DEF B
      <4>3. PICK q \in Int : q = size \div B
        BY <4>1
      <4>4. size = B * q + 0
        BY <4>1, <4>2, <4>3
      <4>5. size = B * q
        BY <4>4, BytesAndBlocks
      <4> QED
        BY <4>3, <4>5 DEF Start, B
    <3>3. Ceil(size) = Start(size)
      <4>1. PICK q \in Int : q = Start(size) /\ size = B * q
        BY <3>2
      <4>2. B * q - B < size /\ size <= B * q
        BY <4>1, BytesAndBlocks
      <4> QED
        BY <4>1, <4>2, CeilIs
    <3>4. At(k, i) < B * k /\ B * k \in Int /\ At(k, i) \in Int
      <4>1. k \in Int
        BY <1>2
      <4> QED
        BY <4>1, AtProperties
    <3>5. k = Ceil(size) \/ B * k + B <= B * Ceil(size)
      BY <1>2, Apart
    <3> QED
      BY <3>2, <3>3, <3>4, <3>5, BytesAndBlocks
  <2>3. \A i \in Places : ZeroBlock[i] = 0
    BY DEF ZeroBlock
  <2> QED
    BY <1>1, <1>2, <1>3, <1>4, <2>1, <2>2, <2>3
<1> QED
  BY <1>5, <1>6

-----------------------------------------------------------------------------
LEMMA DataProperties ==
  ASSUME NEW data \in Data
  PROVE  data \in Seq(Values) /\ Len(data) \in Nat \ {0}
<1>1. PICK n \in 1 .. MAX_WRITE : data \in [1 .. n -> Values]
  BY DEF Data
<1> QED
  BY <1>1, DataAssumption

(* Offset a starts d blocks after block s, at place i; the place inside the *)
(* first block of the write is p and it has len bytes.                      *)
LEMMA StrideArithmetic ==
  ASSUME NEW d \in Nat, NEW i \in 0 .. B - 1, NEW p \in 0 .. B - 1,
         NEW len \in Nat \ {0}, d > 0 => p = 0 \/ p + len <= B
  PROVE  /\ i >= p /\ d * (B - p) + i - p + 1 <= len
               <=> 0 <= B * d + i - p /\ B * d + i - p < len
         /\ i >= p /\ d * (B - p) + i - p + 1 <= len
               => d * (B - p) + i - p + 1 = B * d + i - p + 1
         /\ d * (B - p) \in Nat /\ B * d \in Nat
<1>0. B \in Nat /\ B > 0 /\ i \in Int /\ p \in Int /\ B - p \in Nat
  BY BytesAndBlocks
<1>1. CASE d = 0
  <2>1. d * (B - p) = 0 /\ B * d = 0
    BY <1>0, <1>1
  <2> QED
    BY <1>0, <2>1
<1>2. CASE d > 0 /\ p = 0
  <2>1. d * (B - p) = B * d /\ B * d \in Nat
    BY <1>0, <1>2
  <2> QED
    BY <1>0, <1>2, <2>1
<1>3. CASE d > 0 /\ p # 0
  <2>1. d * (B - p) \in Nat /\ d * (B - p) >= B - p
    BY <1>0, <1>3
  <2>2. B * d \in Nat /\ B * d >= B
    BY <1>0, <1>3
  <2>3. p + len <= B
    BY <1>3
  <2> QED
    BY <1>0, <2>1, <2>2, <2>3
<1> QED
  BY <1>1, <1>2, <1>3

(* A straight write puts its bytes into the existing blocks at the offsets  *)
(* it was given, and changes no other byte of them.                         *)
LEMMA OverwriteResult ==
  ASSUME DataInv, NEW offset \in Nat, NEW data \in Data, Straight(offset, data),
         NEW k \in 1 .. Len(blocks), NEW i \in Places
  PROVE  OverwrittenByte(blocks[k][i], offset, data, k, i) =
           IF offset <= At(k, i) /\ At(k, i) < offset + Len(data)
             THEN data[At(k, i) - offset + 1] ELSE blocks[k][i]
<1>1. /\ Position(offset) \in 0 .. B - 1 /\ Start(offset) \in Int
      /\ At(Start(offset) + 1, Position(offset)) = offset
  BY AtReached, BytesAndBlocks
<1>2. PICK s \in Int, p \in 0 .. B - 1 : s = Start(offset) /\ p = Position(offset)
  BY <1>1
<1>3. PICK len \in Nat \ {0} : len = Len(data)
  BY DataProperties
<1>4. /\ Len(blocks) \in Nat /\ BlockCount = Len(blocks)
      /\ k \in Int /\ i \in 0 .. B - 1
      /\ B \in Nat /\ B > 0
  BY CeilNat, BytesAndBlocks DEF DataInv, BlockCount
<1>5. offset = B * s + p /\ B * s \in Int
  <2>1. offset = B * ((s + 1) - 1) + p /\ (s + 1) - 1 = s
    BY <1>1, <1>2 DEF At
  <2> QED
    BY <1>4, <2>1
<1>6. At(k, i) = B * (k - 1) + i /\ At(k, i) \in Int
  BY <1>4, AtProperties DEF At
<1>7. OverwrittenByte(blocks[k][i], offset, data, k, i) =
        IF k > s /\ i >= p /\ (k - s - 1) * (B - p) + i - p + 1 <= len
          THEN data[(k - s - 1) * (B - p) + i - p + 1] ELSE blocks[k][i]
  BY <1>2, <1>3 DEF OverwrittenByte, Stride, B
<1>8. CASE k <= s
  <2>1. k = s \/ B * k + B <= B * s
    BY <1>4, <1>8, Apart
  <2>2. At(k, i) < B * k /\ B * k \in Int
    BY <1>4, AtProperties
  <2>3. At(k, i) < offset
    BY <1>4, <1>5, <1>6, <2>1, <2>2
  <2> QED
    BY <1>4, <1>6, <1>7, <1>8, <2>3
<1>9. CASE k > s
  <2>1. PICK d \in Nat : d = k - s - 1
    BY <1>4, <1>9
  <2>2. d > 0 => p = 0 \/ p + len <= B
    <3>1. d > 0 => s < BlockCount - 1
      BY <1>4, <2>1
    <3> QED
      BY <1>2, <1>3, <3>1 DEF Straight, B
  <2>3. /\ i >= p /\ d * (B - p) + i - p + 1 <= len
               <=> 0 <= B * d + i - p /\ B * d + i - p < len
        /\ i >= p /\ d * (B - p) + i - p + 1 <= len
               => d * (B - p) + i - p + 1 = B * d + i - p + 1
        /\ d * (B - p) \in Nat /\ B * d \in Nat
    BY <1>4, <2>2, StrideArithmetic
  <2>4. At(k, i) - offset = B * d + i - p
    <3>1. k - 1 = s + d
      BY <1>4, <2>1
    <3>2. B * (s + d) = B * s + B * d
      BY <1>4
    <3>3. At(k, i) = B * s + B * d + i
      BY <1>6, <3>1, <3>2
    <3> QED
      BY <1>4, <1>5, <2>3, <3>3
  <2>5. /\ offset <= At(k, i) <=> 0 <= B * d + i - p
        /\ At(k, i) < offset + Len(data) <=> B * d + i - p < len
        /\ At(k, i) - offset + 1 = B * d + i - p + 1
    BY <1>3, <1>4, <1>6, <2>3, <2>4
  <2>6. OverwrittenByte(blocks[k][i], offset, data, k, i) =
          IF i >= p /\ d * (B - p) + i - p + 1 <= len
            THEN data[d * (B - p) + i - p + 1] ELSE blocks[k][i]
    BY <1>7, <1>9, <2>1
  <2> QED
    BY <2>3, <2>5, <2>6
<1> QED
  BY <1>4, <1>8, <1>9

LEMMA OverwrittenResult ==
  ASSUME DataInv, NEW offset \in Nat, NEW data \in Data, Straight(offset, data)
  PROVE  /\ Overwritten(offset, data) \in Seq(Block)
         /\ Len(Overwritten(offset, data)) = Len(blocks)
         /\ \A k \in 1 .. Len(blocks), i \in Places :
              Overwritten(offset, data)[k][i] =
                IF offset <= At(k, i) /\ At(k, i) < offset + Len(data)
                  THEN data[At(k, i) - offset + 1] ELSE blocks[k][i]
<1> DEFINE Over(k) == [i \in Places |-> OverwrittenByte(blocks[k][i], offset, data, k, i)]
<1>1. Len(blocks) \in Nat /\ blocks \in Seq(Block)
  BY DEF DataInv
<1>2. ASSUME NEW k \in 1 .. Len(blocks), NEW i \in Places
      PROVE  OverwrittenByte(blocks[k][i], offset, data, k, i) \in Byte
  <2>1. blocks[k] \in Block /\ blocks[k][i] \in Byte
    BY <1>1, ElementOfSeq DEF Block
  <2>2. OverwrittenByte(blocks[k][i], offset, data, k, i) =
           IF offset <= At(k, i) /\ At(k, i) < offset + Len(data)
             THEN data[At(k, i) - offset + 1] ELSE blocks[k][i]
    BY OverwriteResult
  <2>3. ASSUME offset <= At(k, i), At(k, i) < offset + Len(data)
        PROVE  data[At(k, i) - offset + 1] \in Byte
    <3>1. At(k, i) \in Int
      BY <1>1, AtProperties
    <3>2. At(k, i) - offset + 1 \in 1 .. Len(data)
      BY <2>3, <3>1, DataProperties
    <3>3. data[At(k, i) - offset + 1] \in Values
      BY <3>2, DataProperties, ElementOfSeq
    <3> QED
      BY <3>3, BytesAndBlocks
  <2> QED
    BY <2>1, <2>2, <2>3
<1>3. \A k \in 1 .. Len(blocks) : Over(k) \in Block
  BY <1>2 DEF Block
<1>4. Overwritten(offset, data) = [k \in 1 .. Len(blocks) |-> Over(k)]
  BY DEF Overwritten
<1>5. /\ \A k \in 1 .. Len(blocks), i \in Places :
           Over(k)[i] = OverwrittenByte(blocks[k][i], offset, data, k, i)
  OBVIOUS
<1> HIDE DEF Over
<1>6. /\ Overwritten(offset, data) \in Seq(Block)
      /\ Len(Overwritten(offset, data)) = Len(blocks)
      /\ \A k \in 1 .. Len(blocks) : Overwritten(offset, data)[k] = Over(k)
  BY <1>1, <1>3, <1>4
<1> QED
  BY <1>5, <1>6, OverwriteResult

(* What a straight write leaves for new blocks is the end of its data, and  *)
(* goes right behind the blocks that the file has.                          *)
LEMMA RestResult ==
  ASSUME DataInv, NEW offset \in Nat, NEW data \in Data, Straight(offset, data),
         NEW STATE rest, rest = Rest(offset, data)
  PROVE  /\ rest \in Seq(Values) /\ Len(rest) \in Nat
         /\ \A x \in 1 .. Len(rest) :
              /\ Len(data) - Len(rest) + x \in 1 .. Len(data)
              /\ rest[x] = data[Len(data) - Len(rest) + x]
         /\ Len(rest) > 0 => offset + Len(data) = B * Len(blocks) + Len(rest)
         /\ Len(rest) = 0 => offset + Len(data) <= B * Len(blocks)
         /\ Lost(offset) = 0
<1>1. /\ Position(offset) \in 0 .. B - 1 /\ Start(offset) \in Int
      /\ At(Start(offset) + 1, Position(offset)) = offset
  BY AtReached, BytesAndBlocks
<1>2. PICK s \in Int, p \in 0 .. B - 1 : s = Start(offset) /\ p = Position(offset)
  BY <1>1
<1>3. PICK len \in Nat \ {0} : len = Len(data)
  BY DataProperties
<1>4. PICK n \in Nat : n = Len(blocks) /\ n = BlockCount
  BY CeilNat DEF DataInv, BlockCount
<1>5. B \in Nat /\ B > 0
  BY BytesAndBlocks
<1>6. offset = B * s + p /\ B * s \in Int /\ B * n \in Int
  <2>1. offset = B * ((s + 1) - 1) + p /\ (s + 1) - 1 = s
    BY <1>1, <1>2 DEF At
  <2> QED
    BY <1>5, <2>1
<1>7. /\ s <= n
      /\ s = n => p = 0
      /\ s < n - 1 => p = 0 \/ p + len <= B
  BY <1>2, <1>3, <1>4 DEF Straight, B
<1>8. PICK m : m = Existing(offset) * Stride(offset)
  OBVIOUS
<1>9. m = (IF s < n THEN n - s ELSE 0) * (B - p)
  BY <1>2, <1>4, <1>8 DEF Existing, Stride, B
<1>10. /\ m \in Nat
       /\ m < len => offset + len = B * n + (len - m)
       /\ m >= len => offset + len <= B * n
  <2>1. CASE s = n
    <3>1. m = 0 /\ offset = B * n
      BY <1>5, <1>6, <1>7, <1>9, <2>1
    <3> QED
      BY <1>6, <3>1
  <2>2. CASE s = n - 1
    <3>1. m = B - p
      BY <1>5, <1>9, <2>2
    <3>2. B * s = B * n - B
      BY <1>5, <2>2
    <3> QED
      BY <1>5, <1>6, <3>1, <3>2
  <2>3. CASE s < n - 1 /\ p = 0
    <3>1. m = B * n - B * s
      <4>1. m = (n - s) * B
        BY <1>5, <1>9, <2>3
      <4> QED
        BY <1>5, <4>1
    <3>2. B * s + B <= B * n
      BY <2>3, Apart
    <3> QED
      BY <1>5, <1>6, <2>3, <3>1, <3>2
  <2>4. CASE s < n - 1 /\ p # 0
    <3>1. m = (n - s) * (B - p) /\ B - p >= len /\ B - p \in Nat
      BY <1>5, <1>7, <1>9, <2>4
    <3>2. m \in Nat /\ m >= len
      BY <2>4, <3>1
    <3>3. B * s + B <= B * n
      BY <2>4, Apart
    <3> QED
      BY <1>5, <1>6, <3>1, <3>2, <3>3
  <2> QED
    BY <1>7, <2>1, <2>2, <2>3, <2>4
<1>11. rest = SubSeq(data, m + 1, len)
  BY <1>3, <1>8 DEF Rest
<1>12. \A x \in m + 1 .. len : data[x] \in Values
  <2>1. \A x \in 1 .. Len(data) : data[x] \in Values
    BY DataProperties, ElementOfSeq
  <2> QED
    BY <1>3, <1>10, <2>1
<1>13. PICK lo \in Int : lo = m + 1
  BY <1>10
<1>14. /\ rest \in Seq(Values)
       /\ Len(rest) = IF lo <= len THEN len - lo + 1 ELSE 0
       /\ \A x \in 1 .. len - lo + 1 : rest[x] = data[lo + x - 1]
  BY <1>11, <1>12, <1>13, SubSeqProperties
<1>15. Len(rest) = IF m < len THEN len - m ELSE 0
  BY <1>10, <1>13, <1>14
<1>16. ASSUME NEW x \in 1 .. Len(rest)
       PROVE  /\ len - Len(rest) + x \in 1 .. len
              /\ rest[x] = data[len - Len(rest) + x]
  <2>1. m < len /\ Len(rest) = len - m
    BY <1>10, <1>15
  <2>2. PICK y \in Int : y = lo + x - 1
    BY <1>13, <2>1
  <2>3. x \in 1 .. len - lo + 1 /\ y = len - Len(rest) + x /\ y \in 1 .. len
    BY <1>10, <1>13, <2>1, <2>2
  <2>4. rest[x] = data[y]
    BY <1>14, <2>2, <2>3
  <2> QED
    BY <2>3, <2>4
<1>17. Lost(offset) = 0
  <2>1. ASSUME n = 0
        PROVE  p = 0
    <3>1. s >= 0
      <4>1. s < 0 => B * s + B <= B * 0
        BY Apart
      <4> QED
        BY <1>5, <1>6, <4>1
    <3> QED
      BY <1>7, <2>1, <3>1
  <2>2. ~(Extends(offset) /\ BlockCount = 0)
    BY <1>2, <1>4, <2>1 DEF Extends, DataInv
  <2> QED
    BY <2>2 DEF Lost
<1>18. Len(rest) \in Nat
  BY <1>3, <1>10, <1>15
<1>19. /\ Len(rest) > 0 => offset + len = B * n + Len(rest)
       /\ Len(rest) = 0 => offset + len <= B * n
  BY <1>3, <1>10, <1>15
<1> QED
  BY <1>3, <1>4, <1>14, <1>16, <1>17, <1>18, <1>19

(* The new blocks hold the rest of the data, and zeros behind it.           *)
LEMMA NewBlocksResult ==
  ASSUME NEW rest \in Seq(Values), NEW new, new = NewBlocks(rest)
  PROVE  /\ new \in Seq(Block) /\ Len(new) = Ceil(Len(rest))
         /\ \A c \in 1 .. Len(new), i \in Places :
              new[c][i] = IF At(c, i) < Len(rest) THEN rest[At(c, i) + 1] ELSE 0
<1>1. Len(rest) \in Nat /\ Ceil(Len(rest)) \in Nat
  BY CeilNat
<1>2. PICK count \in Nat : count = Ceil(Len(rest))
  BY <1>1
<1>3. new = [c \in 1 .. count |-> NewBlock(rest, c - 1)]
  BY <1>2 DEF NewBlocks
<1>4. ASSUME NEW c \in 1 .. count, NEW i \in Places
      PROVE  /\ At(c, i) \in Nat
             /\ NewBlock(rest, c - 1)[i] =
                  IF At(c, i) < Len(rest) THEN rest[At(c, i) + 1] ELSE 0
  <2>1. i \in 0 .. B - 1 /\ c - 1 \in Nat /\ B \in Nat
    BY <1>2, BytesAndBlocks
  <2>2. PICK q \in Nat : q = c - 1
    BY <2>1
  <2>3. q * BLOCK_BYTES + i = At(c, i) /\ At(c, i) \in Nat
    <3>1. q * BLOCK_BYTES = B * q /\ B * q \in Nat
      BY <2>1 DEF B
    <3> QED
      BY <2>1, <2>2, <3>1 DEF At
  <2> QED
    BY <2>2, <2>3 DEF NewBlock
<1>5. ASSUME NEW c \in 1 .. count
      PROVE  NewBlock(rest, c - 1) \in Block
  <2>1. ASSUME NEW i \in Places
        PROVE  NewBlock(rest, c - 1)[i] \in Byte
    <3>1. CASE At(c, i) < Len(rest)
      <4>1. At(c, i) + 1 \in 1 .. Len(rest)
        BY <1>1, <1>4, <3>1
      <4>2. rest[At(c, i) + 1] \in Values
        BY <4>1, ElementOfSeq
      <4> QED
        BY <1>4, <3>1, <4>2, BytesAndBlocks
    <3>2. CASE ~(At(c, i) < Len(rest))
      BY <1>4, <3>2, BytesAndBlocks
    <3> QED
      BY <3>1, <3>2
  <2> QED
    BY <2>1 DEF NewBlock, Block
<1>6. new \in Seq(Block) /\ Len(new) = count
  BY <1>2, <1>3, <1>5
<1> QED
  BY <1>2, <1>3, <1>4, <1>6

(* The blocks after a write that found the blocks it needed.                *)
LEMMA WriteResult ==
  ASSUME DataInv, NEW offset \in Nat, NEW data \in Data, Straight(offset, data),
         WriteFile(offset, data)
  PROVE  /\ d_size' = WrittenSize(offset + Len(data))
         /\ UNCHANGED torn
         /\ blocks' \in Seq(Block) /\ Len(blocks') = Ceil(d_size')
         /\ free' \in Nat /\ free' + Len(blocks') = free + Len(blocks)
         /\ Len(blocks) <= Len(blocks')
         /\ \A k \in 1 .. Len(blocks'), i \in Places :
              blocks'[k][i] =
                IF offset <= At(k, i) /\ At(k, i) < offset + Len(data)
                  THEN data[At(k, i) - offset + 1]
                  ELSE IF k <= Len(blocks) THEN blocks[k][i] ELSE 0
<1>1. PICK rest : rest = Rest(offset, data)
  OBVIOUS
<1>2. PICK new : new = NewBlocks(rest)
  OBVIOUS
<1>3. PICK over : over = Overwritten(offset, data)
  OBVIOUS
<1>4. /\ rest \in Seq(Values) /\ Len(rest) \in Nat
      /\ \A x \in 1 .. Len(rest) :
           /\ Len(data) - Len(rest) + x \in 1 .. Len(data)
           /\ rest[x] = data[Len(data) - Len(rest) + x]
      /\ Len(rest) > 0 => offset + Len(data) = B * Len(blocks) + Len(rest)
      /\ Len(rest) = 0 => offset + Len(data) <= B * Len(blocks)
      /\ Lost(offset) = 0
  BY <1>1, RestResult
<1>5. /\ new \in Seq(Block) /\ Len(new) = Ceil(Len(rest)) /\ Len(new) \in Nat
      /\ \A c \in 1 .. Len(new), i \in Places :
           new[c][i] = IF At(c, i) < Len(rest) THEN rest[At(c, i) + 1] ELSE 0
  BY <1>2, <1>4, NewBlocksResult
<1>6. /\ over \in Seq(Block) /\ Len(over) = Len(blocks)
      /\ \A k \in 1 .. Len(blocks), i \in Places :
           over[k][i] =
             IF offset <= At(k, i) /\ At(k, i) < offset + Len(data)
               THEN data[At(k, i) - offset + 1] ELSE blocks[k][i]
  BY <1>3, OverwrittenResult
<1>7. /\ d_size' = WrittenSize(offset + Len(data))
      /\ Len(new) <= free /\ free' = free - Len(new)
      /\ blocks' = over \o new
      /\ UNCHANGED torn
  BY <1>1, <1>2, <1>3, <1>4, <1>5 DEF WriteFile
<1>8. /\ d_size \in Nat /\ free \in Nat /\ Len(blocks) = Ceil(d_size)
      /\ B \in Nat /\ B > 0
  BY BytesAndBlocks DEF DataInv
<1>9. PICK len \in Nat \ {0} : len = Len(data)
  BY DataProperties
<1>10. PICK n \in Nat : n = Len(blocks)
  BY <1>8, CeilNat
<1>11. B * n \in Nat /\ d_size <= B * n /\ B * n - B < d_size
  <2>1. B * Ceil(d_size) - B < d_size /\ d_size <= B * Ceil(d_size)
    BY <1>8, CeilHas
  <2>2. Ceil(d_size) = n
    BY <1>8, <1>10
  <2> QED
    BY <1>8, <2>1, <2>2
<1>12. PICK r \in Nat : r = Len(rest)
  BY <1>4
<1>13. PICK nn \in Nat : nn = Len(new)
  BY <1>5
<1>14. blocks' \in Seq(Block) /\ Len(blocks') = n + nn
  <2>1. over \o new \in Seq(Block) /\ Len(over \o new) = Len(over) + Len(new)
    BY <1>5, <1>6, ConcatProperties
  <2> QED
    BY <1>6, <1>7, <1>10, <1>13, <2>1
<1>15. Ceil(d_size') = n + nn
  <2>0. PICK target \in Nat, size \in Nat, bn \in Nat :
          /\ target = offset + len /\ size = d_size' /\ bn = B * n
          /\ size = IF target > d_size THEN target ELSE d_size
    <3>1. d_size' = IF offset + len > d_size THEN offset + len ELSE d_size
      BY <1>7, <1>9 DEF WrittenSize
    <3> QED
      BY <1>8, <1>11, <3>1
  <2>1. CASE r = 0
    <3>1. nn = 0
      BY <1>5, <1>12, <1>13, <2>1, CeilNat
    <3>2. target <= bn
      BY <1>4, <1>9, <1>10, <1>12, <2>0, <2>1
    <3>3. B * n - B < size /\ size <= B * n
      BY <1>8, <1>11, <2>0, <3>2
    <3>4. Ceil(size) = n
      BY <3>3, CeilIs
    <3> QED
      BY <2>0, <3>1, <3>4
  <2>2. CASE r > 0
    <3>1. size = B * n + r
      <4>1. target = bn + r
        BY <1>4, <1>9, <1>10, <1>12, <2>0, <2>2
      <4> QED
        BY <1>8, <1>11, <2>0, <2>2, <4>1
    <3>2. B * nn - B < r /\ r <= B * nn /\ B * nn \in Nat
      <4>1. B * Ceil(r) - B < r /\ r <= B * Ceil(r)
        BY CeilHas
      <4>2. Ceil(r) = nn
        BY <1>5, <1>12, <1>13
      <4> QED
        BY <1>8, <4>1, <4>2
    <3>3. B * (n + nn) = B * n + B * nn
      BY <1>8
    <3>4. B * (n + nn) - B < size /\ size <= B * (n + nn)
      <4>1. PICK all \in Int, bm \in Nat, bs \in Nat :
              all = B * (n + nn) /\ bm = B * nn /\ bs = B
        BY <1>8
      <4>2. all = bn + bm /\ size = bn + r /\ bm - bs < r /\ r <= bm
        BY <2>0, <3>1, <3>2, <3>3, <4>1
      <4>3. all - bs < size /\ size <= all
        BY <4>2
      <4> QED
        BY <4>1, <4>3
    <3>5. Ceil(size) = n + nn
      BY <3>4, CeilIs
    <3> QED
      BY <2>0, <3>5
  <2> QED
    BY <2>1, <2>2
<1>16. ASSUME NEW k \in 1 .. n + nn, NEW i \in Places
       PROVE  blocks'[k][i] =
                IF offset <= At(k, i) /\ At(k, i) < offset + len
                  THEN data[At(k, i) - offset + 1]
                  ELSE IF k <= n THEN blocks[k][i] ELSE 0
  <2>1. CASE k <= n
    <3>1. blocks'[k] = over[k]
      BY <1>5, <1>6, <1>7, <1>10, <1>13, <2>1, ConcatProperties
    <3> QED
      BY <1>6, <1>9, <1>10, <2>1, <3>1
  <2>2. CASE k > n
    <3>1. PICK c \in 1 .. nn : c = k - n
      BY <2>2
    <3>2. blocks'[k] = new[c]
      BY SMTT(30), <1>5, <1>6, <1>7, <1>10, <1>13, <2>2, <3>1, ConcatProperties
    <3>3. r > 0
      BY <1>5, <1>12, <1>13, <3>1, CeilNat
    <3>4. offset + len = B * n + r
      BY <1>4, <1>9, <1>10, <1>12, <3>3
    <3>5. PICK a \in Nat : a = At(c, i)
      <4>1. i \in 0 .. B - 1 /\ c - 1 \in Nat
        BY BytesAndBlocks
      <4>2. B * (c - 1) \in Nat
        BY <1>8, <4>1
      <4> QED
        BY <4>1, <4>2 DEF At
    <3>6. At(k, i) = B * n + a
      <4>1. k - 1 = n + (c - 1) /\ c - 1 \in Int /\ i \in Int
        BY <3>1, BytesAndBlocks
      <4>2. PICK q \in Int : q = c - 1
        BY <4>1
      <4>3. B * (n + q) = B * n + B * q /\ B * q \in Int
        BY <1>8
      <4>4. At(k, i) = B * (n + q) + i /\ a = B * q + i
        BY <3>5, <4>1, <4>2 DEF At
      <4> QED
        BY <1>11, <4>1, <4>3, <4>4
    <3>7. At(k, i) < offset + len <=> a < r
      BY <1>11, <1>12, <3>4, <3>5, <3>6
    <3>8. ASSUME a < r
          PROVE  /\ offset <= At(k, i)
                 /\ rest[a + 1] = data[At(k, i) - offset + 1]
      <4>1. a + 1 \in 1 .. r
        BY <3>8
      <4>2. /\ len - r + (a + 1) \in 1 .. len
            /\ rest[a + 1] = data[len - r + (a + 1)]
        BY <1>4, <1>9, <1>12, <4>1
      <4>3. At(k, i) - offset + 1 = len - r + (a + 1)
        BY <1>11, <3>4, <3>6
      <4> QED
        BY <1>11, <3>6, <4>2, <4>3
    <3>9. new[c][i] = IF a < r THEN rest[a + 1] ELSE 0
      BY <1>5, <1>12, <1>13, <3>5
    <3> QED
      BY <2>2, <3>2, <3>7, <3>8, <3>9
  <2> QED
    BY <2>1, <2>2
<1>17. free' \in Nat /\ free' + (n + nn) = free + n /\ n <= n + nn
  BY <1>7, <1>8, <1>13
<1> QED
  BY <1>7, <1>9, <1>10, <1>14, <1>15, <1>16, <1>17
(* A write that fails has written what the existing blocks take, and has    *)
(* taken every free block.                                                  *)
LEMMA WriteFailsResult ==
  ASSUME DataInv, NEW offset \in Nat, NEW data \in Data, Straight(offset, data),
         WriteFails(offset, data)
  PROVE  /\ torn' = TRUE /\ free' = 0
         /\ d_size' = d_size \/ (d_size' = offset /\ offset > d_size)
         /\ d_size' \in Nat /\ Ceil(d_size') = Len(blocks)
         /\ offset + Len(data) > B * Len(blocks)
         /\ blocks' = Overwritten(offset, data)
<1>1. PICK rest : rest = Rest(offset, data)
  OBVIOUS
<1>2. /\ rest \in Seq(Values) /\ Len(rest) \in Nat
      /\ Len(rest) > 0 => offset + Len(data) = B * Len(blocks) + Len(rest)
      /\ Lost(offset) = 0
  BY <1>1, RestResult
<1>3. d_size \in Nat /\ free \in Nat /\ Len(blocks) = Ceil(d_size) /\ Len(blocks) \in Nat
  BY CeilNat DEF DataInv
<1>4. Len(rest) > 0
  <2>1. Ceil(Len(rest)) > 0
    BY <1>1, <1>2, <1>3, CeilNat DEF WriteFails
  <2> QED
    BY <1>2, <2>1, CeilNat
<1>5. offset + Len(data) > B * Len(blocks)
  BY <1>2, <1>3, <1>4, BytesAndBlocks
<1>6. /\ torn' = TRUE /\ free' = 0
      /\ blocks' = Overwritten(offset, data) \o [k \in 1 .. Lost(offset) |-> ZeroBlock]
      /\ d_size' = IF Extends(offset) THEN Position(offset) ELSE d_size
  BY <1>2, <1>3 DEF WriteFails
<1>7. PICK over : over = Overwritten(offset, data) /\ over \in Seq(Block)
  BY OverwrittenResult
<1>8. blocks' = over
  <2>1. blocks' = over \o [k \in 1 .. 0 |-> ZeroBlock]
    BY <1>2, <1>6, <1>7
  <2>2. [k \in 1 .. 0 |-> ZeroBlock] = <<>>
    OBVIOUS
  <2>3. over \o <<>> = over
    BY <1>7, ConcatEmptySeq
  <2> QED
    BY <2>1, <2>2, <2>3
<1>9. /\ d_size' = d_size \/ (d_size' = offset /\ offset > d_size)
      /\ d_size' \in Nat /\ Ceil(d_size') = Len(blocks)
  <2>1. CASE Extends(offset)
    <3>1. PICK p \in 0 .. B - 1 : p = Position(offset)
      BY AtReached, BytesAndBlocks
    <3>2. p > d_size
      BY <2>1, <3>1 DEF Extends
    <3>3. BlockCount # 0
      BY <1>2, <2>1 DEF Lost
    <3>4. PICK n \in Nat \ {0} : n = Ceil(d_size)
      BY <1>3, <3>3 DEF BlockCount
    <3>5. B * n - B < d_size /\ d_size <= B * n /\ B \in Nat
      <4>1. B * Ceil(d_size) - B < d_size /\ d_size <= B * Ceil(d_size)
        BY <1>3, CeilHas
      <4> QED
        BY <3>4, <4>1, BytesAndBlocks
    <3>6. n = 1
      <4>1. n # 1 => B * 1 + B <= B * n
        BY Apart
      <4> QED
        BY <1>3, <3>1, <3>2, <3>5, <4>1
    <3>7. B * 1 - B < p /\ p <= B * 1
      BY <1>3, <3>1, <3>2, <3>5
    <3>8. Ceil(p) = 1
      BY <3>7, CeilIs
    <3>9. offset = p
      <4>1. PICK q \in Int : q = Start(offset) /\ At(q + 1, p) = offset
        BY <3>1, AtReached
      <4>2. q <= 1 /\ q # 1
        BY <1>3, <3>1, <3>2, <3>4, <3>6, <4>1 DEF Straight, BlockCount
      <4>3. offset = B * q + p /\ B * q \in Int
        <5>1. (q + 1) - 1 = q
          OBVIOUS
        <5> QED
          BY <3>5, <4>1, <5>1 DEF At
      <4>4. q < 0 => B * q + B <= B * 0
        BY Apart
      <4>5. q = 0
        BY <3>5, <4>2, <4>3, <4>4
      <4> QED
        BY <3>5, <4>3, <4>5
    <3> QED
      BY <1>3, <1>6, <2>1, <3>1, <3>2, <3>4, <3>6, <3>8, <3>9
  <2>2. CASE ~Extends(offset)
    BY <1>3, <1>6, <2>2
  <2> QED
    BY <2>1, <2>2
<1> QED
  BY <1>5, <1>6, <1>7, <1>8, <1>9

LEMMA TruncateFailsResult ==
  ASSUME DataInv, NEW size \in Nat, TruncateFails(size)
  PROVE  UNCHANGED <<d_size, blocks, torn>> /\ free' = 0
BY DEF TruncateFails
-----------------------------------------------------------------------------
LEMMA InitData == Init => DataInv
<1> SUFFICES ASSUME Init
             PROVE  DataInv
  OBVIOUS
<1>1. Ceil(0) = 0
  BY CeilNat
<1>2. d_size = 0 /\ blocks = <<>> /\ free = BLOCK_COUNT /\ torn = FALSE
  BY DEF Init
<1>3. blocks \in Seq(Block) /\ Len(blocks) = 0
  BY <1>2
<1>4. free \in Nat /\ free + Len(blocks) <= BLOCK_COUNT
  BY <1>2, <1>3, DataAssumption
<1>5. \A k \in 1 .. Len(blocks), i \in Places : At(k, i) >= d_size => blocks[k][i] = 0
  BY <1>3
<1> QED
  BY <1>1, <1>2, <1>3, <1>4, <1>5 DEF DataInv

LEMMA TruncateKeepsData ==
  ASSUME DataInv, NEW size \in Nat, Truncate(size)
  PROVE  DataInv'
<1>1. /\ d_size' = size
      /\ blocks' \in Seq(Block) /\ Len(blocks') = Ceil(size)
      /\ free' \in Nat /\ free' + Len(blocks') = free + Len(blocks)
      /\ \A k \in 1 .. Ceil(size), i \in Places :
           blocks'[k][i] =
             IF k <= Len(blocks) /\ (At(k, i) < size \/ size >= d_size)
               THEN blocks[k][i] ELSE 0
  BY TruncateResult
<1>2. UNCHANGED torn
  BY DEF Truncate
<1>3. ASSUME ~torn', NEW k \in 1 .. Len(blocks'), NEW i \in Places, At(k, i) >= d_size'
      PROVE  blocks'[k][i] = 0
  <2>1. CASE k <= Len(blocks) /\ size >= d_size
    <3>1. k \in 1 .. Len(blocks) /\ At(k, i) >= d_size
      <4>1. At(k, i) \in Int
        BY <1>1, CeilNat, AtProperties
      <4> QED
        BY <1>1, <1>3, <2>1, <4>1, CeilNat DEF DataInv
    <3> QED
      BY <1>1, <1>2, <1>3, <2>1, <3>1 DEF DataInv
  <2>2. CASE ~(k <= Len(blocks) /\ size >= d_size)
    <3>1. ~(At(k, i) < size)
      <4>1. At(k, i) \in Int
        BY <1>1, CeilNat, AtProperties
      <4> QED
        BY <1>1, <1>3, <4>1
    <3> QED
      BY <1>1, <2>2, <3>1
  <2> QED
    BY <2>1, <2>2
<1>4. \A k \in 1 .. Len(blocks'), i \in Places : ~torn' /\ At(k, i) >= d_size' => blocks'[k][i] = 0
  BY <1>3
<1> QED
  BY <1>1, <1>2, <1>4 DEF DataInv, At, B

LEMMA WriteKeepsData ==
  ASSUME DataInv, NEW offset \in Nat, NEW data \in Data, Straight(offset, data),
         WriteFile(offset, data)
  PROVE  DataInv'
<1>1. /\ d_size' = WrittenSize(offset + Len(data))
      /\ UNCHANGED torn
      /\ blocks' \in Seq(Block) /\ Len(blocks') = Ceil(d_size')
      /\ free' \in Nat /\ free' + Len(blocks') = free + Len(blocks)
      /\ Len(blocks) <= Len(blocks')
      /\ \A k \in 1 .. Len(blocks'), i \in Places :
           blocks'[k][i] =
             IF offset <= At(k, i) /\ At(k, i) < offset + Len(data)
               THEN data[At(k, i) - offset + 1]
               ELSE IF k <= Len(blocks) THEN blocks[k][i] ELSE 0
  BY WriteResult
<1>2. PICK target \in Nat : target = offset + Len(data)
  BY DataProperties
<1>3. /\ d_size' = IF target > d_size THEN target ELSE d_size
      /\ d_size \in Nat /\ d_size' \in Nat
  BY <1>1, <1>2 DEF DataInv, WrittenSize
<1>4. ASSUME ~torn', NEW k \in 1 .. Len(blocks'), NEW i \in Places, At(k, i) >= d_size'
      PROVE  blocks'[k][i] = 0
  <2>1. At(k, i) \in Int
    BY <1>1, AtProperties
  <2>2. At(k, i) >= d_size /\ ~(At(k, i) < offset + Len(data))
    BY <1>2, <1>3, <1>4, <2>1
  <2>3. k <= Len(blocks) => k \in 1 .. Len(blocks)
    BY <1>1 DEF DataInv
  <2> QED
    BY <1>1, <1>4, <2>2, <2>3 DEF DataInv
<1>5. \A k \in 1 .. Len(blocks'), i \in Places : ~torn' /\ At(k, i) >= d_size' => blocks'[k][i] = 0
  BY <1>4
<1> QED
  BY <1>1, <1>3, <1>5 DEF DataInv, At, B

LEMMA WriteFailsKeepsData ==
  ASSUME DataInv, NEW offset \in Nat, NEW data \in Data, Straight(offset, data),
         WriteFails(offset, data)
  PROVE  DataInv'
<1>1. /\ torn' = TRUE /\ free' = 0
      /\ d_size' \in Nat /\ Ceil(d_size') = Len(blocks)
      /\ blocks' = Overwritten(offset, data)
  BY WriteFailsResult
<1>2. blocks' \in Seq(Block) /\ Len(blocks') = Len(blocks)
  BY <1>1, OverwrittenResult
<1>3. free' \in Nat /\ free' + Len(blocks') <= BLOCK_COUNT
  BY <1>1, <1>2, DataAssumption DEF DataInv
<1> QED
  BY <1>1, <1>2, <1>3 DEF DataInv

LEMMA StraightStepKeepsData == DataInv /\ [StraightNext]_vars => DataInv'
<1> SUFFICES ASSUME DataInv, [StraightNext]_vars
             PROVE  DataInv'
  OBVIOUS
<1>0. Offsets \subseteq Nat
  BY DEF Offsets
<1>1. ASSUME NEW size \in Offsets, Truncate(size)
      PROVE  DataInv'
  BY <1>0, <1>1, TruncateKeepsData
<1>2. ASSUME NEW size \in Offsets, TruncateFails(size)
      PROVE  DataInv'
  <2>1. UNCHANGED <<d_size, blocks, torn>> /\ free' = 0
    BY <1>2 DEF TruncateFails
  <2>2. free' \in Nat /\ free' + Len(blocks') <= BLOCK_COUNT
    BY <2>1, DataAssumption DEF DataInv
  <2> QED
    BY <2>1, <2>2 DEF DataInv, At, B
<1>3. ASSUME NEW offset \in Offsets, NEW data \in Data, Straight(offset, data),
             WriteFile(offset, data)
      PROVE  DataInv'
  BY <1>0, <1>3, WriteKeepsData
<1>4. ASSUME NEW offset \in Offsets, NEW data \in Data, Straight(offset, data),
             WriteFails(offset, data)
      PROVE  DataInv'
  BY <1>0, <1>4, WriteFailsKeepsData
<1>5. CASE UNCHANGED vars
  BY <1>5 DEF DataInv, vars
<1> QED
  BY <1>1, <1>2, <1>3, <1>4, <1>5 DEF StraightNext, Resize, Write

THEOREM DataInvariance == StraightSpec => []DataInv
<1> QED
  BY InitData, StraightStepKeepsData, PTL DEF StraightSpec
(* write_file and truncate keep the types, fail or succeed.                 *)
THEOREM TypeCorrect == StraightSpec => []TypeOK
<1>1. DataInv => TypeOK
  <2>1. DataInv => free \in 0 .. BLOCK_COUNT
    BY DataAssumption, CeilNat DEF DataInv
  <2> QED
    BY <2>1 DEF DataInv, TypeOK, Block
<1> QED
  BY <1>1, DataInvariance, PTL

(* write_file and truncate leave the inode as many blocks as the size       *)
(* needs, also when they run out of blocks half-way.                        *)
THEOREM SizeCorrect == StraightSpec => []SizeMatchesBlocks
<1>1. DataInv => SizeMatchesBlocks
  BY DEF DataInv, SizeMatchesBlocks, BlockCount
<1> QED
  BY <1>1, DataInvariance, PTL

(* truncate trims and write_file pads: unless a write failed, the bytes of  *)
(* the last block behind the end are zero.                                  *)
THEOREM TailCorrect == StraightSpec => []TailIsZero
<1>1. ASSUME DataInv, ~torn, NEW n \in d_size .. BlockCount * BLOCK_BYTES - 1
      PROVE  blocks[Len(blocks)][Position(n)] = 0
  <2>1. PICK c \in Nat, size \in Nat : c = Len(blocks) /\ size = d_size /\ c = Ceil(size)
    BY <1>1, CeilNat DEF DataInv
  <2>2. PICK bn \in Int : bn = B * c
    BY BytesAndBlocks
  <2>3. bn - B < size /\ size <= n /\ n < bn /\ n \in Int /\ B \in Nat
    <3>1. B * Ceil(size) - B < size
      BY CeilHas
    <3>2. BlockCount * BLOCK_BYTES = bn
      <4>1. BlockCount = c
        BY <2>1 DEF BlockCount
      <4> QED
        BY <2>2, <4>1, BytesAndBlocks DEF B
    <3> QED
      BY <2>1, <2>2, <3>1, <3>2, BytesAndBlocks
  <2>4. PICK k \in Int, i \in Places : k = Start(n) + 1 /\ i = Position(n) /\ At(k, i) = n
    BY <2>3, AtReached
  <2>5. B * k - B <= n /\ n < B * k /\ B * k \in Int
    BY <2>4, AtProperties
  <2>6. k = c
    <3>1. k < c => B * k + B <= B * c
      BY Apart
    <3>2. c < k => B * c + B <= B * k
      BY Apart
    <3> QED
      BY <2>2, <2>3, <2>5, <3>1, <3>2
  <2>7. c > 0
    BY <2>1, <2>2, <2>3, BytesAndBlocks
  <2> QED
    BY <1>1, <2>1, <2>3, <2>4, <2>6, <2>7 DEF DataInv
<1>2. DataInv => TailIsZero
  BY <1>1 DEF TailIsZero
<1> QED
  BY <1>2, DataInvariance, PTL-----------------------------------------------------------------------------
(* The bytes of a file that has the blocks its size needs.                  *)
BytesOf(bs, size) ==
  [n \in 1 .. size |->
     IF Start(n - 1) < Len(bs) THEN bs[Start(n - 1) + 1][Position(n - 1)] ELSE -1]

Lists(bytes, bs, size) ==
  /\ bytes \in Seq(Byte) /\ Len(bytes) = size
  /\ \A n \in 1 .. size : \E k \in 1 .. Len(bs), i \in Places :
       At(k, i) = n - 1 /\ bytes[n] = bs[k][i]
  /\ \A k \in 1 .. Len(bs), i \in Places :
       At(k, i) < size => At(k, i) + 1 \in 1 .. size /\ bytes[At(k, i) + 1] = bs[k][i]

LEMMA BytesOfResult ==
  ASSUME NEW bs \in Seq(Block), NEW size \in Nat, Len(bs) = Ceil(size)
  PROVE  Lists(BytesOf(bs, size), bs, size)
<1>0. PICK bytes : bytes = BytesOf(bs, size)
  OBVIOUS
<1>1. PICK c \in Nat : c = Len(bs)
  BY CeilNat
<1>2. /\ B * c - B < size /\ size <= B * c /\ B * c \in Int /\ B \in Nat /\ B > 0
  <2>1. B * Ceil(size) - B < size /\ size <= B * Ceil(size)
    BY CeilHas
  <2> QED
    BY <1>1, <2>1, BytesAndBlocks
<1>3. ASSUME NEW n \in 1 .. size
      PROVE  \E k \in 1 .. c, i \in Places :
               At(k, i) = n - 1 /\ bytes[n] = bs[k][i] /\ bs[k][i] \in Byte
  <2>1. PICK a \in Nat : a = n - 1
    OBVIOUS
  <2>2. PICK k \in Int, i \in Places : k = Start(a) + 1 /\ i = Position(a) /\ At(k, i) = a
    <3>1. a \in Int
      OBVIOUS
    <3>2. Position(a) \in Places /\ Start(a) \in Int /\ At(Start(a) + 1, Position(a)) = a
      BY <3>1, AtReached
    <3> QED
      BY <3>2
  <2>3. B * k - B <= a /\ a < B * k /\ B * k \in Int
    BY <2>2, AtProperties
  <2>4. k <= c
    <3>1. c < k => B * c + B <= B * k
      BY Apart
    <3> QED
      BY <1>2, <2>1, <2>3, <3>1
  <2>5. k >= 1
    <3>1. k < 1 => B * k + B <= B * 1
      BY Apart
    <3> QED
      BY <1>2, <2>1, <2>3, <3>1
  <2>6. k \in 1 .. c
    BY <2>4, <2>5
  <2>7. bytes[n] = bs[k][i]
    <3>1. Start(a) < Len(bs)
      BY <1>1, <2>2, <2>4, AtReached
    <3> QED
      BY <1>0, <2>1, <2>2, <3>1 DEF BytesOf
  <2>8. bs[k][i] \in Byte
    BY <1>1, <2>6, ElementOfSeq DEF Block
  <2> QED
    BY <2>1, <2>2, <2>6, <2>7, <2>8
<1>4. bytes \in Seq(Byte) /\ Len(bytes) = size
  <2>1. \A n \in 1 .. size : bytes[n] \in Byte
    BY <1>3
  <2>2. bytes = [n \in 1 .. size |-> bytes[n]]
    BY <1>0 DEF BytesOf
  <2> QED
    BY <2>1, <2>2
<1>5. ASSUME NEW k \in 1 .. c, NEW i \in Places, At(k, i) < size
      PROVE  At(k, i) + 1 \in 1 .. size /\ bytes[At(k, i) + 1] = bs[k][i]
  <2>1. PICK a \in Nat : a = At(k, i)
    <3>1. B * (k - 1) \in Nat /\ i \in Nat
      BY <1>2, BytesAndBlocks
    <3> QED
      BY <3>1 DEF At
  <2>2. Start(a) = k - 1 /\ Position(a) = i
    BY <2>1, AtProperties
  <2>3. PICK n \in 1 .. size : n = a + 1
    BY <1>5, <2>1
  <2>4. n - 1 = a /\ k - 1 < Len(bs) /\ (k - 1) + 1 = k
    BY <1>1, <2>3
  <2>5. bytes[n] = IF Start(n - 1) < Len(bs) THEN bs[Start(n - 1) + 1][Position(n - 1)] ELSE -1
    BY <1>0 DEF BytesOf
  <2> QED
    BY <2>1, <2>2, <2>3, <2>4, <2>5
<1> QED
  BY <1>0, <1>1, <1>3, <1>4, <1>5 DEF Lists

LEMMA ContentResult ==
  ASSUME DataInv
  PROVE  Lists(Content, blocks, d_size)
<1>1. blocks \in Seq(Block) /\ d_size \in Nat /\ Len(blocks) = Ceil(d_size)
  BY DEF DataInv
<1>2. Content = BytesOf(blocks, d_size)
  BY DEF Content, BytesOf
<1>3. Lists(BytesOf(blocks, d_size), blocks, d_size)
  BY <1>1, BytesOfResult
<1> QED
  BY <1>2, <1>3

LEMMA NextContentResult ==
  ASSUME DataInv'
  PROVE  Lists(Content', blocks', d_size')
<1>1. blocks' \in Seq(Block) /\ d_size' \in Nat /\ Len(blocks') = Ceil(d_size')
  BY DEF DataInv
<1>2. Content' = BytesOf(blocks', d_size')
  BY DEF Content, BytesOf
<1>3. Lists(BytesOf(blocks', d_size'), blocks', d_size')
  BY <1>1, BytesOfResult
<1> QED
  BY <1>2, <1>3

(* A call leaves the bytes alone that it does not write: what FileBytes     *)
(* calls KeptOutside.                                                       *)
LEMMA KeptResult ==
  ASSUME DataInv, DataInv', NEW W \in SUBSET Int,
         \A k \in 1 .. Len(blocks'), i \in Places :
           At(k, i) < d_size' /\ At(k, i) \notin W =>
             blocks'[k][i] = IF k <= Len(blocks) THEN blocks[k][i] ELSE 0
  PROVE  /\ Len(Content') = d_size'
         /\ \A n \in 1 .. d_size' :
              n - 1 \notin W =>
                IF n <= Len(Content) THEN Content'[n] = Content[n]
                ELSE Content'[n] = 0 \/ torn
<1>1. PICK content : content = Content
  OBVIOUS
<1>2. PICK after : after = Content'
  OBVIOUS
<1>3. PICK bs \in Seq(Block), size \in Nat : bs = blocks' /\ size = d_size'
  BY DEF DataInv
<1>4. /\ Len(after) = size
      /\ \A n \in 1 .. size : \E k \in 1 .. Len(bs), i \in Places :
           At(k, i) = n - 1 /\ after[n] = bs[k][i]
  BY <1>2, <1>3, NextContentResult DEF Lists
<1>5. /\ Len(content) = d_size
      /\ \A n \in 1 .. d_size : \E k \in 1 .. Len(blocks), i \in Places :
           At(k, i) = n - 1 /\ content[n] = blocks[k][i]
  BY <1>1, ContentResult DEF Lists
<1>6. ASSUME NEW n \in 1 .. size, n - 1 \notin W
      PROVE  IF n <= d_size THEN after[n] = content[n] ELSE after[n] = 0 \/ torn
  <2>1. PICK k \in 1 .. Len(bs), i \in Places : At(k, i) = n - 1 /\ after[n] = bs[k][i]
    BY <1>4
  <2>2. bs[k][i] = IF k <= Len(blocks) THEN blocks[k][i] ELSE 0
    BY <1>3, <1>6, <2>1
  <2>3. ASSUME n <= d_size
        PROVE  after[n] = content[n]
    <3>1. n \in 1 .. d_size
      BY <2>3 DEF DataInv
    <3>2. PICK kk \in 1 .. Len(blocks), ii \in Places :
            At(kk, ii) = n - 1 /\ content[n] = blocks[kk][ii]
      BY <1>5, <3>1
    <3>3. k = kk /\ i = ii
      <4>1. k \in Int /\ kk \in Int
        OBVIOUS
      <4>2. k - 1 = kk - 1 /\ i = ii
        BY <2>1, <3>2, <4>1, AtProperties
      <4> QED
        BY <4>1, <4>2
    <3> QED
      BY <2>1, <2>2, <3>2, <3>3
  <2>4. ASSUME ~(n <= d_size), ~torn
        PROVE  after[n] = 0
    <3>1. At(k, i) >= d_size
      BY <2>1, <2>4 DEF DataInv
    <3>2. k <= Len(blocks) => blocks[k][i] = 0
      <4>1. k <= Len(blocks) => k \in 1 .. Len(blocks)
        BY DEF DataInv
      <4> QED
        BY <2>4, <3>1, <4>1 DEF DataInv
    <3> QED
      BY <2>1, <2>2, <3>2
  <2> QED
    BY <2>3, <2>4
<1> QED
  BY <1>1, <1>2, <1>3, <1>4, <1>5, <1>6

LEMMA TruncateIsExact ==
  ASSUME DataInv, NEW size \in Nat, Truncate(size)
  PROVE  Bytes!Truncate(size)
<1>1. DataInv'
  BY TruncateKeepsData
<1>2. /\ d_size' = size /\ Len(blocks') = Ceil(size)
      /\ \A k \in 1 .. Ceil(size), i \in Places :
           blocks'[k][i] =
             IF k <= Len(blocks) /\ (At(k, i) < size \/ size >= d_size)
               THEN blocks[k][i] ELSE 0
  BY TruncateResult
<1>3. PICK W \in SUBSET Int : W = {}
  OBVIOUS
<1>4. /\ Len(Content') = d_size'
      /\ \A n \in 1 .. d_size' :
           n - 1 \notin W =>
             IF n <= Len(Content) THEN Content'[n] = Content[n]
             ELSE Content'[n] = 0 \/ torn
  BY <1>1, <1>2, KeptResult
<1>5. UNCHANGED torn
  BY DEF Truncate
<1> QED
  BY <1>2, <1>3, <1>4, <1>5 DEF Bytes!Truncate, Bytes!KeptOutside
LEMMA WriteIsExact ==
  ASSUME DataInv, NEW offset \in Nat, NEW data \in Data, Straight(offset, data),
         WriteFile(offset, data)
  PROVE  Bytes!Write(offset, data)
<1>1. DataInv'
  BY WriteKeepsData
<1>2. /\ d_size' = WrittenSize(offset + Len(data))
      /\ UNCHANGED torn
      /\ \A k \in 1 .. Len(blocks'), i \in Places :
           blocks'[k][i] =
             IF offset <= At(k, i) /\ At(k, i) < offset + Len(data)
               THEN data[At(k, i) - offset + 1]
               ELSE IF k <= Len(blocks) THEN blocks[k][i] ELSE 0
  BY WriteResult
<1>3. PICK len \in Nat : len = Len(data)
  BY DataProperties
<1>4. PICK W \in SUBSET Int : W = offset .. offset + len - 1
  OBVIOUS
<1>5. ASSUME NEW k \in 1 .. Len(blocks'), NEW i \in Places
      PROVE  At(k, i) \in Int /\ (At(k, i) \in W <=> offset <= At(k, i) /\ At(k, i) < offset + len)
  <2>1. At(k, i) \in Int
    BY AtProperties
  <2> QED
    BY <1>4, <2>1
<1>6. /\ Len(Content') = d_size'
      /\ \A n \in 1 .. d_size' :
           n - 1 \notin W =>
             IF n <= Len(Content) THEN Content'[n] = Content[n]
             ELSE Content'[n] = 0 \/ torn
  <2>1. \A k \in 1 .. Len(blocks'), i \in Places :
          At(k, i) < d_size' /\ At(k, i) \notin W =>
            blocks'[k][i] = IF k <= Len(blocks) THEN blocks[k][i] ELSE 0
    BY <1>2, <1>3, <1>5
  <2> QED
    BY <1>1, <2>1, KeptResult
<1>7. d_size' = Bytes!Larger(Len(Content), offset + Len(data)) /\ Len(Content) = d_size
  <2>1. Len(Content) = d_size
    BY ContentResult DEF Lists
  <2> QED
    BY <1>2, <1>3, <2>1 DEF DataInv, WrittenSize, Bytes!Larger
<1>8. ASSUME NEW n \in 1 .. d_size', n \in offset + 1 .. offset + len
      PROVE  Content'[n] = data[n - offset]
  <2>1. PICK k \in 1 .. Len(blocks'), i \in Places :
          At(k, i) = n - 1 /\ Content'[n] = blocks'[k][i]
    BY <1>1, NextContentResult DEF Lists
  <2>2. At(k, i) \in W
    BY <1>4, <1>8, <2>1
  <2>3. blocks'[k][i] = data[At(k, i) - offset + 1]
    BY <1>2, <1>3, <1>5, <2>2
  <2>4. At(k, i) - offset + 1 = n - offset
    BY <1>8, <2>1
  <2> QED
    BY <2>1, <2>3, <2>4
<1>9. ASSUME NEW n \in 1 .. d_size', n \notin offset + 1 .. offset + len
      PROVE  n - 1 \notin W
  <2>1. n \in Int
    OBVIOUS
  <2> QED
    BY <1>4, <1>9, <2>1
<1>10. Bytes!Replaced(offset, data, d_size')
  <2>1. Bytes!KeptOutside(offset + 1 .. offset + Len(data), d_size')
    BY <1>3, <1>6, <1>9 DEF Bytes!KeptOutside
  <2> QED
    BY <1>3, <1>8, <2>1 DEF Bytes!Replaced
<1> QED
  BY <1>2, <1>7, <1>10 DEF Bytes!Write

LEMMA WriteFailsIsExact ==
  ASSUME DataInv, NEW offset \in Nat, NEW data \in Data, Straight(offset, data),
         WriteFails(offset, data)
  PROVE  Bytes!WriteFails(offset, data)
<1>1. DataInv'
  BY WriteFailsKeepsData
<1>2. /\ torn' = TRUE
      /\ d_size' = d_size \/ (d_size' = offset /\ offset > d_size)
      /\ d_size' \in Nat /\ d_size \in Nat
      /\ blocks' = Overwritten(offset, data)
  BY WriteFailsResult DEF DataInv
<1>3. /\ Len(blocks') = Len(blocks)
      /\ \A k \in 1 .. Len(blocks), i \in Places :
           blocks'[k][i] =
             IF offset <= At(k, i) /\ At(k, i) < offset + Len(data)
               THEN data[At(k, i) - offset + 1] ELSE blocks[k][i]
  BY <1>2, OverwrittenResult
<1>4. PICK len \in Nat : len = Len(data)
  BY DataProperties
<1>5. PICK W \in SUBSET Int : W = offset .. offset + len - 1
  OBVIOUS
<1>6. ASSUME NEW k \in 1 .. Len(blocks'), NEW i \in Places
      PROVE  At(k, i) \in Int /\ (At(k, i) \in W <=> offset <= At(k, i) /\ At(k, i) < offset + len)
  <2>1. At(k, i) \in Int
    BY AtProperties
  <2> QED
    BY <1>5, <2>1
<1>7. /\ Len(Content') = d_size'
      /\ \A n \in 1 .. d_size' :
           n - 1 \notin W =>
             IF n <= Len(Content) THEN Content'[n] = Content[n]
             ELSE Content'[n] = 0 \/ torn
  <2>1. \A k \in 1 .. Len(blocks'), i \in Places :
          At(k, i) < d_size' /\ At(k, i) \notin W =>
            blocks'[k][i] = IF k <= Len(blocks) THEN blocks[k][i] ELSE 0
    BY <1>3, <1>4, <1>6 DEF DataInv
  <2> QED
    BY <1>1, <2>1, KeptResult
<1>8. d_size' \in {Len(Content), Bytes!Larger(Len(Content), offset)}
  <2>1. Len(Content) = d_size
    BY ContentResult DEF Lists
  <2> QED
    BY <1>2, <2>1 DEF Bytes!Larger
<1>9. ASSUME NEW n \in 1 .. d_size', n \in offset + 1 .. offset + len
      PROVE  Content'[n] = data[n - offset]
  <2>1. PICK k \in 1 .. Len(blocks'), i \in Places :
          At(k, i) = n - 1 /\ Content'[n] = blocks'[k][i]
    BY <1>1, NextContentResult DEF Lists
  <2>2. At(k, i) \in W
    BY <1>5, <1>9, <2>1
  <2>3. blocks'[k][i] = data[At(k, i) - offset + 1]
    BY <1>3, <1>4, <1>6, <2>2
  <2>4. At(k, i) - offset + 1 = n - offset
    BY <1>9, <2>1
  <2> QED
    BY <2>1, <2>3, <2>4
<1>10. ASSUME NEW n \in 1 .. d_size', n \notin offset + 1 .. offset + len
       PROVE  n - 1 \notin W
  <2>1. n \in Int
    OBVIOUS
  <2> QED
    BY <1>5, <1>10, <2>1
<1>11. Bytes!Replaced(offset, data, d_size')
  <2>1. Bytes!KeptOutside(offset + 1 .. offset + Len(data), d_size')
    BY <1>4, <1>7, <1>10 DEF Bytes!KeptOutside
  <2> QED
    BY <1>4, <1>9, <2>1 DEF Bytes!Replaced
<1> QED
  BY <1>2, <1>8, <1>11 DEF Bytes!WriteFails

(* For a write that is straight and for a truncation, done or failed, the   *)
(* bytes of the file change as a sequence of bytes changes by that call.    *)
THEOREM CallsCorrect == StraightSpec => CallsAreExact
<1>1. ASSUME DataInv
      PROVE  /\ \A offset \in Offsets, data \in Data :
                  /\ WriteFile(offset, data) /\ Straight(offset, data)
                       => Bytes!Write(offset, data)
                  /\ WriteFails(offset, data) /\ Straight(offset, data)
                       => Bytes!WriteFails(offset, data)
             /\ \A size \in Offsets :
                  /\ Truncate(size) => Bytes!Truncate(size)
                  /\ TruncateFails(size) => UNCHANGED Bytes!bytesVars
  <2>1. Offsets \subseteq Nat
    BY DEF Offsets
  <2>2. ASSUME NEW size \in Offsets, TruncateFails(size)
        PROVE  UNCHANGED Bytes!bytesVars
    BY <2>2 DEF TruncateFails, Bytes!bytesVars, Content
  <2> QED
    BY <1>1, <2>1, <2>2, TruncateIsExact, WriteIsExact, WriteFailsIsExact
<1> QED
  BY <1>1, DataInvariance, PTL DEF CallsAreExact-----------------------------------------------------------------------------
(* Blocks that are joined: each byte is where its offset says.              *)
JoinOf(s, rows, k) ==
  /\ s \in Seq(Byte) /\ Len(s) = B * k
  /\ \A c \in 1 .. k, i \in Places : s[At(c, i) + 1] = rows[c][i + 1]

LEMMA FlattenResult ==
  ASSUME NEW rows \in Seq(Seq(Byte)), \A c \in 1 .. Len(rows) : Len(rows[c]) = B
  PROVE  JoinOf(FlattenSeq(rows), rows, Len(rows))
<1>0. PICK m \in Nat : m = Len(rows)
  OBVIOUS
<1>a. PICK bytes : bytes = FlattenSeq(rows)
  OBVIOUS
<1> DEFINE Good(k) == JoinOf(Joined(rows)[k], rows, k)
<1>1. \A k \in 1 .. m : Joined(rows)[k] =
        IF k = 1 THEN rows[k] ELSE Joined(rows)[k - 1] \o rows[k]
  <2>1. Joins(Joined(rows), rows, Len(rows))
    BY JoinedDefined
  <2> QED
    BY <1>0, <2>1 DEF Joins
<1>2. \A k \in 1 .. m : rows[k] \in Seq(Byte) /\ Len(rows[k]) = B
  BY <1>0, <1>a, ElementOfSeq
<1>3. B \in Nat /\ B > 0 /\ Places = 0 .. B - 1
  BY BytesAndBlocks
<1>4. ASSUME 1 \in 1 .. m
      PROVE  Good(1)
  <2>1. Joined(rows)[1] = rows[1] /\ rows[1] \in Seq(Byte) /\ Len(rows[1]) = B * 1
    BY <1>1, <1>2, <1>3, <1>4
  <2>2. ASSUME NEW c \in 1 .. 1, NEW i \in Places
        PROVE  At(c, i) = i /\ c = 1
    <3>1. c - 1 = 0 /\ c = 1
      OBVIOUS
    <3>2. B * 0 + i = i
      BY <1>3
    <3> QED
      BY <3>1, <3>2 DEF At
  <2> QED
    BY <2>1, <2>2 DEF JoinOf
<1>5. ASSUME NEW k \in 2 .. m, Good(k - 1)
      PROVE  Good(k)
  <2>0. k \in 1 .. m /\ k # 1 /\ k \in Int
    OBVIOUS
  <2>1. PICK p \in Seq(Byte), q \in Seq(Byte) : p = Joined(rows)[k - 1] /\ q = rows[k]
    <3>1. rows[k] \in Seq(Byte)
      BY <1>2, <2>0
    <3> QED
      BY <1>5, <3>1 DEF JoinOf
  <2>2. PICK bk \in Int : bk = B * (k - 1) /\ B * k = bk + B /\ bk \in Nat
    BY <1>3
  <2>3. Len(p) = bk /\ Len(q) = B
    BY <1>2, <1>5, <2>0, <2>1, <2>2 DEF JoinOf
  <2>4. PICK j : j = Joined(rows)[k] /\ j = p \o q
    <3>1. Joined(rows)[k] = p \o q
      BY <1>1, <2>0, <2>1
    <3> QED
      BY <3>1
  <2>5. /\ j \in Seq(Byte) /\ Len(j) = bk + B
        /\ \A x \in 1 .. bk + B : j[x] = IF x <= bk THEN p[x] ELSE q[x - bk]
    <3>1. /\ p \o q \in Seq(Byte) /\ Len(p \o q) = Len(p) + Len(q)
          /\ \A x \in 1 .. Len(p) + Len(q) :
               (p \o q)[x] = IF x <= Len(p) THEN p[x] ELSE q[x - Len(p)]
      BY ConcatProperties
    <3> QED
      BY <2>3, <2>4, <3>1
  <2>6. ASSUME NEW c \in 1 .. k, NEW i \in Places
        PROVE  j[At(c, i) + 1] = rows[c][i + 1]
    <3>0. /\ At(c, i) \in Int /\ B * c \in Int
          /\ B * c - B <= At(c, i) /\ At(c, i) < B * c
      BY AtProperties
    <3>1. CASE c = k
      <4>1. At(c, i) = bk + i
        BY <2>2, <3>1 DEF At
      <4>2. i \in Nat /\ i < B /\ bk \in Nat
        BY <1>3, <2>2
      <4>3. PICK x \in Int : x = bk + i + 1
        BY <4>2
      <4>4. x \in 1 .. bk + B /\ ~(x <= bk) /\ x - bk = i + 1
        BY <1>3, <4>2, <4>3
      <4>5. j[x] = q[i + 1]
        BY <2>5, <4>4
      <4>6. At(c, i) + 1 = x
        BY <4>1, <4>2, <4>3
      <4> QED
        BY <2>1, <3>1, <4>5, <4>6
    <3>2. CASE c # k
      <4>1. c \in 1 .. k - 1
        BY <3>2
      <4>2. p[At(c, i) + 1] = rows[c][i + 1]
        BY <1>5, <2>1, <4>1 DEF JoinOf
      <4>3. B * c <= bk
        <5>1. c = k - 1 \/ B * c + B <= B * (k - 1)
          BY <4>1, Apart
        <5> QED
          BY <1>3, <2>2, <3>0, <5>1
      <4>4. B * c - B >= 0
        <5>1. 0 < c
          OBVIOUS
        <5>2. B * 0 + B <= B * c
          BY <5>1, Apart
        <5> QED
          BY <1>3, <3>0, <5>2
      <4>5. PICK x \in 1 .. bk : x = At(c, i) + 1
        <5>1. PICK a \in Int, bc \in Int : a = At(c, i) /\ bc = B * c
          BY <3>0
        <5>2. 0 <= a /\ a < bk
          <6>1. bc - B <= a /\ a < bc /\ bc <= bk /\ bc - B >= 0
            BY <3>0, <4>3, <4>4, <5>1
          <6>2. B \in Int /\ bk \in Int
            BY <1>3
          <6> QED
            BY <6>1, <6>2
        <5>3. a + 1 \in 1 .. bk
          BY <5>2
        <5> QED
          BY <5>1, <5>3
      <4>6. j[x] = p[x]
        BY SMTT(30), <1>3, <2>2, <2>5
      <4> QED
        BY <4>2, <4>5, <4>6
    <3> QED
      BY <3>1, <3>2
  <2>7. j \in Seq(Byte) /\ Len(j) = B * k
    BY <2>2, <2>5
  <2>8. JoinOf(j, rows, k)
    BY <2>6, <2>7 DEF JoinOf
  <2> QED
    BY <2>4, <2>8
<1> HIDE DEF Good
<1>6. \A k \in 1 .. m : Good(k)
  <2> DEFINE Bad == {k \in 1 .. m : ~Good(k)}
  <2>1. SUFFICES ASSUME Bad # {}
                 PROVE  FALSE
    OBVIOUS
  <2>2. PICK k \in Bad : \A l \in Bad : k <= l
    <3>1. Bad \subseteq Nat
      OBVIOUS
    <3> HIDE DEF Bad
    <3> QED
      BY <2>1, <3>1, LeastNumber
  <2>3. k \in 1 .. m /\ ~Good(k)
    OBVIOUS
  <2>4. k # 1
    BY <1>4, <2>3
  <2>5. k \in 2 .. m /\ k - 1 \in 1 .. m /\ k - 1 \notin Bad
    <3>1. k \in 2 .. m /\ k - 1 \in 1 .. m
      BY <2>3, <2>4
    <3> HIDE DEF Bad
    <3> QED
      BY <2>2, <3>1
  <2>6. Good(k - 1)
    BY <2>5
  <2> QED
    BY <1>5, <2>3, <2>5, <2>6
<1>7. CASE m = 0
  <2>1. rows = <<>>
    BY <1>0, <1>a, <1>7, EmptySeq
  <2>2. bytes = rows
    <3>1. FlattenSeq(rows) = IF Len(rows) = 0 THEN rows ELSE Joined(rows)[Len(rows)]
      BY FlattenIsJoined
    <3> QED
      BY <1>0, <1>a, <1>7, <3>1
  <2>3. B * Len(rows) = 0
    BY <1>0, <1>a, <1>3, <1>7
  <2>4. bytes \in Seq(Byte) /\ Len(bytes) = 0
    BY <2>1, <2>2, EmptySeq
  <2> QED
    BY <1>0, <1>a, <1>7, <2>3, <2>4 DEF JoinOf
<1>8. CASE m > 0
  <2>1. FlattenSeq(rows) = Joined(rows)[m] /\ m \in 1 .. m
    BY <1>0, <1>a, <1>8, FlattenIsJoined
  <2> QED
    BY <1>0, <1>a, <1>6, <2>1 DEF Good
<1> QED
  BY <1>0, <1>a, <1>7, <1>8
(* Parts of two sequences that have the same elements, or none.             *)
Matches(u, la, ha, v, lb, hb) ==
  /\ u \in Seq(Byte) /\ la \in Nat \ {0} /\ ha \in Int /\ ha <= Len(u)
  /\ v \in Seq(Byte) /\ lb \in Nat \ {0} /\ hb \in Int /\ hb <= Len(v)
  /\ ha - la = hb - lb
  /\ \A y \in 1 .. ha - la + 1 : u[la + y - 1] = v[lb + y - 1]

LEMMA SamePart ==
  ASSUME NEW u, NEW la \in Int, NEW ha \in Int, NEW v, NEW lb \in Int, NEW hb \in Int,
         Matches(u, la, ha, v, lb, hb)
  PROVE  SubSeq(u, la, ha) = SubSeq(v, lb, hb)
<1> USE DEF Matches
<1>1. PICK x, z : x = SubSeq(u, la, ha) /\ z = SubSeq(v, lb, hb)
  OBVIOUS
<1>2. \A i \in la .. ha : u[i] \in Byte
  <2>1. \A i \in la .. ha : i \in 1 .. Len(u)
    OBVIOUS
  <2> QED
    BY <2>1, ElementOfSeq
<1>3. \A i \in lb .. hb : v[i] \in Byte
  <2>1. \A i \in lb .. hb : i \in 1 .. Len(v)
    OBVIOUS
  <2> QED
    BY <2>1, ElementOfSeq
<1>4. /\ x \in Seq(Byte) /\ Len(x) = IF la <= ha THEN ha - la + 1 ELSE 0
      /\ \A i \in 1 .. ha - la + 1 : x[i] = u[la + i - 1]
  BY <1>1, <1>2, SubSeqProperties
<1>5. /\ z \in Seq(Byte) /\ Len(z) = IF lb <= hb THEN hb - lb + 1 ELSE 0
      /\ \A i \in 1 .. hb - lb + 1 : z[i] = v[lb + i - 1]
  BY <1>1, <1>3, SubSeqProperties
<1>6. Len(x) = Len(z)
  BY <1>4, <1>5
<1>7. ASSUME NEW i \in 1 .. Len(x)
      PROVE  x[i] = z[i]
  <2>1. i \in 1 .. ha - la + 1 /\ i \in 1 .. hb - lb + 1
    BY <1>4
  <2> QED
    BY <1>4, <1>5, <2>1
<1>8. x = z
  BY <1>4, <1>5, <1>6, <1>7, SeqEqual
<1> QED
  BY <1>1, <1>8

LEMMA FunctionIsSeq ==
  ASSUME NEW m \in Nat, NEW T, NEW f \in [1 .. m -> T]
  PROVE  f \in Seq(T) /\ Len(f) = m
OBVIOUS

(* Joined, the blocks from some block on are the bytes of the file from     *)
(* there, and what the last block has behind the end.                       *)
PartOf(bytes, bs, s) ==
  /\ bytes \in Seq(Byte)
  /\ s < Len(bs) =>
       /\ Len(bytes) = B * Len(bs) - B * s
       /\ \A k \in s + 1 .. Len(bs), i \in Places : bytes[At(k - s, i) + 1] = bs[k][i]

LEMMA FromResult ==
  ASSUME DataInv, NEW s \in Nat, NEW from, NEW rows, NEW bytes,
         from = SubSeq(blocks, s + 1, BlockCount),
         rows = [k \in 1 .. Len(from) |-> [i \in 1 .. BLOCK_BYTES |-> from[k][i - 1]]],
         bytes = FlattenSeq(rows)
  PROVE  PartOf(bytes, blocks, s)
<1>1. PICK c \in Nat, bs \in Seq(Block) : bs = blocks /\ c = Len(bs) /\ c = BlockCount
  <2>1. blocks \in Seq(Block) /\ Len(blocks) = BlockCount /\ BlockCount \in Nat
    BY CeilNat DEF DataInv, BlockCount
  <2> QED
    BY <2>1
<1>2. PICK lo \in Int : lo = s + 1
  OBVIOUS
<1>3. \A k \in lo .. c : k \in 1 .. Len(bs) /\ bs[k] \in Block
  <2>1. \A k \in lo .. c : k \in 1 .. Len(bs)
    BY <1>1, <1>2
  <2> QED
    BY <1>1, <2>1, ElementOfSeq
<1>4. /\ from \in Seq(Block) /\ Len(from) = IF lo <= c THEN c - lo + 1 ELSE 0
      /\ \A k \in 1 .. c - lo + 1 : from[k] = bs[lo + k - 1]
  <2>1. from = SubSeq(bs, lo, c)
    BY <1>1, <1>2
  <2> QED
    <3>1. \A k \in lo .. c : bs[k] \in Block
      BY <1>3
    <3>2. /\ SubSeq(bs, lo, c) \in Seq(Block)
          /\ Len(SubSeq(bs, lo, c)) = IF lo <= c THEN c - lo + 1 ELSE 0
          /\ \A k \in 1 .. c - lo + 1 : SubSeq(bs, lo, c)[k] = bs[lo + k - 1]
      BY SMTT(30), <3>1, SubSeqProperties
    <3> QED
      BY <2>1, <3>2
<1>5. PICK m \in Nat : m = Len(from)
  BY <1>4
<1>6. B \in Nat /\ B > 0 /\ Places = 0 .. B - 1
  BY BytesAndBlocks
<1>7. ASSUME NEW k \in 1 .. m
      PROVE  /\ rows[k] \in Seq(Byte) /\ Len(rows[k]) = B
             /\ \A i \in Places : rows[k][i + 1] = from[k][i]
  <2>1. PICK row : row = rows[k] /\ row = [i \in 1 .. B |-> from[k][i - 1]]
    BY <1>5 DEF B
  <2>2. from[k] \in Block
    BY <1>4, <1>5, ElementOfSeq
  <2>3. ASSUME NEW i \in 1 .. B
        PROVE  from[k][i - 1] \in Byte
    <3>1. i - 1 \in Places
      BY <1>6
    <3> QED
      BY <2>2, <3>1 DEF Block
  <2>4. row \in Seq(Byte) /\ Len(row) = B
    <3>1. row \in [1 .. B -> Byte]
      BY <2>1, <2>3
    <3> QED
      BY <1>6, <3>1
  <2>5. ASSUME NEW i \in Places
        PROVE  row[i + 1] = from[k][i]
    <3>1. i + 1 \in 1 .. B /\ (i + 1) - 1 = i
      BY <1>6
    <3> QED
      BY <2>1, <3>1
  <2> QED
    BY <2>1, <2>4, <2>5
<1>8. rows \in Seq(Seq(Byte)) /\ Len(rows) = m
  <2>1. PICK T : T = Seq(Byte)
    OBVIOUS
  <2>2. rows \in [1 .. m -> T]
    BY <1>5, <1>7, <2>1
  <2>3. rows \in Seq(T) /\ Len(rows) = m
    BY <2>2, FunctionIsSeq
  <2> QED
    BY <2>1, <2>3
<1>9. /\ bytes \in Seq(Byte) /\ Len(bytes) = B * m
      /\ \A k \in 1 .. m, i \in Places : bytes[At(k, i) + 1] = rows[k][i + 1]
  <2>1. \A k \in 1 .. Len(rows) : Len(rows[k]) = B
    BY <1>7, <1>8
  <2>2. JoinOf(FlattenSeq(rows), rows, Len(rows))
    BY <1>8, <2>1, FlattenResult
  <2>3. JoinOf(bytes, rows, m)
    BY <1>5, <1>8, <2>2
  <2> QED
    BY <2>3 DEF JoinOf
<1>10. ASSUME s < c
       PROVE  Len(bytes) = B * c - B * s
  <2>1. m = c - s
    BY <1>2, <1>4, <1>5, <1>10
  <2>2. B * (c - s) = B * c - B * s
    BY <1>6
  <2> QED
    BY <1>9, <2>1, <2>2
<1>11. ASSUME s < c, NEW k \in s + 1 .. c, NEW i \in Places
       PROVE  bytes[At(k - s, i) + 1] = blocks[k][i]
  <2>1. PICK l \in 1 .. m : l = k - s /\ lo + l - 1 = k
    BY <1>2, <1>4, <1>5, <1>11
  <2>2. from[l] = bs[k]
    <3>1. l \in 1 .. c - lo + 1
      BY <1>2, <1>4, <1>5, <1>11, <2>1
    <3> QED
      BY <1>4, <2>1, <3>1
  <2>3. bytes[At(l, i) + 1] = from[l][i]
    <3>1. rows[l][i + 1] = from[l][i]
      BY <1>7
    <3>2. bytes[At(l, i) + 1] = rows[l][i + 1]
      BY <1>9
    <3> QED
      BY <3>1, <3>2
  <2> QED
    BY <1>1, <2>1, <2>2, <2>3
<1> QED
  BY <1>1, <1>9, <1>10, <1>11 DEF PartOf
LEMMA ReadResult ==
  ASSUME DataInv, NEW offset \in Nat, NEW size \in Int
  PROVE  ReadFile(offset, size) =
           SubSeq(Content, offset + 1,
                  IF size < 0 \/ offset + size > d_size THEN d_size ELSE offset + size)
<1>1. PICK d \in Nat, c \in Nat : d = d_size /\ c = Len(blocks) /\ c = Ceil(d)
  BY CeilNat DEF DataInv
<1>2. B \in Nat /\ B > 0 /\ Places = 0 .. B - 1
  BY BytesAndBlocks
<1>3. PICK s \in Nat, p \in Nat :
        s = Start(offset) /\ p = Position(offset) /\ p < B /\ offset = B * s + p
  <2>1. Position(offset) \in Places /\ Start(offset) \in Int /\ At(Start(offset) + 1, Position(offset)) = offset
    BY AtReached
  <2>2. PICK q \in Int, r \in 0 .. B - 1 : q = Start(offset) /\ r = Position(offset)
    BY <1>2, <2>1
  <2>3. offset = B * q + r /\ B * q \in Int
    <3>1. (q + 1) - 1 = q
      OBVIOUS
    <3> QED
      BY <1>2, <2>1, <2>2, <3>1 DEF At
  <2>4. q < 0 => B * q + B <= B * 0
    BY Apart
  <2>5. q >= 0
    BY <1>2, <2>3, <2>4
  <2> QED
    BY <1>2, <2>2, <2>3, <2>5
<1>4. PICK bs \in Nat, bc \in Nat : bs = B * s /\ bc = B * c
  BY <1>2
<1>5. PICK w \in Int : w = Wanted(offset, size)
  BY <1>1 DEF Wanted
<1>6. /\ w = IF size < 0 \/ size > d - offset THEN d - offset ELSE size
      /\ w <= d - offset
  BY <1>1, <1>5 DEF Wanted
<1>7. (IF size < 0 \/ offset + size > d_size THEN d_size ELSE offset + size) = offset + w
  BY <1>1, <1>6
<1>8. PICK content : content = Content /\ Lists(content, blocks, d)
  BY <1>1, ContentResult
<1>9. PICK from : from = SubSeq(blocks, s + 1, BlockCount)
  OBVIOUS
<1>10. PICK rows :
         rows = [k \in 1 .. Len(from) |-> [i \in 1 .. BLOCK_BYTES |-> from[k][i - 1]]]
  OBVIOUS
<1>11. PICK bytes : bytes = FlattenSeq(rows)
  OBVIOUS
<1>12. /\ bytes \in Seq(Byte)
       /\ s < c => /\ Len(bytes) = bc - bs
                   /\ \A k \in s + 1 .. c, i \in Places :
                        bytes[At(k - s, i) + 1] = blocks[k][i]
  <2>1. PartOf(bytes, blocks, s)
    BY <1>9, <1>10, <1>11, FromResult
  <2> QED
    BY <1>1, <1>4, <2>1 DEF PartOf
<1>13. PICK len \in Nat : len = Len(bytes)
  BY <1>12
<1>14. ReadFile(offset, size) = SubSeq(bytes, p + 1, IF p + w > len THEN len ELSE p + w)
  BY <1>3, <1>5, <1>9, <1>10, <1>11, <1>13 DEF ReadFile
<1>15. CASE w <= 0
  <2>1. PICK lo \in Int, hi \in Int :
          lo = p + 1 /\ hi = (IF p + w > len THEN len ELSE p + w) /\ hi < lo
    BY <1>15
  <2>2. SubSeq(bytes, lo, hi) = <<>>
    BY <2>1, SubSeqEmpty
  <2>3. PICK lc \in Int, hc \in Int : lc = offset + 1 /\ hc = offset + w /\ hc < lc
    BY <1>15
  <2>4. SubSeq(content, lc, hc) = <<>>
    BY <2>3, SubSeqEmpty
  <2> QED
    BY <1>7, <1>8, <1>14, <2>1, <2>2, <2>3, <2>4
<1>16. CASE w > 0
  <2>1. bc - B < d /\ d <= bc
    <3>1. B * Ceil(d) - B < d /\ d <= B * Ceil(d)
      BY CeilHas
    <3>2. B * c - B < d /\ d <= B * c
      BY <1>1, <3>1
    <3> QED
      BY <1>2, <1>4, <3>2
  <2>2. offset = bs + p /\ offset < d
    <3>1. offset = bs + p
      BY <1>3, <1>4
    <3>2. offset < d
      BY <1>6, <1>16
    <3> QED
      BY <3>1, <3>2
  <2>3. s < c
    <3>1. c < s => B * c + B <= B * s
      BY Apart
    <3> QED
      BY <1>2, <1>4, <2>1, <2>2, <3>1
  <2>4. len = bc - bs /\ p + w <= len
    BY <1>6, <1>12, <1>13, <2>1, <2>2, <2>3
  <2>5. ASSUME NEW y \in 1 .. w
        PROVE  bytes[p + y] = content[offset + y]
    <3>1. PICK n \in 1 .. d : n = offset + y
      BY <1>6, <2>2
    <3>2. PICK k \in 1 .. c, i \in Places : At(k, i) = n - 1 /\ content[n] = blocks[k][i]
      <4>1. \E k \in 1 .. Len(blocks), i \in Places : At(k, i) = n - 1 /\ content[n] = blocks[k][i]
        BY <1>8 DEF Lists
      <4> QED
        BY <1>1, <4>1
    <3>3. PICK bk \in Int : bk = B * k /\ At(k, i) < bk
      BY AtProperties
    <3>4. s < k
      <4>1. k < s => B * k + B <= B * s
        BY Apart
      <4>2. n - 1 >= bs /\ n - 1 < bk
        BY <2>2, <3>1, <3>2, <3>3
      <4> QED
        BY <1>2, <1>4, <3>3, <4>1, <4>2
    <3>5. bytes[At(k - s, i) + 1] = blocks[k][i]
      <4>1. k \in s + 1 .. c
        BY <3>4
      <4> QED
        BY <1>12, <2>3, <4>1
    <3>6. At(k - s, i) + 1 = p + y
      <4>1. PICK bl \in Int : bl = B * (k - 1) /\ B * (k - s - 1) = bl - bs
        BY <1>2, <1>4
      <4>2. i \in Int /\ At(k, i) = bl + i /\ At(k - s, i) = bl - bs + i
        BY <1>2, <4>1 DEF At
      <4>3. bl + i = bs + p + y - 1
        BY <2>2, <3>1, <3>2, <4>2
      <4> QED
        BY <4>2, <4>3
    <3> QED
      BY <3>1, <3>2, <3>5, <3>6
  <2>6. SubSeq(bytes, p + 1, p + w) = SubSeq(content, offset + 1, offset + w)
    <3>1. PICK la \in Nat \ {0}, ha \in Int, lb \in Nat \ {0}, hb \in Int :
            la = p + 1 /\ ha = p + w /\ lb = offset + 1 /\ hb = offset + w
      OBVIOUS
    <3>2. ha <= Len(bytes) /\ hb <= Len(content) /\ ha - la = hb - lb
      <4>1. Len(content) = d
        BY <1>8 DEF Lists
      <4> QED
        BY <1>6, <1>13, <2>4, <3>1, <4>1
    <3>3. ASSUME NEW y \in 1 .. ha - la + 1
          PROVE  bytes[la + y - 1] = content[lb + y - 1]
      <4>1. y \in 1 .. w /\ la + y - 1 = p + y /\ lb + y - 1 = offset + y
        BY <3>1
      <4> QED
        BY <2>5, <4>1
    <3>4. SubSeq(bytes, la, ha) = SubSeq(content, lb, hb)
      <4>1. bytes \in Seq(Byte) /\ content \in Seq(Byte)
        BY <1>8, <1>12 DEF Lists
      <4> QED
        <5>1. Matches(bytes, la, ha, content, lb, hb)
          BY <3>2, <3>3, <4>1 DEF Matches
        <5> QED
          BY <5>1, SamePart
    <3> QED
      BY <3>1, <3>4
  <2>7. (IF p + w > len THEN len ELSE p + w) = p + w
    BY <2>4
  <2> QED
    BY <1>7, <1>8, <1>14, <2>6, <2>7
<1> QED
  BY <1>15, <1>16

(* read_file returns the bytes of the file from the offset it is given, as  *)
(* many as it is asked for or as there are.                                 *)
THEOREM ReadCorrect == StraightSpec => []ReadIsExact
<1>1. DataInv => ReadIsExact
  <2>1. Offsets \subseteq Nat /\ -1 .. MAX_SIZE \subseteq Int
    BY DEF Offsets
  <2> QED
    BY <2>1, ReadResult DEF ReadIsExact
<1> QED
  BY <1>1, DataInvariance, PTL
=============================================================================
