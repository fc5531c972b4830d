---------------------------- MODULE FileIndexProofs ----------------------------
(***************************************************************************)
(* For every number of files and blocks and every shape of the index: the  *)
(* index of an inode is a tree in which no block has two places, what an   *)
(* operation writes is never in a place of another file or of the inode on *)
(* disk, and pushing and popping implement the list of FileBlocks.         *)
(***************************************************************************)
EXTENDS FileIndex, CountingProofs, SequenceTheorems, TLAPS

F == FILE_INDEX_PER_BLOCK
S == INODE_SMALL_THRESHOLD
L == INODE_LARGE_THRESHOLD
H == INODE_HUGE_THRESHOLD

(* The path to a data block, level by level.                                *)
Top(p) == GetBlockIndex(p)[1]
Mid(p) == GetBlockIndex(p)[2]
Low(p) == GetBlockIndex(p)[3]

Positions == 0 .. FILE_INDEX_HUGE_THRESHOLD - 1
-----------------------------------------------------------------------------
(* Multiples of the number of entries of an index block.                    *)
LEMMA IndexNumbers ==
  /\ F \in Nat /\ F > 0 /\ S \in Nat /\ S > 0 /\ L \in Nat /\ H \in Nat
  /\ S < L /\ L < H /\ F * F \in Nat /\ F * F > 0
BY IndexAssumption DEF F, S, L, H

LEMMA Multiple ==
  ASSUME NEW a \in Int
  PROVE  /\ a * F \in Int /\ (a + 1) * F = a * F + F /\ (a - 1) * F = a * F - F
         /\ 0 * F = 0 /\ (a >= 0 => a * F >= 0)
BY IndexNumbers

LEMMA Apart ==
  ASSUME NEW a \in Int, NEW b \in Int, a < b
  PROVE  a * F + F <= b * F
BY IndexNumbers

LEMMA DivMod ==
  ASSUME NEW n \in Nat, NEW q \in Nat, q > 0
  PROVE  /\ n \div q \in Nat /\ n % q \in 0 .. q - 1
         /\ n = (n \div q) * q + (n % q)
OBVIOUS

(* The thresholds, as multiples.                                            *)
LEMMA Thresholds ==
  /\ FILE_INDEX_SMALL_THRESHOLD = S
  /\ FILE_INDEX_LARGE_THRESHOLD = S + (L - S) * F
  /\ FILE_INDEX_HUGE_THRESHOLD = FILE_INDEX_LARGE_THRESHOLD + (H - L) * F * F
  /\ FILE_INDEX_LARGE_THRESHOLD \in Nat /\ FILE_INDEX_LARGE_THRESHOLD > S
  /\ FILE_INDEX_HUGE_THRESHOLD \in Nat
  /\ FILE_INDEX_HUGE_THRESHOLD > FILE_INDEX_LARGE_THRESHOLD
<1>1. /\ FILE_INDEX_SMALL_THRESHOLD = S
      /\ FILE_INDEX_LARGE_THRESHOLD = S + (L - S) * F
      /\ FILE_INDEX_HUGE_THRESHOLD = FILE_INDEX_LARGE_THRESHOLD + (H - L) * F * F
  BY DEF FILE_INDEX_SMALL_THRESHOLD, FILE_INDEX_LARGE_THRESHOLD, FILE_INDEX_HUGE_THRESHOLD,
         S, L, H, F
<1>2. 0 * F + F <= (L - S) * F /\ (L - S) * F \in Nat
  BY IndexNumbers, Apart
<1>3. 0 * F + F <= (H - L) * F /\ (H - L) * F \in Nat
  BY IndexNumbers, Apart
<1>4. 0 * F + F <= (H - L) * F * F /\ (H - L) * F * F \in Nat
  <2>1. PICK a \in Nat : a = (H - L) * F /\ 0 < a
    BY <1>3, IndexNumbers
  <2> QED
    BY <2>1, IndexNumbers, Apart
<1> QED
  BY <1>1, <1>2, <1>3, <1>4, IndexNumbers

(* Where the data blocks of the two lower levels are in the file.           *)
At1(a, b)    == S + a * F + b
At2(a, b, c) == FILE_INDEX_LARGE_THRESHOLD + (a * F + b) * F + c

PathOfSmall(p) == p < S /\ GetBlockIndex(p) = <<p, -1, -1>>
PathOfLarge(p, a, b) ==
  /\ p = At1(a, b) /\ ~(p < S) /\ p < FILE_INDEX_LARGE_THRESHOLD
  /\ GetBlockIndex(p) = <<S + a, b, -1>>
PathOfHuge(p, a, b, c) ==
  /\ p = At2(a, b, c) /\ ~(p < FILE_INDEX_LARGE_THRESHOLD)
  /\ GetBlockIndex(p) = <<L + a, b, c>>

LEMMA SmallPath ==
  ASSUME NEW p \in Positions, p < S
  PROVE  PathOfSmall(p)
BY Thresholds DEF GetBlockIndex, PathOfSmall

LEMMA LargePath ==
  ASSUME NEW p \in Positions, ~(p < S), p < FILE_INDEX_LARGE_THRESHOLD
  PROVE  \E a \in 0 .. L - S - 1, b \in Indexes : PathOfLarge(p, a, b)
<1>1. PICK n \in Nat : n = p - S
  BY IndexNumbers DEF Positions
<1>2. PICK a \in Nat, b \in Nat : a = n \div F /\ b = n % F
  BY DivMod, IndexNumbers
<1>3. b \in Indexes /\ n = a * F + b
  BY <1>2, DivMod, IndexNumbers DEF Indexes, F
<1>4. a < L - S
  <2>1. SUFFICES ASSUME ~(a < L - S)
                 PROVE  FALSE
    OBVIOUS
  <2>2. (L - S) * F <= a * F /\ a * F \in Int /\ (L - S) * F \in Int
    <3>1. L - S = a \/ (L - S) * F + F <= a * F
      BY <2>1, IndexNumbers, Apart
    <3> QED
      BY <3>1, IndexNumbers, Multiple
  <2>3. PICK x \in Int, y \in Int : x = a * F /\ y = (L - S) * F
    BY <2>2
  <2>4. n = x + b /\ b >= 0 /\ n = p - S /\ p < S + y /\ y <= x
    BY <1>1, <1>3, <2>2, <2>3, Thresholds
  <2> QED
    BY <2>3, <2>4, IndexNumbers DEF Positions
<1>5. p = At1(a, b)
  <2>1. PICK x \in Int : x = a * F
    BY Multiple
  <2> QED
    BY <1>1, <1>3, <2>1, IndexNumbers DEF At1, Positions
<1>6. GetBlockIndex(p) = <<S + a, b, -1>>
  BY <1>1, <1>2, Thresholds, IndexNumbers DEF GetBlockIndex, F, S, L
<1> QED
  BY <1>3, <1>4, <1>5, <1>6, IndexNumbers DEF PathOfLarge

LEMMA HugePath ==
  ASSUME NEW p \in Positions, ~(p < FILE_INDEX_LARGE_THRESHOLD)
  PROVE  \E a \in 0 .. H - L - 1, b \in Indexes, c \in Indexes : PathOfHuge(p, a, b, c)
<1>1. PICK n \in Nat : n = p - FILE_INDEX_LARGE_THRESHOLD
  BY Thresholds DEF Positions
<1>2. PICK q \in Nat : q = F * F /\ q > 0
  BY IndexNumbers
<1>3. PICK a \in Nat, r \in Nat : a = n \div q /\ r = n % q
  BY <1>2, DivMod
<1>4. n = a * q + r /\ r < q
  <2>1. n % q \in 0 .. q - 1 /\ n = (n \div q) * q + (n % q)
    BY <1>2, DivMod
  <2> QED
    BY <1>2, <1>3, <2>1
<1>5. PICK b \in Nat, c \in Nat : b = r \div F /\ c = r % F
  BY DivMod, IndexNumbers
<1>6. r = b * F + c /\ c \in Indexes
  BY <1>5, DivMod, IndexNumbers DEF Indexes, F
<1>7. b \in Indexes
  <2>1. ~(F <= b)
    <3>1. SUFFICES ASSUME F <= b
                   PROVE  FALSE
      OBVIOUS
    <3>2. F * F <= b * F
      <4>1. F = b \/ F * F + F <= b * F
        BY <3>1, IndexNumbers, Apart
      <4> QED
        BY <4>1, IndexNumbers, Multiple
    <3> QED
      BY <1>2, <1>4, <1>6, <3>2, Multiple DEF Indexes
  <2> QED
    BY <2>1, IndexNumbers DEF Indexes, F
<1>8. n % F = c
  <2>1. n = (a * F + b) * F + c
    <3>1. a * q = (a * F) * F
      BY <1>2, IndexNumbers
    <3>2. (a * F + b) * F = (a * F) * F + b * F
      BY IndexNumbers
    <3> QED
      BY <1>2, <1>4, <1>6, <3>1, <3>2, IndexNumbers
  <2>2. PICK m \in Nat : m = a * F + b
    BY IndexNumbers
  <2>3. n = m * F + c /\ c < F /\ m * F \in Nat
    BY <1>6, <2>1, <2>2, IndexNumbers DEF Indexes, F
  <2>4. PICK m2 \in Nat, c2 \in 0 .. F - 1 : m2 = n \div F /\ c2 = n % F /\ n = m2 * F + c2
    BY DivMod, IndexNumbers
  <2>5. m2 = m
    <3>1. ~(m2 < m)
      BY <2>3, <2>4, IndexNumbers, Apart, Multiple
    <3>2. ~(m < m2)
      BY <2>3, <2>4, IndexNumbers, Apart, Multiple
    <3> QED
      BY <3>1, <3>2
  <2> QED
    BY <2>3, <2>4, <2>5
<1>9. n = (a * F + b) * F + c
  <2>1. a * q = (a * F) * F
    BY <1>2, IndexNumbers
  <2>2. (a * F + b) * F = (a * F) * F + b * F
    BY IndexNumbers
  <2> QED
    BY <1>2, <1>4, <1>6, <2>1, <2>2, IndexNumbers
<1>10. a < H - L
  <2>1. SUFFICES ASSUME ~(a < H - L)
                 PROVE  FALSE
    OBVIOUS
  <2>2. PICK x \in Nat, y \in Nat : x = (H - L) * F /\ y = a * F
    BY IndexNumbers
  <2>3. x <= y
    <3>1. H - L = a \/ (H - L) * F + F <= a * F
      BY <2>1, IndexNumbers, Apart
    <3> QED
      BY <2>2, <3>1, IndexNumbers
  <2>4. x * F <= y * F /\ x * F \in Nat /\ y * F \in Nat
    <3>1. x = y \/ x * F + F <= y * F
      BY <2>3, Apart
    <3> QED
      BY <3>1, IndexNumbers
  <2>5. y * F <= n
    <3>1. (a * F + b) * F = y * F + b * F /\ b * F \in Nat
      BY <2>2, IndexNumbers
    <3> QED
      BY <1>9, <2>4, <3>1
  <2>6. p < FILE_INDEX_LARGE_THRESHOLD + x * F
    BY <2>2, Thresholds DEF Positions
  <2>7. PICK u \in Nat, v \in Nat : u = x * F /\ v = y * F
    BY <2>4
  <2>8. u <= v /\ v <= n /\ p < FILE_INDEX_LARGE_THRESHOLD + u
    BY <2>4, <2>5, <2>6, <2>7
  <2> QED
    BY <1>1, <2>8, Thresholds DEF Positions
<1>11. p = At2(a, b, c)
  <2>1. PICK m \in Nat : m = (a * F + b) * F
    BY IndexNumbers
  <2> QED
    BY <1>1, <1>9, <2>1, Thresholds DEF At2, Positions
<1>12. GetBlockIndex(p) = <<L + a, b, c>>
  <2>1. p < FILE_INDEX_HUGE_THRESHOLD /\ ~(p < FILE_INDEX_SMALL_THRESHOLD)
    BY IndexNumbers, Thresholds DEF Positions
  <2>2. GetBlockIndex(p) = <<n \div (F * F) + L, (n % (F * F)) \div F, n % F>>
    BY <1>1, <2>1 DEF GetBlockIndex, F, L
  <2>3. n \div (F * F) + L = L + a /\ (n % (F * F)) \div F = b
    BY <1>2, <1>3, <1>5, IndexNumbers
  <2> QED
    BY <1>8, <2>2, <2>3
<1> QED
  BY <1>6, <1>7, <1>10, <1>11, <1>12, IndexNumbers DEF PathOfHuge

(* What a path says of the levels that it goes through.                     *)
PathTyped(p) ==
  /\ GetBlockIndex(p) = <<Top(p), Mid(p), Low(p)>>
  /\ Top(p) \in Addrs /\ Mid(p) \in Indexes \cup {-1} /\ Low(p) \in Indexes \cup {-1}
  /\ Mid(p) = -1 <=> Top(p) < S
  /\ Low(p) = -1 <=> Top(p) < L

LEMMA AnyPath ==
  ASSUME NEW p \in Positions
  PROVE  PathTyped(p)
<1>1. CASE p < S
  <2>1. GetBlockIndex(p) = <<p, -1, -1>>
    BY <1>1, SmallPath DEF PathOfSmall
  <2>2. Top(p) = p /\ Mid(p) = -1 /\ Low(p) = -1
    BY <2>1 DEF Top, Mid, Low
  <2> QED
    BY <1>1, <2>1, <2>2, IndexNumbers DEF PathTyped, Addrs, Indexes, Positions, S, L, H, F
<1>2. CASE ~(p < S) /\ p < FILE_INDEX_LARGE_THRESHOLD
  <2>1. PICK a \in 0 .. L - S - 1, b \in Indexes : GetBlockIndex(p) = <<S + a, b, -1>>
    BY <1>2, LargePath DEF PathOfLarge
  <2>2. Top(p) = S + a /\ Mid(p) = b /\ Low(p) = -1
    BY <2>1 DEF Top, Mid, Low
  <2> QED
    BY <2>1, <2>2, IndexNumbers DEF PathTyped, Addrs, Indexes, S, L, H, F
<1>3. CASE ~(p < FILE_INDEX_LARGE_THRESHOLD)
  <2>1. PICK a \in 0 .. H - L - 1, b \in Indexes, c \in Indexes :
          GetBlockIndex(p) = <<L + a, b, c>>
    BY <1>3, HugePath DEF PathOfHuge
  <2>2. Top(p) = L + a /\ Mid(p) = b /\ Low(p) = c
    BY <2>1 DEF Top, Mid, Low
  <2> QED
    BY <2>1, <2>2, IndexNumbers DEF PathTyped, Addrs, Indexes, S, L, H, F
<1> QED
  BY <1>1, <1>2, <1>3

LEMMA RowOrder ==
  ASSUME NEW a \in Int, NEW b \in Indexes, NEW c \in Int, NEW d \in Indexes,
         a * F + b < c * F + d
  PROVE  a < c \/ (a = c /\ b < d)
<1>1. PICK x \in Int, y \in Int : x = a * F /\ y = c * F
  BY Multiple
<1>2. b >= 0 /\ b \in Int /\ b < F /\ d >= 0 /\ d \in Int /\ d < F /\ x + b < y + d
  BY <1>1, IndexNumbers DEF Indexes, F
<1>3. ~(c < a)
  <2>1. c < a => y + F <= x
    BY <1>1, Apart
  <2> QED
    BY <1>1, <1>2, <2>1, IndexNumbers
<1>4. a = c => x = y
  BY <1>1
<1> QED
  BY <1>1, <1>2, <1>3, <1>4

(* Paths are in the order of the positions, level by level.                 *)
Earlier(q, p) ==
  \/ Top(q) < Top(p)
  \/ Top(q) = Top(p) /\ Mid(q) < Mid(p)
  \/ Top(q) = Top(p) /\ Mid(q) = Mid(p) /\ Low(q) < Low(p)

LEMMA PathOrder ==
  ASSUME NEW p \in Positions, NEW q \in Positions, q < p
  PROVE  Earlier(q, p)
<1>1. CASE q < S
  <2>1. Top(q) = q
    BY <1>1, SmallPath DEF PathOfSmall, Top
  <2>2. CASE p < S
    <3>1. Top(p) = p
      BY <2>2, SmallPath DEF PathOfSmall, Top
    <3> QED
      BY <2>1, <3>1 DEF Earlier
  <2>3. CASE ~(p < S) /\ p < FILE_INDEX_LARGE_THRESHOLD
    <3>1. PICK a \in 0 .. L - S - 1 : Top(p) = S + a
      BY <2>3, LargePath DEF PathOfLarge, Top
    <3> QED
      BY <1>1, <2>1, <3>1, IndexNumbers DEF Earlier, Positions
  <2>4. CASE ~(p < FILE_INDEX_LARGE_THRESHOLD)
    <3>1. PICK a \in 0 .. H - L - 1 : Top(p) = L + a
      BY <2>4, HugePath DEF PathOfHuge, Top
    <3> QED
      BY <1>1, <2>1, <3>1, IndexNumbers DEF Earlier, Positions
  <2> QED
    BY <2>2, <2>3, <2>4
<1>2. CASE ~(q < S) /\ q < FILE_INDEX_LARGE_THRESHOLD
  <2>1. PICK c \in 0 .. L - S - 1, d \in Indexes : PathOfLarge(q, c, d)
    BY <1>2, LargePath
  <2>2. Top(q) = S + c /\ Mid(q) = d /\ Low(q) = -1 /\ q = At1(c, d)
    BY <2>1 DEF PathOfLarge, Top, Mid, Low
  <2>3. CASE p < FILE_INDEX_LARGE_THRESHOLD
    <3>0. ~(p < S)
      BY <1>2, IndexNumbers DEF Positions
    <3>1. PICK a \in 0 .. L - S - 1, b \in Indexes : PathOfLarge(p, a, b)
      BY <2>3, <3>0, LargePath
    <3>2. Top(p) = S + a /\ Mid(p) = b /\ Low(p) = -1 /\ p = At1(a, b)
      BY <3>1 DEF PathOfLarge, Top, Mid, Low
    <3>3. c < a \/ (c = a /\ d < b)
      <4>1. PICK x \in Int, y \in Int : x = a * F /\ y = c * F
        BY Multiple
      <4>2. p = S + x + b /\ q = S + y + d
        BY <2>2, <3>2, <4>1 DEF At1
      <4>3. y + d < x + b
        BY <4>2, IndexNumbers DEF Indexes
      <4> QED
        BY <4>1, <4>3, RowOrder
    <3> QED
      BY <2>2, <3>2, <3>3, IndexNumbers DEF Earlier
  <2>4. CASE ~(p < FILE_INDEX_LARGE_THRESHOLD)
    <3>1. PICK a \in 0 .. H - L - 1 : Top(p) = L + a
      BY <2>4, HugePath DEF PathOfHuge, Top
    <3> QED
      BY <2>2, <3>1, IndexNumbers DEF Earlier
  <2> QED
    BY <2>3, <2>4
<1>3. CASE ~(q < FILE_INDEX_LARGE_THRESHOLD)
  <2>0. ~(p < FILE_INDEX_LARGE_THRESHOLD)
    BY <1>3, Thresholds DEF Positions
  <2>1. PICK a \in 0 .. H - L - 1, b \in Indexes, c \in Indexes : PathOfHuge(p, a, b, c)
    BY <2>0, HugePath
  <2>2. PICK i \in 0 .. H - L - 1, j \in Indexes, k \in Indexes : PathOfHuge(q, i, j, k)
    BY <1>3, HugePath
  <2>3. Top(p) = L + a /\ Mid(p) = b /\ Low(p) = c /\ p = At2(a, b, c)
    BY <2>1 DEF PathOfHuge, Top, Mid, Low
  <2>4. Top(q) = L + i /\ Mid(q) = j /\ Low(q) = k /\ q = At2(i, j, k)
    BY <2>2 DEF PathOfHuge, Top, Mid, Low
  <2>5. PICK m \in Int, n \in Int : m = a * F + b /\ n = i * F + j
    <3>1. PICK x \in Int, y \in Int : x = a * F /\ y = i * F
      BY Multiple
    <3> QED
      BY <3>1 DEF Indexes
  <2>6. n < m \/ (n = m /\ k < c)
    <3>1. PICK x \in Int, y \in Int : x = m * F /\ y = n * F
      BY Multiple
    <3>2. p = FILE_INDEX_LARGE_THRESHOLD + x + c /\ q = FILE_INDEX_LARGE_THRESHOLD + y + k
      BY <2>3, <2>4, <2>5, <3>1 DEF At2
    <3>3. y + k < x + c
      BY <3>2, Thresholds DEF Indexes
    <3> QED
      BY <3>1, <3>3, RowOrder
  <2>7. n < m => i < a \/ (i = a /\ j < b)
    <3>1. n < m => i * F + j < a * F + b
      BY <2>5
    <3> QED
      BY <3>1, RowOrder
  <2>8. n = m => i = a /\ j = b
    <3>1. PICK x \in Int, y \in Int : x = a * F /\ y = i * F
      BY Multiple
    <3>2. i < a => y + F <= x
      BY <3>1, Apart
    <3>3. a < i => x + F <= y
      BY <3>1, Apart
    <3>4. m = x + b /\ n = y + j /\ b \in Int /\ j \in Int /\ b >= 0 /\ j >= 0 /\ b < F /\ j < F
      BY <2>5, <3>1, IndexNumbers DEF Indexes, F
    <3> QED
      BY <3>1, <3>2, <3>3, <3>4, IndexNumbers
  <2> QED
    BY <2>3, <2>4, <2>6, <2>7, <2>8, IndexNumbers DEF Earlier
<1> QED
  BY <1>1, <1>2, <1>3

LEMMA PathUnique ==
  ASSUME NEW p \in Positions, NEW q \in Positions,
         Top(p) = Top(q), Mid(p) = Mid(q), Low(p) = Low(q)
  PROVE  p = q
<1>1. /\ Top(p) \in Int /\ Mid(p) \in Int /\ Low(p) \in Int
      /\ Top(q) \in Int /\ Mid(q) \in Int /\ Low(q) \in Int
  BY AnyPath DEF PathTyped, Addrs, Indexes
<1>2. ~(p < q)
  BY <1>1, PathOrder DEF Earlier
<1>3. ~(q < p)
  BY <1>1, PathOrder DEF Earlier
<1> QED
  BY <1>2, <1>3 DEF Positions

LEMMA RowSame ==
  ASSUME NEW a \in Int, NEW b \in Indexes, NEW c \in Int, NEW d \in Indexes,
         a * F + b = c * F + d
  PROVE  a = c /\ b = d
<1>1. PICK x \in Int, y \in Int : x = a * F /\ y = c * F
  BY Multiple
<1>2. b >= 0 /\ b \in Int /\ b < F /\ d >= 0 /\ d \in Int /\ d < F /\ x + b = y + d
  BY <1>1, IndexNumbers DEF Indexes, F
<1>3. (c < a => y + F <= x) /\ (a < c => x + F <= y) /\ (a = c => x = y)
  BY <1>1, Apart
<1> QED
  BY <1>1, <1>2, <1>3, IndexNumbers

(* Every path is one of a position.                                         *)
LEMMA LargeHas ==
  ASSUME NEW a \in 0 .. L - S - 1, NEW b \in Indexes
  PROVE  At1(a, b) \in Positions /\ PathOfLarge(At1(a, b), a, b)
<1>1. PICK x \in Int, y \in Int : x = a * F /\ y = (L - S) * F
  BY Multiple, IndexNumbers
<1>2. x >= 0 /\ x + F <= y
  BY <1>1, Multiple, Apart, IndexNumbers
<1>3. b >= 0 /\ b \in Int /\ b < F
  BY IndexNumbers DEF Indexes, F
<1>4. PICK p \in Int : p = At1(a, b) /\ p = S + x + b
  BY <1>1, <1>3, IndexNumbers DEF At1
<1>5. p \in Positions /\ ~(p < S) /\ p < FILE_INDEX_LARGE_THRESHOLD
  BY <1>1, <1>2, <1>3, <1>4, IndexNumbers, Thresholds DEF Positions
<1>6. PICK c \in 0 .. L - S - 1, d \in Indexes : PathOfLarge(p, c, d)
  BY <1>5, LargePath
<1>7. c = a /\ d = b
  <2>1. PICK z \in Int : z = c * F
    BY Multiple
  <2>2. p = S + z + d
    BY <1>6, <2>1 DEF PathOfLarge, At1
  <2>3. c * F + d = a * F + b
    BY <1>1, <1>3, <1>4, <2>1, <2>2, IndexNumbers DEF Indexes
  <2> QED
    BY <2>3, RowSame
<1> QED
  BY <1>4, <1>5, <1>6, <1>7

LEMMA HugeHas ==
  ASSUME NEW a \in 0 .. H - L - 1, NEW b \in Indexes, NEW c \in Indexes
  PROVE  At2(a, b, c) \in Positions /\ PathOfHuge(At2(a, b, c), a, b, c)
<1>1. PICK x \in Int, y \in Int : x = a * F /\ y = (H - L) * F
  BY Multiple, IndexNumbers
<1>2. x >= 0 /\ x + F <= y
  BY <1>1, Multiple, Apart, IndexNumbers
<1>3. /\ b >= 0 /\ b \in Int /\ b < F
      /\ c >= 0 /\ c \in Int /\ c < F
  BY IndexNumbers DEF Indexes, F
<1>4. PICK m \in Int : m = x + b /\ m = a * F + b /\ 0 <= m /\ m < y
  <2>1. x + b \in Int /\ 0 <= x + b /\ x + b < y
    BY <1>1, <1>2, <1>3, IndexNumbers
  <2> QED
    BY <1>1, <2>1
<1>5. PICK u \in Int, v \in Int : u = m * F /\ v = y * F
  BY Multiple
<1>6. u >= 0 /\ u + F <= v
  BY <1>4, <1>5, Multiple, Apart
<1>7. PICK p \in Int : p = At2(a, b, c) /\ p = FILE_INDEX_LARGE_THRESHOLD + u + c
  <2>1. At2(a, b, c) = FILE_INDEX_LARGE_THRESHOLD + u + c
    BY <1>4, <1>5 DEF At2
  <2> QED
    BY <1>3, <2>1, Thresholds
<1>8. FILE_INDEX_HUGE_THRESHOLD = FILE_INDEX_LARGE_THRESHOLD + v
  BY <1>1, <1>5, Thresholds
<1>9. p \in Positions /\ ~(p < FILE_INDEX_LARGE_THRESHOLD)
  BY <1>3, <1>5, <1>6, <1>7, <1>8, IndexNumbers, Thresholds DEF Positions
<1>10. PICK i \in 0 .. H - L - 1, j \in Indexes, k \in Indexes : PathOfHuge(p, i, j, k)
  BY <1>9, HugePath
<1>11. i = a /\ j = b /\ k = c
  <2>1. PICK z \in Int : z = i * F
    BY Multiple
  <2>2. PICK n \in Int : n = i * F + j
    BY <2>1 DEF Indexes
  <2>3. PICK w \in Int : w = n * F
    BY Multiple
  <2>4. p = FILE_INDEX_LARGE_THRESHOLD + w + k
    BY <1>10, <2>2, <2>3 DEF PathOfHuge, At2
  <2>5. n * F + k = m * F + c
    BY <1>3, <1>5, <1>7, <2>3, <2>4, Thresholds DEF Indexes
  <2>6. n = m /\ k = c
    BY <2>5, RowSame
  <2>7. i * F + j = a * F + b
    BY <1>4, <2>2, <2>6
  <2> QED
    BY <2>6, <2>7, RowSame
<1> QED
  BY <1>7, <1>9, <1>10, <1>11

(* Where no index block starts, the position before has the same one.       *)
LEMMA PathBefore ==
  ASSUME NEW p \in Positions, Mid(p) # -1
  PROVE  /\ ~NewOuter(GetBlockIndex(p)) =>
              p - 1 \in Positions /\ Top(p - 1) = Top(p)
         /\ Low(p) # -1 /\ ~NewInner(GetBlockIndex(p)) =>
              p - 1 \in Positions /\ Top(p - 1) = Top(p) /\ Mid(p - 1) = Mid(p)
<1>1. ~(p < S)
  BY SmallPath DEF PathOfSmall, Mid
<1>2. CASE p < FILE_INDEX_LARGE_THRESHOLD
  <2>1. PICK a \in 0 .. L - S - 1, b \in Indexes : PathOfLarge(p, a, b)
    BY <1>1, <1>2, LargePath
  <2>2. GetBlockIndex(p) = <<S + a, b, -1>> /\ Low(p) = -1 /\ Top(p) = S + a /\ p = At1(a, b)
    BY <2>1 DEF PathOfLarge, Low, Top
  <2>3. ASSUME ~NewOuter(GetBlockIndex(p))
        PROVE  p - 1 \in Positions /\ Top(p - 1) = Top(p)
    <3>1. b # 0
      BY <2>2, <2>3 DEF NewOuter
    <3>2. b - 1 \in Indexes
      BY <3>1, IndexNumbers DEF Indexes, F
    <3>3. At1(a, b - 1) = p - 1
      <4>1. PICK x \in Int : x = a * F
        BY Multiple
      <4> QED
        BY <2>2, <4>1, IndexNumbers DEF At1, Indexes
    <3> QED
      BY <2>2, <3>2, <3>3, LargeHas DEF PathOfLarge, Top
  <2> QED
    BY <2>2, <2>3
<1>3. CASE ~(p < FILE_INDEX_LARGE_THRESHOLD)
  <2>1. PICK a \in 0 .. H - L - 1, b \in Indexes, c \in Indexes : PathOfHuge(p, a, b, c)
    BY <1>3, HugePath
  <2>2. /\ GetBlockIndex(p) = <<L + a, b, c>> /\ p = At2(a, b, c)
        /\ Top(p) = L + a /\ Mid(p) = b /\ Low(p) = c
    BY <2>1 DEF PathOfHuge, Low, Mid, Top
  <2>3. ASSUME c # 0
        PROVE  p - 1 \in Positions /\ Top(p - 1) = Top(p) /\ Mid(p - 1) = Mid(p)
    <3>1. c - 1 \in Indexes
      BY <2>3, IndexNumbers DEF Indexes, F
    <3>2. At2(a, b, c - 1) = p - 1
      <4>1. PICK x \in Int : x = a * F
        BY Multiple
      <4>2. PICK y \in Int : y = (a * F + b) * F
        BY <4>1, Multiple DEF Indexes
      <4> QED
        BY <2>2, <4>2, Thresholds DEF At2, Indexes
    <3> QED
      BY <2>2, <3>1, <3>2, HugeHas DEF PathOfHuge, Top, Mid
  <2>4. ASSUME c = 0, b # 0
        PROVE  p - 1 \in Positions /\ Top(p - 1) = Top(p)
    <3>1. b - 1 \in Indexes /\ F - 1 \in Indexes
      BY <2>4, IndexNumbers DEF Indexes, F
    <3>2. At2(a, b - 1, F - 1) = p - 1
      <4>1. PICK x \in Int : x = a * F
        BY Multiple
      <4>2. PICK m \in Int : m = x + b /\ m - 1 = x + (b - 1)
        BY <4>1 DEF Indexes
      <4>3. PICK y \in Int, z \in Int : y = m * F /\ z = (m - 1) * F /\ z = y - F
        <5>1. m * F \in Int /\ (m - 1) * F = m * F - F
          BY <4>2, Multiple
        <5>2. m * F - F \in Int
          BY <5>1, IndexNumbers
        <5> QED
          BY <5>1, <5>2
      <4>4. p = FILE_INDEX_LARGE_THRESHOLD + y + c
        BY <2>2, <4>1, <4>2, <4>3 DEF At2
      <4>5. At2(a, b - 1, F - 1) = FILE_INDEX_LARGE_THRESHOLD + z + (F - 1)
        BY <4>1, <4>2, <4>3 DEF At2
      <4> QED
        BY <2>4, <4>3, <4>4, <4>5, Thresholds, IndexNumbers
    <3> QED
      BY <2>2, <3>1, <3>2, HugeHas DEF PathOfHuge, Top
  <2>5. NewOuter(GetBlockIndex(p)) <=> b = 0 /\ c = 0
    BY <2>2 DEF NewOuter, Indexes
  <2>6. NewInner(GetBlockIndex(p)) <=> c = 0
    BY <2>2 DEF NewInner
  <2> QED
    BY <2>2, <2>3, <2>4, <2>5, <2>6
<1> QED
  BY <1>2, <1>3

(* push_block starts an index block exactly where none of the positions     *)
(* before goes through it.                                                  *)
LEMMA FirstOuter ==
  ASSUME NEW p \in Positions
  PROVE  /\ NewOuter(GetBlockIndex(p)) => Mid(p) # -1
         /\ Mid(p) # -1 =>
              (NewOuter(GetBlockIndex(p)) <=> \A q \in 0 .. p - 1 : Top(q) # Top(p))
<1>1. PathTyped(p)
  BY AnyPath
<1>2. NewOuter(GetBlockIndex(p)) <=> Mid(p) = 0 /\ Low(p) \in {-1, 0}
  BY <1>1 DEF PathTyped, NewOuter
<1>3. ASSUME NewOuter(GetBlockIndex(p)), NEW q \in 0 .. p - 1, Top(q) = Top(p)
      PROVE  FALSE
  <2>1. q \in Positions /\ q < p
    BY Thresholds DEF Positions
  <2>2. Earlier(q, p) /\ PathTyped(q)
    BY <2>1, PathOrder, AnyPath
  <2>3. /\ Mid(p) = 0 /\ Low(p) \in {-1, 0} /\ Top(p) \in Int
        /\ Mid(q) = -1 <=> Mid(p) = -1
        /\ Low(q) = -1 <=> Low(p) = -1
        /\ Mid(q) \in Nat \cup {-1} /\ Low(q) \in Nat \cup {-1}
    BY <1>1, <1>2, <1>3, <2>2 DEF PathTyped, Addrs, Indexes
  <2> QED
    BY <1>3, <2>2, <2>3 DEF Earlier
<1>4. ASSUME Mid(p) # -1, ~NewOuter(GetBlockIndex(p))
      PROVE  \E q \in 0 .. p - 1 : Top(q) = Top(p)
  <2>1. p - 1 \in Positions /\ Top(p - 1) = Top(p)
    BY <1>4, PathBefore
  <2> QED
    BY <2>1 DEF Positions
<1> QED
  BY <1>2, <1>3, <1>4

LEMMA FirstInner ==
  ASSUME NEW p \in Positions
  PROVE  /\ NewInner(GetBlockIndex(p)) => Low(p) # -1
         /\ Low(p) # -1 => Mid(p) # -1
         /\ NewOuter(GetBlockIndex(p)) /\ Low(p) # -1 => NewInner(GetBlockIndex(p))
         /\ Low(p) # -1 =>
              (NewInner(GetBlockIndex(p)) <=>
                 \A q \in 0 .. p - 1 : ~(Top(q) = Top(p) /\ Mid(q) = Mid(p)))
<1>1. PathTyped(p)
  BY AnyPath
<1>2. NewInner(GetBlockIndex(p)) <=> Low(p) = 0
  BY <1>1 DEF PathTyped, NewInner
<1>3. ASSUME NewInner(GetBlockIndex(p)), NEW q \in 0 .. p - 1,
             Top(q) = Top(p), Mid(q) = Mid(p)
      PROVE  FALSE
  <2>1. q \in Positions /\ q < p
    BY Thresholds DEF Positions
  <2>2. Earlier(q, p) /\ PathTyped(q)
    BY <2>1, PathOrder, AnyPath
  <2>3. /\ Low(p) = 0 /\ Top(p) \in Int /\ Mid(p) \in Int
        /\ Low(q) = -1 <=> Low(p) = -1
        /\ Low(q) \in Nat \cup {-1}
    BY <1>1, <1>2, <1>3, <2>2 DEF PathTyped, Addrs, Indexes
  <2> QED
    BY <1>3, <2>2, <2>3 DEF Earlier
<1>4. ASSUME Low(p) # -1, ~NewInner(GetBlockIndex(p))
      PROVE  \E q \in 0 .. p - 1 : Top(q) = Top(p) /\ Mid(q) = Mid(p)
  <2>0. Mid(p) # -1
    BY <1>1, <1>4, IndexNumbers DEF PathTyped, Addrs
  <2>1. p - 1 \in Positions /\ Top(p - 1) = Top(p) /\ Mid(p - 1) = Mid(p)
    BY <1>4, <2>0, PathBefore
  <2> QED
    BY <2>1 DEF Positions
<1>5. Low(p) # -1 => Mid(p) # -1
  BY <1>1, IndexNumbers DEF PathTyped, Addrs
<1>6. NewOuter(GetBlockIndex(p)) /\ Low(p) # -1 => NewInner(GetBlockIndex(p))
  BY <1>1 DEF NewOuter, NewInner, PathTyped
<1> QED
  BY <1>2, <1>3, <1>4, <1>5, <1>6
-----------------------------------------------------------------------------
(* An inode with the blocks that its positions name: index blocks of the    *)
(* first level (Outer) and the second (Inner), and the data blocks.         *)
Inode == [d_addr : [Addrs -> 0 .. BLOCK_COUNT],
          block_count : 0 .. FILE_INDEX_HUGE_THRESHOLD]
Index == [Indexes -> 0 .. BLOCK_COUNT]

Under(node)       == 0 .. node.block_count - 1
Outer(node, p)    == node.d_addr[Top(p)]
Inner(node, d, p) == d[Outer(node, p)][Mid(p)]
DataAt(node, d, p) ==
  IF Mid(p) = -1 THEN Outer(node, p)
  ELSE IF Low(p) = -1 THEN Inner(node, d, p)
  ELSE d[Inner(node, d, p)][Low(p)]

Part(node, d, p, b) ==
  \/ b = DataAt(node, d, p)
  \/ Mid(p) # -1 /\ b = Outer(node, p)
  \/ Low(p) # -1 /\ b = Inner(node, d, p)
Uses(node, d) == {b \in Blocks : \E p \in Under(node) : Part(node, d, p, b)}

ListIn(node, d) == [i \in 1 .. node.block_count |-> DataAt(node, d, i - 1)]

(* No block has two places: there is a label for every block that says      *)
(* which one it has.                                                        *)
DataTag(p)     == <<1, p, 0>>
OuterTag(i)    == <<2, i, 0>>
InnerTag(i, j) == <<3, i, j>>
Has(lab, b, tag) == b \in Blocks /\ lab[b] = tag

Placed(node, d, lab, p) ==
  /\ Has(lab, DataAt(node, d, p), DataTag(p))
  /\ Mid(p) # -1 => Has(lab, Outer(node, p), OuterTag(Top(p)))
  /\ Low(p) # -1 => Has(lab, Inner(node, d, p), InnerTag(Top(p), Mid(p)))
Labels(node, d, lab) == \A p \in Under(node) : Placed(node, d, lab, p)
Tree(node, d) == \E lab : Labels(node, d, lab)

(* d_addr names nothing that the file does not reach into.                  *)
Heads(node) == \A i \in Addrs : node.d_addr[i] # 0 => \E p \in Under(node) : Top(p) = i

(* Two inodes, on two contents of the disk, that agree up to a position.    *)
SameAt(x, d, y, e, p) ==
  /\ Outer(x, p) = Outer(y, p)
  /\ DataAt(x, d, p) = DataAt(y, e, p)
  /\ Low(p) # -1 => Inner(x, d, p) = Inner(y, e, p)
Same(x, d, y, e, n) == \A p \in 0 .. n - 1 : SameAt(x, d, y, e, p)

LEMMA TagsDiffer ==
  /\ \A p, q : DataTag(p) = DataTag(q) => p = q
  /\ \A i, k : OuterTag(i) = OuterTag(k) => i = k
  /\ \A i, j, k, l : InnerTag(i, j) = InnerTag(k, l) => i = k /\ j = l
  /\ \A p, i : DataTag(p) # OuterTag(i)
  /\ \A p, i, j : DataTag(p) # InnerTag(i, j)
  /\ \A i, k, l : OuterTag(i) # InnerTag(k, l)
BY DEF DataTag, OuterTag, InnerTag

LEMMA ListIs == \A node : ListOf(node) = ListIn(node, disk)
BY DEF ListOf, ListIn, DataAt, Inner, Outer, Top, Mid, Low

(* Positions of one inode, and blocks that have their places.               *)
LEMMA PartsApart ==
  ASSUME NEW node, NEW d, NEW lab, Labels(node, d, lab),
         NEW p \in Under(node), NEW q \in Under(node)
  PROVE  /\ DataAt(node, d, p) \in Blocks
         /\ Mid(p) # -1 => Outer(node, p) \in Blocks
         /\ Low(p) # -1 => Inner(node, d, p) \in Blocks
         /\ DataAt(node, d, p) = DataAt(node, d, q) => p = q
         /\ Mid(p) # -1 => DataAt(node, d, q) # Outer(node, p)
         /\ Low(p) # -1 => DataAt(node, d, q) # Inner(node, d, p)
         /\ Mid(p) # -1 /\ Low(q) # -1 => Outer(node, p) # Inner(node, d, q)
         /\ Mid(p) # -1 /\ Mid(q) # -1 /\ Outer(node, p) = Outer(node, q) => Top(p) = Top(q)
         /\ Low(p) # -1 /\ Low(q) # -1 /\ Inner(node, d, p) = Inner(node, d, q)
              => Top(p) = Top(q) /\ Mid(p) = Mid(q)
<1>1. Placed(node, d, lab, p) /\ Placed(node, d, lab, q)
  BY DEF Labels
<1> QED
  BY <1>1, TagsDiffer DEF Placed, Has

LEMMA PartsUsed ==
  ASSUME NEW node, NEW d, NEW lab, Labels(node, d, lab), NEW p \in Under(node)
  PROVE  /\ DataAt(node, d, p) \in Uses(node, d)
         /\ Mid(p) # -1 => Outer(node, p) \in Uses(node, d)
         /\ Low(p) # -1 => Inner(node, d, p) \in Uses(node, d)
<1>1. Placed(node, d, lab, p)
  BY DEF Labels
<1> QED
  BY <1>1 DEF Placed, Has, Uses, Part

LEMMA SameParts ==
  ASSUME NEW x, NEW d, NEW y, NEW e, NEW n \in Nat,
         x.block_count = n, y.block_count = n, Same(x, d, y, e, n)
  PROVE  /\ Uses(x, d) = Uses(y, e)
         /\ ListIn(x, d) = ListIn(y, e)
         /\ \A lab : Labels(x, d, lab) => Labels(y, e, lab)
<1>1. \A p \in 0 .. n - 1 : SameAt(x, d, y, e, p)
  BY DEF Same
<1>2. \A p \in 0 .. n - 1 : \A b : Part(x, d, p, b) <=> Part(y, e, p, b)
  BY <1>1 DEF SameAt, Part
<1>3. Uses(x, d) = Uses(y, e)
  BY <1>2 DEF Uses, Under
<1>4. ListIn(x, d) = ListIn(y, e)
  <2>1. \A i \in 1 .. n : DataAt(x, d, i - 1) = DataAt(y, e, i - 1)
    BY <1>1 DEF SameAt
  <2> QED
    BY <2>1 DEF ListIn
<1>5. \A lab : \A p \in 0 .. n - 1 : Placed(x, d, lab, p) => Placed(y, e, lab, p)
  BY <1>1 DEF SameAt, Placed
<1>6. \A lab : Labels(x, d, lab) => Labels(y, e, lab)
  BY <1>5 DEF Labels, Under
<1> QED
  BY <1>3, <1>4, <1>6

(* What is written elsewhere changes nothing.                               *)
LEMMA Untouched ==
  ASSUME NEW x, NEW d, NEW e, NEW lab, Labels(x, d, lab),
         NEW n \in 0 .. FILE_INDEX_HUGE_THRESHOLD, x.block_count = n,
         \A b \in Uses(x, d) : d[b] = e[b]
  PROVE  Same(x, d, x, e, n)
<1> SUFFICES ASSUME NEW p \in 0 .. n - 1
             PROVE  SameAt(x, d, x, e, p)
  BY DEF Same
<1>1. p \in Under(x) /\ p \in Positions
  BY Thresholds DEF Under, Positions
<1>2. Mid(p) # -1 => Inner(x, d, p) = Inner(x, e, p)
  BY <1>1, PartsUsed DEF Inner
<1>3. Low(p) # -1 => d[Inner(x, d, p)] = e[Inner(x, d, p)]
  BY <1>1, PartsUsed
<1>4. DataAt(x, d, p) = DataAt(x, e, p)
  BY <1>2, <1>3 DEF DataAt
<1>5. Low(p) # -1 => Mid(p) # -1
  BY <1>1, FirstInner
<1> QED
  BY <1>2, <1>4, <1>5 DEF SameAt
-----------------------------------------------------------------------------
(* Pushing: where the blocks come from, and what is written.                *)
Chosen(x, d, n, new, outer, inner) ==
  /\ new \in Blocks /\ new \notin Uses(x, d)
  /\ NewOuter(GetBlockIndex(n)) =>
       outer \in Blocks /\ outer \notin Uses(x, d) /\ outer # new
  /\ NewInner(GetBlockIndex(n)) =>
       /\ inner \in Blocks /\ inner \notin Uses(x, d) /\ inner # new
       /\ NewOuter(GetBlockIndex(n)) => inner # outer
  /\ ~NewOuter(GetBlockIndex(n)) => outer = Outer(x, n)
  /\ ~NewInner(GetBlockIndex(n)) => inner = d[outer][Mid(n)]

Pushed(x, d, n, new, outer, inner, y, e) ==
  /\ \A i \in Addrs : y.d_addr[i] = IF i = Top(n) THEN IF Mid(n) = -1 THEN new ELSE outer
                                    ELSE x.d_addr[i]
  /\ \A b \in Blocks : b # new /\ ~(Mid(n) # -1 /\ b = outer) /\ ~(Low(n) # -1 /\ b = inner)
                         => e[b] = d[b]
  /\ Mid(n) # -1 => e[outer][Mid(n)] = IF Low(n) = -1 THEN new ELSE inner
  /\ Mid(n) # -1 /\ ~NewOuter(GetBlockIndex(n)) =>
       \A j \in Indexes : j # Mid(n) => e[outer][j] = d[outer][j]
  /\ Low(n) # -1 => e[inner][Low(n)] = new
  /\ Low(n) # -1 /\ ~NewInner(GetBlockIndex(n)) =>
       \A j \in Indexes : j # Low(n) => e[inner][j] = d[inner][j]

(* An index block that is not new is one that an earlier position has.      *)
LEMMA OldOuter ==
  ASSUME NEW x, NEW n \in Positions, Mid(n) # -1, ~NewOuter(GetBlockIndex(n))
  PROVE  \E q \in 0 .. n - 1 : Top(q) = Top(n) /\ Mid(q) # -1 /\ Outer(x, q) = Outer(x, n)
<1>1. PICK q \in 0 .. n - 1 : Top(q) = Top(n)
  BY FirstOuter
<1>2. q \in Positions
  BY Thresholds DEF Positions
<1>3. Mid(q) # -1
  BY <1>1, <1>2, AnyPath DEF PathTyped
<1> QED
  BY <1>1, <1>3 DEF Outer

LEMMA OldInner ==
  ASSUME NEW x, NEW d, NEW n \in Positions, Low(n) # -1, ~NewInner(GetBlockIndex(n))
  PROVE  \E q \in 0 .. n - 1 :
           /\ Top(q) = Top(n) /\ Mid(q) = Mid(n) /\ Low(q) # -1
           /\ Outer(x, q) = Outer(x, n) /\ Inner(x, d, q) = Inner(x, d, n)
<1>1. PICK q \in 0 .. n - 1 : Top(q) = Top(n) /\ Mid(q) = Mid(n)
  BY FirstInner
<1>2. q \in Positions
  BY Thresholds DEF Positions
<1>3. Low(q) # -1
  BY <1>1, <1>2, AnyPath DEF PathTyped
<1> QED
  BY <1>1, <1>3 DEF Outer, Inner

LEMMA ChosenApart ==
  ASSUME NEW x, NEW d, NEW lab, Labels(x, d, lab), NEW n \in Positions, x.block_count = n,
         NEW new, NEW outer, NEW inner, Chosen(x, d, n, new, outer, inner)
  PROVE  /\ Mid(n) # -1 => outer \in Blocks /\ outer # new
         /\ Low(n) # -1 => inner \in Blocks /\ inner # new /\ inner # outer
         /\ Mid(n) # -1 /\ ~NewOuter(GetBlockIndex(n)) =>
              /\ outer = Outer(x, n) /\ outer \in Uses(x, d)
              /\ Has(lab, outer, OuterTag(Top(n)))
         /\ Low(n) # -1 /\ ~NewInner(GetBlockIndex(n)) =>
              /\ ~NewOuter(GetBlockIndex(n))
              /\ inner = Inner(x, d, n) /\ inner \in Uses(x, d)
              /\ Has(lab, inner, InnerTag(Top(n), Mid(n)))
<1>1. \A p \in 0 .. n - 1 : p \in Under(x)
  BY DEF Under
<1>2. ASSUME Mid(n) # -1, ~NewOuter(GetBlockIndex(n))
      PROVE  /\ outer = Outer(x, n) /\ outer \in Uses(x, d)
             /\ Has(lab, outer, OuterTag(Top(n)))
  <2>1. outer = Outer(x, n)
    BY <1>2 DEF Chosen
  <2>2. PICK q \in 0 .. n - 1 : Top(q) = Top(n) /\ Mid(q) # -1 /\ Outer(x, q) = Outer(x, n)
    BY <1>2, OldOuter
  <2>3. Placed(x, d, lab, q) /\ Outer(x, q) \in Uses(x, d)
    BY <1>1, <2>2, PartsUsed DEF Labels
  <2> QED
    BY <2>1, <2>2, <2>3 DEF Placed
<1>3. ASSUME Low(n) # -1, ~NewInner(GetBlockIndex(n))
      PROVE  /\ ~NewOuter(GetBlockIndex(n))
             /\ inner = Inner(x, d, n) /\ inner \in Uses(x, d)
             /\ Has(lab, inner, InnerTag(Top(n), Mid(n)))
  <2>1. ~NewOuter(GetBlockIndex(n))
    BY <1>3, FirstInner
  <2>2. outer = Outer(x, n) /\ inner = d[outer][Mid(n)]
    BY <1>3, <2>1 DEF Chosen
  <2>3. inner = Inner(x, d, n)
    BY <2>2 DEF Inner
  <2>4. PICK q \in 0 .. n - 1 :
           /\ Top(q) = Top(n) /\ Mid(q) = Mid(n) /\ Low(q) # -1
           /\ Outer(x, q) = Outer(x, n) /\ Inner(x, d, q) = Inner(x, d, n)
    BY <1>3, OldInner
  <2>5. Placed(x, d, lab, q) /\ Inner(x, d, q) \in Uses(x, d)
    BY <1>1, <2>4, PartsUsed DEF Labels
  <2> QED
    BY <2>1, <2>3, <2>4, <2>5 DEF Placed
<1>4. Mid(n) # -1 => outer \in Blocks /\ outer # new
  BY <1>2 DEF Chosen, Has
<1>5. Low(n) # -1 => inner \in Blocks /\ inner # new
  BY <1>3 DEF Chosen, Has
<1>6. Low(n) # -1 => inner # outer
  <2>1. CASE NewInner(GetBlockIndex(n)) /\ NewOuter(GetBlockIndex(n))
    BY <2>1 DEF Chosen
  <2>2. CASE NewInner(GetBlockIndex(n)) /\ ~NewOuter(GetBlockIndex(n))
    <3>1. Low(n) # -1 => Mid(n) # -1
      BY FirstInner
    <3> QED
      BY <1>2, <2>2, <3>1 DEF Chosen
  <2>3. CASE ~NewInner(GetBlockIndex(n))
    <3>1. Low(n) # -1 => Mid(n) # -1
      BY FirstInner
    <3> QED
      BY <1>2, <1>3, <2>3, <3>1, TagsDiffer DEF Has
  <2> QED
    BY <2>1, <2>2, <2>3
<1> QED
  BY <1>2, <1>3, <1>4, <1>5, <1>6

(* The positions before keep their blocks.                                  *)
LEMMA PushKeeps ==
  ASSUME NEW x, NEW d, NEW lab, Labels(x, d, lab), NEW n \in Positions, x.block_count = n,
         NEW new, NEW outer, NEW inner, Chosen(x, d, n, new, outer, inner),
         NEW y, NEW e, Pushed(x, d, n, new, outer, inner, y, e)
  PROVE  Same(x, d, y, e, n)
<1> SUFFICES ASSUME NEW p \in 0 .. n - 1
             PROVE  SameAt(x, d, y, e, p)
  BY DEF Same
<1>0. /\ Mid(n) # -1 /\ ~NewOuter(GetBlockIndex(n)) => Has(lab, outer, OuterTag(Top(n)))
      /\ Low(n) # -1 /\ ~NewInner(GetBlockIndex(n)) =>
           Has(lab, inner, InnerTag(Top(n), Mid(n)))
  BY ChosenApart
<1>1. p \in Under(x) /\ p \in Positions /\ p # n
  BY Thresholds DEF Under, Positions
<1>2. PathTyped(p) /\ PathTyped(n)
  BY <1>1, AnyPath
<1>3. /\ Placed(x, d, lab, p)
      /\ Mid(p) # -1 => Outer(x, p) \in Uses(x, d)
      /\ Low(p) # -1 => Inner(x, d, p) \in Uses(x, d)
  BY <1>1, PartsUsed DEF Labels
<1>4. Low(p) # -1 => Mid(p) # -1
  BY <1>1, FirstInner
<1>5. Outer(x, p) = Outer(y, p)
  <2>1. CASE Top(p) # Top(n)
    BY <1>2, <2>1 DEF Outer, Pushed, PathTyped
  <2>2. CASE Top(p) = Top(n)
    <3>1. Mid(n) # -1
      <4>1. Mid(n) = -1 => Mid(p) = -1 /\ Low(p) = -1 /\ Low(n) = -1
        BY <1>2, <2>2, IndexNumbers DEF PathTyped, Addrs
      <4> QED
        BY <1>1, <2>2, <4>1, PathUnique
    <3>2. ~NewOuter(GetBlockIndex(n))
      BY <2>2, <3>1, FirstOuter
    <3>3. outer = Outer(x, n)
      BY <3>2 DEF Chosen
    <3> QED
      BY <1>2, <2>2, <3>1, <3>3 DEF Outer, Pushed, PathTyped
  <2> QED
    BY <2>1, <2>2
<1>6. ASSUME Mid(p) # -1
      PROVE  Inner(x, d, p) = Inner(y, e, p)
  <2>1. PICK o : o = Outer(x, p) /\ o \in Uses(x, d) /\ Has(lab, o, OuterTag(Top(p)))
    BY <1>3, <1>6 DEF Placed
  <2>2. o \in Blocks /\ o # new
    BY <2>1 DEF Chosen, Has
  <2>3. Low(n) # -1 => o # inner
    <3>1. CASE NewInner(GetBlockIndex(n))
      BY <2>1, <3>1 DEF Chosen
    <3>2. CASE ~NewInner(GetBlockIndex(n))
      BY <1>0, <2>1, <3>2, TagsDiffer DEF Has
    <3> QED
      BY <3>1, <3>2
  <2>4. CASE Mid(n) # -1 /\ o = outer
    <3>1. ~NewOuter(GetBlockIndex(n))
      BY <2>1, <2>4 DEF Chosen
    <3>2. Top(p) = Top(n)
      BY <1>0, <2>1, <2>4, <3>1, TagsDiffer DEF Has
    <3>3. CASE Mid(p) # Mid(n)
      <4>1. e[outer][Mid(p)] = d[outer][Mid(p)]
        BY <1>2, <1>6, <2>4, <3>1, <3>3 DEF Pushed, PathTyped
      <4> QED
        BY <1>5, <2>1, <2>4, <4>1 DEF Inner
    <3>4. CASE Mid(p) = Mid(n)
      <4>1. Low(n) # -1
        <5>1. Low(n) = -1 => Low(p) = -1
          BY <1>2, <3>2 DEF PathTyped
        <5> QED
          BY <1>1, <3>2, <3>4, <5>1, PathUnique
      <4>2. ~NewInner(GetBlockIndex(n))
        BY <3>2, <3>4, <4>1, FirstInner
      <4>3. inner = d[outer][Mid(n)]
        BY <4>2 DEF Chosen
      <4>4. e[outer][Mid(n)] = inner
        BY <2>4, <4>1 DEF Pushed
      <4> QED
        BY <1>5, <2>1, <2>4, <3>4, <4>3, <4>4 DEF Inner
    <3> QED
      BY <3>3, <3>4
  <2>5. CASE ~(Mid(n) # -1 /\ o = outer)
    <3>1. e[o] = d[o]
      BY <2>2, <2>3, <2>5 DEF Pushed
    <3> QED
      BY <1>5, <2>1, <3>1 DEF Inner
  <2> QED
    BY <2>4, <2>5
<1>7. ASSUME Low(p) # -1
      PROVE  d[Inner(x, d, p)][Low(p)] = e[Inner(x, d, p)][Low(p)]
  <2>1. PICK o : /\ o = Inner(x, d, p) /\ o \in Uses(x, d)
                 /\ Has(lab, o, InnerTag(Top(p), Mid(p)))
    BY <1>3, <1>7 DEF Placed
  <2>2. o \in Blocks /\ o # new
    BY <2>1 DEF Chosen, Has
  <2>3. Mid(n) # -1 => o # outer
    <3>1. CASE NewOuter(GetBlockIndex(n))
      BY <2>1, <3>1 DEF Chosen
    <3>2. CASE ~NewOuter(GetBlockIndex(n))
      BY <1>0, <2>1, <3>2, TagsDiffer DEF Has
    <3> QED
      BY <3>1, <3>2
  <2>4. CASE Low(n) # -1 /\ o = inner
    <3>1. ~NewInner(GetBlockIndex(n))
      BY <2>1, <2>4 DEF Chosen
    <3>2. Top(p) = Top(n) /\ Mid(p) = Mid(n)
      BY <1>0, <2>1, <2>4, <3>1, TagsDiffer DEF Has
    <3>3. Low(p) # Low(n)
      BY <1>1, <3>2, PathUnique
    <3>4. e[inner][Low(p)] = d[inner][Low(p)]
      BY <1>2, <1>7, <2>4, <3>1, <3>3 DEF Pushed, PathTyped
    <3> QED
      BY <2>1, <2>4, <3>4
  <2>5. CASE ~(Low(n) # -1 /\ o = inner)
    <3>1. e[o] = d[o]
      BY <2>2, <2>3, <2>5 DEF Pushed
    <3> QED
      BY <2>1, <3>1
  <2> QED
    BY <2>4, <2>5
<1>8. DataAt(x, d, p) = DataAt(y, e, p)
  <2>1. Mid(p) # -1 => Inner(x, d, p) = Inner(y, e, p)
    BY <1>6
  <2>2. Low(p) # -1 => d[Inner(x, d, p)][Low(p)] = e[Inner(y, e, p)][Low(p)]
    BY <1>4, <1>7, <2>1
  <2> QED
    BY <1>5, <2>1, <2>2 DEF DataAt
<1> QED
  BY <1>4, <1>5, <1>6, <1>8 DEF SameAt

(* The position that is new has the blocks that were chosen for it.         *)
LEMMA PushPuts ==
  ASSUME NEW x, NEW d, NEW n \in Positions,
         NEW new, NEW outer, NEW inner, NEW y, NEW e, Pushed(x, d, n, new, outer, inner, y, e)
  PROVE  /\ Outer(y, n) = IF Mid(n) = -1 THEN new ELSE outer
         /\ Low(n) # -1 => Inner(y, e, n) = inner
         /\ DataAt(y, e, n) = new
<1>1. PathTyped(n) /\ (Low(n) # -1 => Mid(n) # -1)
  BY AnyPath, FirstInner
<1>2. Outer(y, n) = IF Mid(n) = -1 THEN new ELSE outer
  BY <1>1 DEF Outer, Pushed, PathTyped
<1>3. Mid(n) # -1 => Inner(y, e, n) = IF Low(n) = -1 THEN new ELSE inner
  BY <1>2 DEF Inner, Pushed
<1>4. Low(n) # -1 => e[inner][Low(n)] = new
  BY DEF Pushed
<1> QED
  BY <1>1, <1>2, <1>3, <1>4 DEF DataAt

Added(n, new, outer, inner) ==
  {b \in Blocks : \/ b = new
                  \/ NewOuter(GetBlockIndex(n)) /\ b = outer
                  \/ NewInner(GetBlockIndex(n)) /\ b = inner}
Gains(x, d, y, e, T) == Uses(y, e) = Uses(x, d) \cup T

LEMMA PushUses ==
  ASSUME NEW x, NEW d, NEW lab, Labels(x, d, lab), NEW n \in Positions, x.block_count = n,
         NEW new, NEW outer, NEW inner, Chosen(x, d, n, new, outer, inner),
         NEW y, NEW e, Pushed(x, d, n, new, outer, inner, y, e), y.block_count = n + 1
  PROVE  Gains(x, d, y, e, Added(n, new, outer, inner))
<1>1. \A p \in 0 .. n - 1 : \A b : Part(x, d, p, b) <=> Part(y, e, p, b)
  <2>1. \A p \in 0 .. n - 1 : SameAt(x, d, y, e, p)
    BY PushKeeps DEF Same
  <2> QED
    BY <2>1 DEF SameAt, Part
<1>2. /\ Outer(y, n) = IF Mid(n) = -1 THEN new ELSE outer
      /\ Low(n) # -1 => Inner(y, e, n) = inner
      /\ DataAt(y, e, n) = new
  BY PushPuts
<1>3. n \in Nat /\ Under(x) = 0 .. n - 1 /\ Under(y) = 0 .. n
  BY Thresholds DEF Under, Positions
<1>4. ASSUME NEW b \in Uses(y, e)
      PROVE  b \in Uses(x, d) \cup Added(n, new, outer, inner)
  <2>1. PICK p \in 0 .. n : b \in Blocks /\ Part(y, e, p, b)
    BY <1>3 DEF Uses
  <2>2. CASE p \in 0 .. n - 1
    BY <1>1, <1>3, <2>1, <2>2 DEF Uses
  <2>3. CASE p = n
    <3>1. CASE b = new
      BY <2>1, <3>1 DEF Added
    <3>2. CASE Mid(n) # -1 /\ b = outer
      BY <2>1, <3>2, ChosenApart DEF Added
    <3>3. CASE Low(n) # -1 /\ b = inner
      BY <2>1, <3>3, ChosenApart DEF Added
    <3> QED
      BY <1>2, <2>1, <2>3, <3>1, <3>2, <3>3 DEF Part
  <2> QED
    BY <1>3, <2>2, <2>3
<1>5. ASSUME NEW b \in Uses(x, d)
      PROVE  b \in Uses(y, e)
  <2>1. PICK p \in 0 .. n - 1 : b \in Blocks /\ Part(x, d, p, b)
    BY <1>3 DEF Uses
  <2>2. p \in 0 .. n /\ Part(y, e, p, b)
    BY <1>1, <1>3, <2>1
  <2> QED
    BY <1>3, <2>1, <2>2 DEF Uses
<1>6. ASSUME NEW b \in Added(n, new, outer, inner)
      PROVE  b \in Uses(y, e)
  <2>1. NewOuter(GetBlockIndex(n)) => Mid(n) # -1
    BY FirstOuter
  <2>2. NewInner(GetBlockIndex(n)) => Low(n) # -1
    BY FirstInner
  <2>3. b \in Blocks /\ Part(y, e, n, b)
    BY <1>2, <2>1, <2>2 DEF Added, Part
  <2>4. n \in 0 .. n
    BY <1>3
  <2> QED
    BY <1>3, <2>3, <2>4 DEF Uses
<1> QED
  BY <1>4, <1>5, <1>6 DEF Gains

LEMMA PushTree ==
  ASSUME NEW x, NEW d, Tree(x, d), NEW n \in Positions, x.block_count = n,
         NEW new, NEW outer, NEW inner, Chosen(x, d, n, new, outer, inner),
         NEW y, NEW e, Pushed(x, d, n, new, outer, inner, y, e), y.block_count = n + 1
  PROVE  Tree(y, e)
<1>1. PICK old : Labels(x, d, old)
  BY DEF Tree
<1> DEFINE lab == [b \in Blocks |->
                     IF b = new THEN DataTag(n)
                     ELSE IF NewOuter(GetBlockIndex(n)) /\ b = outer THEN OuterTag(Top(n))
                     ELSE IF NewInner(GetBlockIndex(n)) /\ b = inner
                     THEN InnerTag(Top(n), Mid(n))
                     ELSE old[b]]
<1>2. \A b \in Uses(x, d) : b \in Blocks /\ lab[b] = old[b]
  BY DEF Chosen, Uses
<1>3. new \in Blocks /\ lab[new] = DataTag(n)
  BY DEF Chosen
<1>4. NewOuter(GetBlockIndex(n)) => outer \in Blocks /\ lab[outer] = OuterTag(Top(n))
  BY DEF Chosen
<1>5. NewInner(GetBlockIndex(n)) => inner \in Blocks /\ lab[inner] = InnerTag(Top(n), Mid(n))
  BY DEF Chosen
<1> HIDE DEF lab
<1>6. n \in Nat /\ Under(x) = 0 .. n - 1 /\ Under(y) = 0 .. n
  BY Thresholds DEF Under, Positions
<1>7. ASSUME NEW p \in 0 .. n - 1
      PROVE  Placed(y, e, lab, p)
  <2>1. Placed(x, d, old, p)
    BY <1>1, <1>6 DEF Labels
  <2>2. /\ DataAt(x, d, p) \in Uses(x, d)
        /\ Mid(p) # -1 => Outer(x, p) \in Uses(x, d)
        /\ Low(p) # -1 => Inner(x, d, p) \in Uses(x, d)
    BY <1>1, <1>6, PartsUsed
  <2>3. Placed(x, d, lab, p)
    BY <1>2, <2>1, <2>2 DEF Placed, Has
  <2>4. SameAt(x, d, y, e, p)
    BY <1>1, PushKeeps DEF Same
  <2> QED
    BY <2>3, <2>4 DEF Placed, SameAt
<1>8. Placed(y, e, lab, n)
  <2>1. /\ Outer(y, n) = IF Mid(n) = -1 THEN new ELSE outer
        /\ Low(n) # -1 => Inner(y, e, n) = inner
        /\ DataAt(y, e, n) = new
    BY PushPuts
  <2>2. Mid(n) # -1 => Has(lab, outer, OuterTag(Top(n)))
    <3>1. CASE NewOuter(GetBlockIndex(n))
      BY <1>4, <3>1 DEF Has
    <3>2. CASE Mid(n) # -1 /\ ~NewOuter(GetBlockIndex(n))
      <4>1. Has(old, outer, OuterTag(Top(n))) /\ outer \in Uses(x, d)
        BY <1>1, <3>2, ChosenApart
      <4> QED
        BY <1>2, <4>1 DEF Has
    <3> QED
      BY <3>1, <3>2
  <2>3. Low(n) # -1 => Has(lab, inner, InnerTag(Top(n), Mid(n)))
    <3>1. CASE NewInner(GetBlockIndex(n))
      BY <1>5, <3>1 DEF Has
    <3>2. CASE Low(n) # -1 /\ ~NewInner(GetBlockIndex(n))
      <4>1. Has(old, inner, InnerTag(Top(n), Mid(n))) /\ inner \in Uses(x, d)
        BY <1>1, <3>2, ChosenApart
      <4> QED
        BY <1>2, <4>1 DEF Has
    <3> QED
      BY <3>1, <3>2
  <2>4. Has(lab, new, DataTag(n))
    BY <1>3 DEF Has
  <2> QED
    BY <2>1, <2>2, <2>3, <2>4 DEF Placed
<1>9. Labels(y, e, lab)
  <2>1. \A p \in 0 .. n : p \in 0 .. n - 1 \/ p = n
    BY <1>6
  <2> QED
    BY <1>6, <1>7, <1>8, <2>1 DEF Labels
<1> QED
  BY <1>9 DEF Tree

LEMMA PushHeads ==
  ASSUME NEW x, NEW d, Heads(x), NEW n \in Positions, x.block_count = n,
         NEW new, NEW outer, NEW inner,
         NEW y, NEW e, Pushed(x, d, n, new, outer, inner, y, e), y.block_count = n + 1
  PROVE  Heads(y)
<1> SUFFICES ASSUME NEW i \in Addrs, y.d_addr[i] # 0
             PROVE  \E p \in Under(y) : Top(p) = i
  BY DEF Heads
<1>1. n \in Nat /\ Under(x) = 0 .. n - 1 /\ Under(y) = 0 .. n
  BY Thresholds DEF Under, Positions
<1>2. CASE i = Top(n)
  BY <1>1, <1>2
<1>3. CASE i # Top(n)
  <2>1. x.d_addr[i] # 0
    BY <1>3 DEF Pushed
  <2>2. PICK p \in 0 .. n - 1 : Top(p) = i
    BY <1>1, <2>1 DEF Heads
  <2> QED
    BY <1>1, <2>2
<1> QED
  BY <1>2, <1>3
-----------------------------------------------------------------------------
(* Popping: what is given back, and what is written.                        *)
Gone(x, d, n) ==
  {b \in Blocks : \/ b = DataAt(x, d, n)
                  \/ NewOuter(GetBlockIndex(n)) /\ b = Outer(x, n)
                  \/ NewInner(GetBlockIndex(n)) /\ b = Inner(x, d, n)}

Popped(x, d, n, y, e) ==
  /\ \A i \in Addrs : y.d_addr[i] = IF i = Top(n) /\ AddrCleared(GetBlockIndex(n)) THEN 0
                                    ELSE x.d_addr[i]
  /\ \A b \in Blocks :
       b \notin Gone(x, d, n) =>
         /\ ~(Mid(n) # -1 /\ b = Outer(x, n)) /\ ~(Low(n) # -1 /\ b = Inner(x, d, n))
              => e[b] = d[b]
         /\ Mid(n) # -1 /\ b = Outer(x, n) =>
              \A j \in Indexes : j # Mid(n) \/ Low(n) \notin {-1, 0} => e[b][j] = d[b][j]
         /\ Low(n) # -1 /\ b = Inner(x, d, n) =>
              \A j \in Indexes : j # Low(n) => e[b][j] = d[b][j]

LEMMA PopKeeps ==
  ASSUME NEW x, NEW d, NEW lab, Labels(x, d, lab),
         NEW n \in Positions, x.block_count = n + 1,
         NEW y, NEW e, Popped(x, d, n, y, e)
  PROVE  /\ Same(x, d, y, e, n)
         /\ \A p \in 0 .. n - 1 : \A b : Part(x, d, p, b) => b \notin Gone(x, d, n)
<1> SUFFICES ASSUME NEW p \in 0 .. n - 1
             PROVE  /\ SameAt(x, d, y, e, p)
                    /\ \A b : Part(x, d, p, b) => b \notin Gone(x, d, n)
  BY DEF Same
<1>1. /\ p \in Under(x) /\ p \in Positions /\ p # n
      /\ n \in Under(x)
  BY Thresholds DEF Under, Positions
<1>2. PathTyped(p) /\ PathTyped(n)
  BY <1>1, AnyPath
<1>3. /\ Low(p) # -1 => Mid(p) # -1
      /\ Low(n) # -1 => Mid(n) # -1
      /\ NewOuter(GetBlockIndex(n)) => Mid(n) # -1
      /\ NewInner(GetBlockIndex(n)) => Low(n) # -1
  BY <1>1, FirstInner, FirstOuter
<1>4. Placed(x, d, lab, p) /\ Placed(x, d, lab, n)
  BY <1>1 DEF Labels
<1>5. Top(p) = Top(n) => Mid(n) # -1 /\ Mid(p) # -1 /\ ~NewOuter(GetBlockIndex(n))
  <2>1. Top(p) = Top(n) => (Mid(n) = -1 <=> Mid(p) = -1)
    BY <1>2 DEF PathTyped
  <2>2. Top(p) = Top(n) /\ Mid(n) = -1 => Low(n) = -1 /\ Low(p) = -1
    BY <1>2, <2>1, IndexNumbers DEF PathTyped, Addrs
  <2>3. Top(p) = Top(n) => Mid(n) # -1
    BY <1>1, <2>1, <2>2, PathUnique
  <2> QED
    BY <2>1, <2>3, FirstOuter
<1>6. Top(p) = Top(n) /\ Mid(p) = Mid(n) =>
        Low(n) # -1 /\ Low(p) # Low(n) /\ ~NewInner(GetBlockIndex(n)) /\ Low(n) # 0
  <2>1. Top(p) = Top(n) => (Low(n) = -1 <=> Low(p) = -1)
    BY <1>2 DEF PathTyped
  <2>2. Top(p) = Top(n) /\ Mid(p) = Mid(n) => Low(p) # Low(n)
    BY <1>1, PathUnique
  <2>3. Low(n) = 0 <=> NewInner(GetBlockIndex(n))
    BY <1>2 DEF PathTyped, NewInner
  <2> QED
    BY <2>1, <2>2, <2>3, FirstInner
<1>7. \A b \in Gone(x, d, n) :
        /\ b \in Blocks
        /\ \/ lab[b] = DataTag(n)
           \/ NewOuter(GetBlockIndex(n)) /\ lab[b] = OuterTag(Top(n))
           \/ NewInner(GetBlockIndex(n)) /\ lab[b] = InnerTag(Top(n), Mid(n))
  BY <1>3, <1>4 DEF Gone, Placed, Has
<1>8. DataAt(x, d, p) \notin Gone(x, d, n)
  <2>1. lab[DataAt(x, d, p)] = DataTag(p)
    BY <1>4 DEF Placed, Has
  <2> QED
    BY <1>1, <1>7, <2>1, TagsDiffer
<1>9. Mid(p) # -1 => Outer(x, p) \in Blocks /\ Outer(x, p) \notin Gone(x, d, n)
  <2>1. Mid(p) # -1 => Outer(x, p) \in Blocks /\ lab[Outer(x, p)] = OuterTag(Top(p))
    BY <1>4 DEF Placed, Has
  <2> QED
    BY <1>5, <1>7, <2>1, TagsDiffer
<1>10. Low(p) # -1 => Inner(x, d, p) \in Blocks /\ Inner(x, d, p) \notin Gone(x, d, n)
  <2>1. Low(p) # -1 => Inner(x, d, p) \in Blocks
                         /\ lab[Inner(x, d, p)] = InnerTag(Top(p), Mid(p))
    BY <1>4 DEF Placed, Has
  <2> QED
    BY <1>6, <1>7, <2>1, TagsDiffer
<1>11. Outer(x, p) = Outer(y, p)
  <2>1. AddrCleared(GetBlockIndex(n)) => Mid(n) = -1 \/ NewOuter(GetBlockIndex(n))
    BY <1>2 DEF AddrCleared, PathTyped
  <2>2. ~(Top(p) = Top(n) /\ AddrCleared(GetBlockIndex(n)))
    BY <1>5, <2>1
  <2> QED
    BY <1>2, <2>2 DEF Outer, Popped, PathTyped
<1>12. ASSUME Mid(p) # -1
       PROVE  Inner(x, d, p) = Inner(y, e, p)
  <2>1. PICK o : o = Outer(x, p) /\ o \in Blocks /\ o \notin Gone(x, d, n)
    BY <1>9, <1>12
  <2>2. ~(Low(n) # -1 /\ o = Inner(x, d, n))
    <3>1. lab[o] = OuterTag(Top(p))
      BY <1>4, <1>12, <2>1 DEF Placed, Has
    <3>2. Low(n) # -1 => lab[Inner(x, d, n)] = InnerTag(Top(n), Mid(n))
      BY <1>4 DEF Placed, Has
    <3> QED
      BY <3>1, <3>2, TagsDiffer
  <2>3. CASE Mid(n) # -1 /\ o = Outer(x, n)
    <3>1. Top(p) = Top(n)
      <4>1. lab[o] = OuterTag(Top(p)) /\ lab[o] = OuterTag(Top(n))
        BY <1>4, <1>12, <2>1, <2>3 DEF Placed, Has
      <4>2. OuterTag(Top(p)) = OuterTag(Top(n))
        BY <4>1
      <4> QED
        BY <4>2, TagsDiffer
    <3>2. Mid(p) # Mid(n) \/ Low(n) \notin {-1, 0}
      BY <1>6, <3>1
    <3>3. Mid(p) \in Indexes
      BY <1>2, <1>12 DEF PathTyped
    <3>4. e[o][Mid(p)] = d[o][Mid(p)]
      BY <2>1, <2>3, <3>2, <3>3 DEF Popped
    <3> QED
      BY <1>11, <2>1, <3>4 DEF Inner
  <2>4. CASE ~(Mid(n) # -1 /\ o = Outer(x, n))
    <3>1. e[o] = d[o]
      BY <2>1, <2>2, <2>4 DEF Popped
    <3> QED
      BY <1>11, <2>1, <3>1 DEF Inner
  <2> QED
    BY <2>3, <2>4
<1>13. ASSUME Low(p) # -1
       PROVE  d[Inner(x, d, p)][Low(p)] = e[Inner(x, d, p)][Low(p)]
  <2>1. PICK o : o = Inner(x, d, p) /\ o \in Blocks /\ o \notin Gone(x, d, n)
    BY <1>10, <1>13
  <2>2. ~(Mid(n) # -1 /\ o = Outer(x, n))
    <3>1. lab[o] = InnerTag(Top(p), Mid(p))
      BY <1>4, <1>13, <2>1 DEF Placed, Has
    <3>2. Mid(n) # -1 => lab[Outer(x, n)] = OuterTag(Top(n))
      BY <1>4 DEF Placed, Has
    <3> QED
      BY <3>1, <3>2, TagsDiffer
  <2>3. CASE Low(n) # -1 /\ o = Inner(x, d, n)
    <3>1. Top(p) = Top(n) /\ Mid(p) = Mid(n)
      <4>1. lab[o] = InnerTag(Top(p), Mid(p)) /\ lab[o] = InnerTag(Top(n), Mid(n))
        BY <1>4, <1>13, <2>1, <2>3 DEF Placed, Has
      <4>2. InnerTag(Top(p), Mid(p)) = InnerTag(Top(n), Mid(n))
        BY <4>1
      <4> QED
        BY <4>2, TagsDiffer
    <3>2. Low(p) # Low(n)
      BY <1>6, <3>1
    <3>3. Low(p) \in Indexes
      BY <1>2, <1>13 DEF PathTyped
    <3>4. e[o][Low(p)] = d[o][Low(p)]
      BY <2>1, <2>3, <3>2, <3>3 DEF Popped
    <3> QED
      BY <2>1, <3>4
  <2>4. CASE ~(Low(n) # -1 /\ o = Inner(x, d, n))
    <3>1. e[o] = d[o]
      BY <2>1, <2>2, <2>4 DEF Popped
    <3> QED
      BY <2>1, <3>1
  <2> QED
    BY <2>3, <2>4
<1>14. DataAt(x, d, p) = DataAt(y, e, p)
  <2>1. Mid(p) # -1 => Inner(x, d, p) = Inner(y, e, p)
    BY <1>12
  <2>2. Low(p) # -1 => d[Inner(x, d, p)][Low(p)] = e[Inner(y, e, p)][Low(p)]
    BY <1>3, <1>13, <2>1
  <2> QED
    BY <1>11, <2>1, <2>2 DEF DataAt
<1>15. SameAt(x, d, y, e, p)
  BY <1>3, <1>11, <1>12, <1>14 DEF SameAt
<1>16. \A b : Part(x, d, p, b) => b \notin Gone(x, d, n)
  BY <1>8, <1>9, <1>10 DEF Part
<1> QED
  BY <1>15, <1>16

LEMMA PopTree ==
  ASSUME NEW x, NEW d, Tree(x, d), NEW n \in Positions, x.block_count = n + 1,
         NEW y, NEW e, Popped(x, d, n, y, e), y.block_count = n
  PROVE  Tree(y, e)
<1>1. PICK lab : Labels(x, d, lab)
  BY DEF Tree
<1>2. n \in Nat /\ Under(x) = 0 .. n /\ Under(y) = 0 .. n - 1
  BY Thresholds DEF Under, Positions
<1>3. ASSUME NEW p \in 0 .. n - 1
      PROVE  Placed(y, e, lab, p)
  <2>1. p \in 0 .. n
    BY <1>2
  <2>2. Placed(x, d, lab, p)
    BY <1>1, <1>2, <2>1 DEF Labels
  <2>3. SameAt(x, d, y, e, p)
    BY <1>1, PopKeeps DEF Same
  <2> QED
    BY <2>2, <2>3 DEF Placed, SameAt
<1>4. Labels(y, e, lab)
  BY <1>2, <1>3 DEF Labels
<1> QED
  BY <1>4 DEF Tree

LEMMA PopUses ==
  ASSUME NEW x, NEW d, NEW lab, Labels(x, d, lab),
         NEW n \in Positions, x.block_count = n + 1,
         NEW y, NEW e, Popped(x, d, n, y, e), y.block_count = n
  PROVE  Uses(y, e) = Uses(x, d) \ Gone(x, d, n) /\ Gone(x, d, n) \subseteq Uses(x, d)
<1>1. n \in Nat /\ Under(x) = 0 .. n /\ Under(y) = 0 .. n - 1
  BY Thresholds DEF Under, Positions
<1>2. \A p \in 0 .. n - 1 : \A b : Part(x, d, p, b) <=> Part(y, e, p, b)
  <2>1. \A p \in 0 .. n - 1 : SameAt(x, d, y, e, p)
    BY PopKeeps DEF Same
  <2> QED
    BY <2>1 DEF SameAt, Part
<1>3. \A p \in 0 .. n - 1 : \A b : Part(x, d, p, b) => b \notin Gone(x, d, n)
  BY PopKeeps
<1>4. ASSUME NEW b \in Uses(y, e)
      PROVE  b \in Uses(x, d) /\ b \notin Gone(x, d, n)
  <2>1. PICK p \in 0 .. n - 1 : b \in Blocks /\ Part(y, e, p, b)
    BY <1>1 DEF Uses
  <2>2. p \in 0 .. n /\ Part(x, d, p, b)
    BY <1>1, <1>2, <2>1
  <2> QED
    BY <1>1, <1>3, <2>1, <2>2 DEF Uses
<1>5. ASSUME NEW b \in Uses(x, d), b \notin Gone(x, d, n)
      PROVE  b \in Uses(y, e)
  <2>1. PICK p \in 0 .. n : b \in Blocks /\ Part(x, d, p, b)
    BY <1>1 DEF Uses
  <2>2. \E q \in 0 .. n - 1 : Part(x, d, q, b)
    <3>1. CASE p \in 0 .. n - 1
      BY <2>1, <3>1
    <3>2. CASE p = n
      <4>1. CASE b = DataAt(x, d, n)
        BY <1>5, <2>1, <4>1 DEF Gone
      <4>2. CASE Mid(n) # -1 /\ b = Outer(x, n)
        <5>1. ~NewOuter(GetBlockIndex(n))
          BY <1>5, <2>1, <4>2 DEF Gone
        <5>2. PICK q \in 0 .. n - 1 :
                Top(q) = Top(n) /\ Mid(q) # -1 /\ Outer(x, q) = Outer(x, n)
          BY <4>2, <5>1, OldOuter
        <5> QED
          BY <4>2, <5>2 DEF Part
      <4>3. CASE Low(n) # -1 /\ b = Inner(x, d, n)
        <5>1. ~NewInner(GetBlockIndex(n))
          BY <1>5, <2>1, <4>3 DEF Gone
        <5>2. PICK q \in 0 .. n - 1 :
                 /\ Top(q) = Top(n) /\ Mid(q) = Mid(n) /\ Low(q) # -1
                 /\ Outer(x, q) = Outer(x, n) /\ Inner(x, d, q) = Inner(x, d, n)
          BY <4>3, <5>1, OldInner
        <5> QED
          BY <4>3, <5>2 DEF Part
      <4> QED
        BY <2>1, <3>2, <4>1, <4>2, <4>3 DEF Part
    <3> QED
      BY <1>1, <3>1, <3>2
  <2> QED
    BY <1>1, <1>2, <2>1, <2>2 DEF Uses
<1>6. ASSUME NEW b \in Gone(x, d, n)
      PROVE  b \in Uses(x, d)
  <2>1. NewOuter(GetBlockIndex(n)) => Mid(n) # -1
    BY FirstOuter
  <2>2. NewInner(GetBlockIndex(n)) => Low(n) # -1
    BY FirstInner
  <2>3. b \in Blocks /\ Part(x, d, n, b) /\ n \in 0 .. n
    BY <1>1, <2>1, <2>2 DEF Gone, Part
  <2> QED
    BY <1>1, <2>3 DEF Uses
<1> QED
  BY <1>4, <1>5, <1>6

LEMMA PopHeads ==
  ASSUME NEW x, NEW d, Heads(x), NEW n \in Positions, x.block_count = n + 1,
         NEW y, NEW e, Popped(x, d, n, y, e), y.block_count = n
  PROVE  Heads(y)
<1> SUFFICES ASSUME NEW i \in Addrs, y.d_addr[i] # 0
             PROVE  \E p \in Under(y) : Top(p) = i
  BY DEF Heads
<1>1. n \in Nat /\ Under(x) = 0 .. n /\ Under(y) = 0 .. n - 1
  BY Thresholds DEF Under, Positions
<1>2. x.d_addr[i] # 0 /\ ~(i = Top(n) /\ AddrCleared(GetBlockIndex(n)))
  BY DEF Popped
<1>3. PICK p \in 0 .. n : Top(p) = i
  BY <1>1, <1>2 DEF Heads
<1>4. CASE p = n
  <2>1. Mid(n) # -1 /\ ~NewOuter(GetBlockIndex(n))
    BY <1>2, <1>3, <1>4 DEF AddrCleared, Mid
  <2>2. PICK q \in 0 .. n - 1 : Top(q) = Top(n)
    BY <2>1, OldOuter
  <2> QED
    BY <1>1, <1>3, <1>4, <2>2
<1>5. CASE p \in 0 .. n - 1
  BY <1>1, <1>3, <1>5
<1> QED
  BY <1>1, <1>4, <1>5
-----------------------------------------------------------------------------
(* How many blocks a push takes and a pop gives back.                       *)
Cost(n) == 1 + IndexBlocksFor(GetBlockIndex(n))

(* One block, and up to two more.                                           *)
Among(T, a, b, c, one, two) ==
  /\ \A t : t \in T <=> t = a \/ (one = 1 /\ t = b) \/ (two = 1 /\ t = c)
  /\ (one = 1 => b # a) /\ (two = 1 => c # a) /\ (one = 1 /\ two = 1 => c # b)

LEMMA UpToThree ==
  ASSUME NEW one \in {0, 1}, NEW two \in {0, 1}, NEW a, NEW b, NEW c,
         NEW T, Among(T, a, b, c, one, two)
  PROVE  IsFiniteSet(T) /\ Cardinality(T) = 1 + one + two
<1> USE DEF Among
<1>1. IsFiniteSet({a}) /\ Cardinality({a}) = 1
  BY FS_Singleton
<1>2. PICK U : U = {a} \cup (IF one = 1 THEN {b} ELSE {})
  OBVIOUS
<1>3. IsFiniteSet(U) /\ Cardinality(U) = 1 + one
  <2>1. CASE one = 1
    <3>1. U = {a} \cup {b} /\ b \notin {a}
      BY <1>2, <2>1
    <3>2. IsFiniteSet(U) /\ Cardinality(U) = Cardinality({a}) + 1
      <4>1. /\ IsFiniteSet({a} \cup {b})
            /\ Cardinality({a} \cup {b}) =
                 IF b \in {a} THEN Cardinality({a}) ELSE Cardinality({a}) + 1
        BY <1>1, FS_AddElement
      <4> QED
        BY <3>1, <4>1
    <3> QED
      BY <1>1, <2>1, <3>2
  <2>2. CASE one = 0
    <3>1. U = {a}
      BY <1>2, <2>2
    <3> QED
      BY <1>1, <2>2, <3>1
  <2> QED
    BY <2>1, <2>2
<1>4. CASE two = 1
  <2>1. T = U \cup {c} /\ c \notin U
    BY <1>2, <1>4
  <2>2. IsFiniteSet(T) /\ Cardinality(T) = Cardinality(U) + 1
    <3>1. /\ IsFiniteSet(U \cup {c})
          /\ Cardinality(U \cup {c}) = IF c \in U THEN Cardinality(U) ELSE Cardinality(U) + 1
      BY <1>3, FS_AddElement
    <3> QED
      BY <2>1, <3>1
  <2> QED
    BY <1>3, <1>4, <2>2
<1>5. CASE two = 0
  <2>1. T = U
    BY <1>2, <1>5
  <2> QED
    BY <1>3, <1>5, <2>1
<1> QED
  BY <1>4, <1>5

LEMMA AddedSize ==
  ASSUME NEW x, NEW d, NEW n, NEW new, NEW outer, NEW inner,
         Chosen(x, d, n, new, outer, inner)
  PROVE  /\ IsFiniteSet(Added(n, new, outer, inner))
         /\ Cardinality(Added(n, new, outer, inner)) = Cost(n)
<1>1. PICK one \in {0, 1}, two \in {0, 1} :
        (one = 1 <=> NewOuter(GetBlockIndex(n))) /\ (two = 1 <=> NewInner(GetBlockIndex(n)))
  OBVIOUS
<1>2. PICK T : T = Added(n, new, outer, inner)
  OBVIOUS
<1>3. \A t : t \in T <=> t = new \/ (one = 1 /\ t = outer) \/ (two = 1 /\ t = inner)
  BY <1>1, <1>2 DEF Added, Chosen
<1>4. (one = 1 => outer # new) /\ (two = 1 => inner # new) /\ (one = 1 /\ two = 1 => inner # outer)
  BY <1>1 DEF Chosen
<1>5. IsFiniteSet(T) /\ Cardinality(T) = 1 + one + two
  <2>1. Among(T, new, outer, inner, one, two)
    BY <1>3, <1>4 DEF Among
  <2> QED
    BY <2>1, UpToThree
<1> QED
  BY <1>1, <1>2, <1>5 DEF Cost, IndexBlocksFor

LEMMA GoneSize ==
  ASSUME NEW x, NEW d, NEW lab, Labels(x, d, lab), NEW n \in Positions, n \in Under(x)
  PROVE  IsFiniteSet(Gone(x, d, n)) /\ Cardinality(Gone(x, d, n)) = Cost(n)
<1>1. PICK one \in {0, 1}, two \in {0, 1} :
        (one = 1 <=> NewOuter(GetBlockIndex(n))) /\ (two = 1 <=> NewInner(GetBlockIndex(n)))
  OBVIOUS
<1>2. PICK last, outer, inner :
        last = DataAt(x, d, n) /\ outer = Outer(x, n) /\ inner = Inner(x, d, n)
  OBVIOUS
<1>3. PICK T : T = Gone(x, d, n)
  OBVIOUS
<1>4. (one = 1 => Mid(n) # -1) /\ (two = 1 => Low(n) # -1)
  BY <1>1, FirstOuter, FirstInner
<1>5. Low(n) # -1 => Mid(n) # -1
  BY FirstInner
<1>6. /\ last \in Blocks
      /\ one = 1 => outer \in Blocks /\ outer # last
      /\ two = 1 => inner \in Blocks /\ inner # last
      /\ one = 1 /\ two = 1 => inner # outer
  BY <1>2, <1>4, <1>5, PartsApart
<1>7. \A t : t \in T <=> t = last \/ (one = 1 /\ t = outer) \/ (two = 1 /\ t = inner)
  BY <1>1, <1>2, <1>3, <1>6 DEF Gone
<1>8. IsFiniteSet(T) /\ Cardinality(T) = 1 + one + two
  <2>1. Among(T, last, outer, inner, one, two)
    BY <1>6, <1>7 DEF Among
  <2> QED
    BY <2>1, UpToThree
<1> QED
  BY <1>1, <1>3, <1>8 DEF Cost, IndexBlocksFor

(* The function inside IndexBlockCount.                                     *)
Counts(g, n) ==
  g = [i \in 0 .. n |-> IF i = 0 THEN 0 ELSE g[i - 1] + IndexBlocksFor(GetBlockIndex(i - 1))]
Counted == CHOOSE g : Counts(g, FILE_INDEX_HUGE_THRESHOLD)

LEMMA CountIsCounted == \A n : IndexBlockCount(n) = Counted[n]
BY DEF IndexBlockCount, Counted, Counts

LEMMA CostNat == \A n : IndexBlocksFor(GetBlockIndex(n)) \in Nat /\ Cost(n) \in Nat
BY DEF IndexBlocksFor, Cost

LEMMA CountedDefined == Counts(Counted, FILE_INDEX_HUGE_THRESHOLD)
<1>0. PICK m \in Nat : m = FILE_INDEX_HUGE_THRESHOLD
  BY Thresholds
<1> DEFINE Missing == {n \in 0 .. m : ~\E g \in [0 .. n -> Nat] : Counts(g, n)}
<1>1. Missing = {}
  <2>1. SUFFICES ASSUME Missing # {}
                 PROVE  FALSE
    OBVIOUS
  <2>2. PICK n \in Missing : \A k \in Missing : n <= k
    <3>1. Missing \subseteq Nat
      OBVIOUS
    <3> HIDE DEF Missing
    <3> QED
      BY <2>1, <3>1, LeastNumber
  <2>3. n # 0
    <3> DEFINE g == [i \in 0 .. 0 |-> 0]
    <3>1. g \in [0 .. 0 -> Nat]
      OBVIOUS
    <3>2. Counts(g, 0)
      BY DEF Counts
    <3>3. 0 \notin Missing
      <4> HIDE DEF g
      <4> QED
        BY <3>1, <3>2
    <3> QED
      BY <2>2, <3>3
  <2>4. n \in 1 .. m /\ n - 1 \in 0 .. m /\ n - 1 \notin Missing
    <3>1. n \in 0 .. m
      OBVIOUS
    <3>2. n \in 1 .. m /\ n - 1 \in 0 .. m
      BY <2>3, <3>1
    <3> HIDE DEF Missing
    <3>3. n - 1 \notin Missing
      BY <2>2, <3>2
    <3> QED
      BY <3>2, <3>3
  <2>5. PICK g \in [0 .. n - 1 -> Nat] : Counts(g, n - 1)
    BY <2>4
  <2> DEFINE h == [i \in 0 .. n |->
                     IF i = 0 THEN 0 ELSE g[i - 1] + IndexBlocksFor(GetBlockIndex(i - 1))]
  <2>6. ASSUME NEW i \in 0 .. n, i # 0
        PROVE  i - 1 \in 0 .. n - 1 /\ g[i - 1] \in Nat
    <3>1. i - 1 \in 0 .. n - 1
      BY <2>4, <2>6
    <3> QED
      BY <3>1
  <2>7. h \in [0 .. n -> Nat]
    <3>1. ASSUME NEW i \in 0 .. n
          PROVE  h[i] \in Nat
      BY <2>6, CostNat
    <3> QED
      BY <3>1
  <2>8. ASSUME NEW i \in 0 .. n - 1
        PROVE  h[i] = g[i]
    <3>1. g[i] = IF i = 0 THEN 0 ELSE g[i - 1] + IndexBlocksFor(GetBlockIndex(i - 1))
      BY <2>5 DEF Counts
    <3>2. i \in 0 .. n
      BY <2>4
    <3> QED
      BY <3>1, <3>2
  <2>9. Counts(h, n)
    <3>1. ASSUME NEW i \in 0 .. n, i # 0
          PROVE  h[i - 1] = g[i - 1]
      <4> HIDE DEF h
      <4> QED
        BY <2>6, <2>8, <3>1
    <3>2. \A i \in 0 .. n :
            h[i] = IF i = 0 THEN 0 ELSE h[i - 1] + IndexBlocksFor(GetBlockIndex(i - 1))
      BY <3>1
    <3>3. h = [i \in 0 .. n |-> h[i]]
      OBVIOUS
    <3> HIDE DEF h
    <3> QED
      BY <3>2, <3>3 DEF Counts
  <2> QED
    <3> HIDE DEF h
    <3> QED
      BY <2>7, <2>9
<1>2. \E g : Counts(g, m)
  <2>1. m \in 0 .. m
    OBVIOUS
  <2> QED
    BY <1>1, <2>1
<1> QED
  BY <1>0, <1>2 DEF Counted

LEMMA CountStep ==
  /\ IndexBlockCount(0) = 0
  /\ \A n \in Positions :
       IndexBlockCount(n + 1) = IndexBlockCount(n) + IndexBlocksFor(GetBlockIndex(n))
<1>1. \A i \in 0 .. FILE_INDEX_HUGE_THRESHOLD :
        Counted[i] = IF i = 0 THEN 0 ELSE Counted[i - 1] + IndexBlocksFor(GetBlockIndex(i - 1))
  BY CountedDefined DEF Counts
<1>2. IndexBlockCount(0) = 0
  <2>1. 0 \in 0 .. FILE_INDEX_HUGE_THRESHOLD
    BY Thresholds
  <2> QED
    BY <1>1, <2>1, CountIsCounted
<1>3. ASSUME NEW n \in Positions
      PROVE  IndexBlockCount(n + 1) = IndexBlockCount(n) + IndexBlocksFor(GetBlockIndex(n))
  <2>1. n + 1 \in 0 .. FILE_INDEX_HUGE_THRESHOLD /\ n + 1 # 0 /\ (n + 1) - 1 = n
    BY Thresholds DEF Positions
  <2>2. Counted[n + 1] = Counted[(n + 1) - 1] + IndexBlocksFor(GetBlockIndex((n + 1) - 1))
    BY <1>1, <2>1
  <2> QED
    BY <2>1, <2>2, CountIsCounted
<1> QED
  BY <1>2, <1>3

LEMMA CountNat ==
  ASSUME NEW n \in 0 .. FILE_INDEX_HUGE_THRESHOLD
  PROVE  IndexBlockCount(n) \in Nat
<1> DEFINE Bad == {i \in 0 .. FILE_INDEX_HUGE_THRESHOLD : IndexBlockCount(i) \notin Nat}
<1>1. SUFFICES ASSUME Bad # {}
               PROVE  FALSE
  OBVIOUS
<1>2. PICK k \in Bad : \A i \in Bad : k <= i
  <2>1. Bad \subseteq Nat
    OBVIOUS
  <2> HIDE DEF Bad
  <2> QED
    BY <1>1, <2>1, LeastNumber
<1>3. k \in 0 .. FILE_INDEX_HUGE_THRESHOLD /\ IndexBlockCount(k) \notin Nat
  OBVIOUS
<1>4. k # 0
  BY <1>3, CountStep
<1>5. k - 1 \in Positions /\ k - 1 \in 0 .. FILE_INDEX_HUGE_THRESHOLD /\ k - 1 \notin Bad
  <2>1. k - 1 \in Positions /\ k - 1 \in 0 .. FILE_INDEX_HUGE_THRESHOLD
    BY <1>3, <1>4, Thresholds DEF Positions
  <2> HIDE DEF Bad
  <2>2. ~(k <= k - 1)
    BY <1>3, Thresholds
  <2> QED
    BY <1>2, <2>1, <2>2
<1>6. IndexBlockCount(k - 1) \in Nat
  BY <1>5
<1>7. IndexBlockCount(k) = IndexBlockCount(k - 1) + IndexBlocksFor(GetBlockIndex(k - 1))
  <2>1. (k - 1) + 1 = k
    BY <1>3, Thresholds
  <2> QED
    BY <1>5, <2>1, CountStep
<1> QED
  BY <1>3, <1>6, <1>7, CostNat
-----------------------------------------------------------------------------
(* Fresh(k) is the k-th block of the free list.                             *)
Below(b) == {c \in free : c < b}

LEMMA BelowSize ==
  ASSUME free \subseteq Blocks, NEW b \in Blocks
  PROVE  /\ IsFiniteSet(Below(b)) /\ Cardinality(Below(b)) \in Nat
         /\ IsFiniteSet(free) /\ Cardinality(free) \in Nat
<1>1. IsFiniteSet(Blocks)
  BY FS_Interval, IndexAssumption DEF Blocks
<1>2. IsFiniteSet(free) /\ IsFiniteSet(Below(b))
  BY <1>1, FS_Subset DEF Below
<1> QED
  BY <1>2, FS_CardinalityType

IsFresh(b, k) == b \in free /\ Cardinality(Below(b)) = k - 1

LEMMA FreshExists ==
  ASSUME free \subseteq Blocks, NEW k \in 1 .. Cardinality(free)
  PROVE  \E b \in free : IsFresh(b, k)
<1>0. PICK m \in Nat : m = Cardinality(free)
  <2>1. Cardinality(free) \in Nat
    <3>1. IsFiniteSet(Blocks)
      BY FS_Interval, IndexAssumption DEF Blocks
    <3> QED
      BY <3>1, FS_Subset, FS_CardinalityType
  <2> QED
    BY <2>1
<1>1. free \subseteq Nat /\ \A b \in free : b \in Nat /\ b \in Blocks
  BY IndexAssumption DEF Blocks
<1> DEFINE Bad == {i \in 1 .. m : ~\E b \in free : IsFresh(b, i)}
<1>2. SUFFICES ASSUME Bad # {}
               PROVE  FALSE
  BY <1>0
<1>3. PICK i \in Bad : \A j \in Bad : i <= j
  <2>1. Bad \subseteq Nat
    OBVIOUS
  <2> HIDE DEF Bad
  <2> QED
    BY <1>2, <2>1, LeastNumber
<1>4. i \in 1 .. m /\ ~\E b \in free : IsFresh(b, i)
  OBVIOUS
<1>5. CASE i = 1
  <2>1. free # {}
    BY <1>0, <1>4, FS_EmptySet
  <2>2. PICK b \in free : \A c \in free : b <= c
    BY <1>1, <2>1, LeastNumber
  <2>3. Below(b) = {}
    <3>1. SUFFICES ASSUME NEW c \in free, c < b
                   PROVE  FALSE
      BY DEF Below
    <3>2. b <= c /\ b \in Nat /\ c \in Nat
      BY <1>1, <2>2
    <3> QED
      BY <3>1, <3>2
  <2>4. IsFresh(b, 1)
    BY <2>3, FS_EmptySet DEF IsFresh
  <2> QED
    BY <1>4, <1>5, <2>4
<1>6. CASE i # 1
  <2>1. i - 1 \in 1 .. m /\ i - 1 \notin Bad
    <3>1. i - 1 \in 1 .. m /\ ~(i <= i - 1)
      BY <1>0, <1>4, <1>6
    <3> HIDE DEF Bad
    <3> QED
      BY <1>3, <3>1
  <2>2. PICK b \in free : IsFresh(b, i - 1)
    BY <2>1
  <2>3. b \in Nat /\ b \in Blocks /\ IsFiniteSet(Below(b)) /\ Cardinality(Below(b)) = i - 2
    BY <1>1, <1>4, <2>2, BelowSize DEF IsFresh
  <2>4. PICK U : U = Below(b) \cup {b}
    OBVIOUS
  <2>5. IsFiniteSet(U) /\ Cardinality(U) = i - 1
    <3>1. b \notin Below(b)
      BY <2>3 DEF Below
    <3>2. /\ IsFiniteSet(Below(b) \cup {b})
          /\ Cardinality(Below(b) \cup {b}) =
               IF b \in Below(b) THEN Cardinality(Below(b)) ELSE Cardinality(Below(b)) + 1
      BY <2>3, FS_AddElement
    <3>3. Cardinality(U) = (i - 2) + 1
      BY <2>3, <2>4, <3>1, <3>2
    <3> QED
      BY <1>4, <2>4, <3>2, <3>3
  <2>6. PICK T : T = {c \in free : c > b}
    OBVIOUS
  <2>7. T # {}
    <3>1. SUFFICES ASSUME T = {}
                   PROVE  FALSE
      OBVIOUS
    <3>2. free \subseteq U
      BY <1>1, <2>3, <2>4, <2>6, <3>1 DEF Below
    <3>3. Cardinality(free) <= Cardinality(U)
      BY <2>5, <3>2, FS_Subset
    <3> QED
      BY <1>0, <1>4, <2>5, <3>3
  <2>8. PICK c \in T : \A t \in T : c <= t
    <3>1. T \subseteq Nat
      BY <1>1, <2>6
    <3> QED
      BY <2>7, <3>1, LeastNumber
  <2>9. c \in free /\ c > b /\ c \in Nat
    BY <1>1, <2>6
  <2>10. Below(c) = U
    <3>1. ASSUME NEW t \in free
          PROVE  t < c <=> t < b \/ t = b
      <4>1. t \in Nat /\ b \in Nat /\ c \in Nat /\ c > b
        BY <1>1, <2>3, <2>9
      <4>2. t > b => c <= t
        BY <2>6, <2>8
      <4> QED
        BY <4>1, <4>2
    <3> QED
      BY <2>2, <2>4, <3>1 DEF Below
  <2>11. IsFresh(c, i)
    BY <2>5, <2>9, <2>10 DEF IsFresh
  <2> QED
    BY <1>4, <2>9, <2>11
<1> QED
  BY <1>5, <1>6

LEMMA FreshIs ==
  ASSUME free \subseteq Blocks, NEW k \in 1 .. Cardinality(free)
  PROVE  Fresh(k) \in free /\ Fresh(k) \in Blocks /\ IsFresh(Fresh(k), k)
<1>1. Fresh(k) = CHOOSE b \in free : Cardinality(Below(b)) = k - 1
  BY DEF Fresh, Below
<1>2. \E b \in free : Cardinality(Below(b)) = k - 1
  BY FreshExists DEF IsFresh
<1> QED
  BY <1>1, <1>2 DEF IsFresh

LEMMA FreshApart ==
  ASSUME free \subseteq Blocks,
         NEW k \in 1 .. Cardinality(free), NEW l \in 1 .. Cardinality(free), k # l
  PROVE  Fresh(k) # Fresh(l)
<1>1. Cardinality(Below(Fresh(k))) = k - 1 /\ Cardinality(Below(Fresh(l))) = l - 1
  BY FreshIs DEF IsFresh
<1>2. k - 1 # l - 1
  OBVIOUS
<1> QED
  BY <1>1, <1>2

LEMMA FreshFree ==
  ASSUME free \subseteq Blocks, NEW n \in Int, n <= Cardinality(free)
  PROVE  FreshBlocks(n) \subseteq free
<1> SUFFICES ASSUME NEW k \in 1 .. n
             PROVE  Fresh(k) \in free
  BY DEF FreshBlocks
<1>1. Cardinality(free) \in Nat
  <2>1. IsFiniteSet(Blocks)
    BY FS_Interval, IndexAssumption DEF Blocks
  <2> QED
    BY <2>1, FS_Subset, FS_CardinalityType
<1>2. k \in 1 .. Cardinality(free)
  BY <1>1
<1> QED
  BY <1>2, FreshIs
-----------------------------------------------------------------------------
(* An inode whose index is in order: a tree that d_addr names no more than, *)
(* of as many blocks as IndexBlockCount says.                               *)
Good(node, d) ==
  /\ node \in Inode
  /\ Tree(node, d)
  /\ Heads(node)
  /\ Cardinality(Uses(node, d)) = node.block_count + IndexBlockCount(node.block_count)

Types ==
  /\ opened \in Files \cup {None}
  /\ mode \in {"none", "grow", "shrink"}
  /\ inode \in Inode
  /\ inodes \in [Files -> Inode]
  /\ disk \in [Blocks -> Index]
  /\ free \subseteq Blocks
  /\ taken \subseteq Blocks /\ leaked \subseteq Blocks
  /\ before \in Seq(Blocks)

Use(f) == Uses(Node(f), disk)

(* Every block is free, leaked, or used by one file.                        *)
Owned ==
  /\ \A f, g \in Files : f # g => Use(f) \cap Use(g) = {}
  /\ \A f \in Files : Use(f) \cap (free \cup leaked) = {}
  /\ free \cap leaked = {}
  /\ \A b \in Blocks : b \in free \/ b \in leaked \/ \E f \in Files : b \in Use(f)

SameHeads(x, y) == \A p \in Under(x) : Outer(x, p) = Outer(y, p)

(* While an operation grows a file, the inode on disk is in order too: it   *)
(* can be gone back to.                                                     *)
Kept ==
  /\ Good(inodes[opened], disk)
  /\ before = ListIn(inodes[opened], disk)
  /\ inodes[opened].block_count <= inode.block_count
  /\ SameHeads(inodes[opened], inode)
  /\ Uses(inode, disk) = Uses(inodes[opened], disk) \cup taken
  /\ Uses(inodes[opened], disk) \cap taken = {}

IndexInv ==
  /\ Types
  /\ \A f \in Files : Good(Node(f), disk)
  /\ Owned
  /\ opened # None /\ mode # "shrink" => Kept

LEMMA InRangeIs ==
  ASSUME NEW n \in 0 .. FILE_INDEX_HUGE_THRESHOLD
  PROVE  InRange(GetBlockIndex(n)) <=> n \in Positions
<1>1. CASE n \in Positions
  <2>1. Top(n) \in Addrs
    BY <1>1, AnyPath DEF PathTyped
  <2> QED
    BY <1>1, <2>1, IndexNumbers DEF InRange, Top, Addrs
<1>2. CASE n \notin Positions
  <2>1. /\ n = FILE_INDEX_HUGE_THRESHOLD /\ ~(n < FILE_INDEX_SMALL_THRESHOLD)
        /\ ~(n < FILE_INDEX_LARGE_THRESHOLD)
    BY <1>2, Thresholds, IndexNumbers DEF Positions
  <2>2. GetBlockIndex(n) = <<-1, -1, -1>>
    BY <2>1, Thresholds DEF GetBlockIndex
  <2> QED
    BY <1>2, <2>2 DEF InRange
<1> QED
  BY <1>1, <1>2

LEMMA IndexBlocks ==
  /\ ZeroIndex \in Index /\ Garbage \in Index /\ NewInode \in Inode
  /\ NewInode.block_count = 0 /\ \A i \in Addrs : NewInode.d_addr[i] = 0
<1>1. 0 \in 0 .. BLOCK_COUNT /\ BLOCK_COUNT \in 0 .. BLOCK_COUNT
  BY IndexAssumption
<1>2. 0 \in 0 .. FILE_INDEX_HUGE_THRESHOLD
  BY Thresholds
<1> QED
  BY <1>1, <1>2 DEF ZeroIndex, Garbage, NewInode, Index, Inode

(* The blocks that push_block allocates are free, and are what the new      *)
(* position needs.                                                          *)
OuterFor(n) == IF NewOuter(GetBlockIndex(n)) THEN Fresh(2) ELSE inode.d_addr[Top(n)]
InnerFor(n) ==
  IF NewInner(GetBlockIndex(n)) THEN Fresh(Cost(n)) ELSE disk[OuterFor(n)][Mid(n)]

LEMMA FreshChosen ==
  ASSUME free \subseteq Blocks, NEW n \in Positions,
         Uses(inode, disk) \cap free = {}, Cardinality(free) >= Cost(n)
  PROVE  /\ Chosen(inode, disk, n, Fresh(1), OuterFor(n), InnerFor(n))
         /\ FreshBlocks(Cost(n)) = Added(n, Fresh(1), OuterFor(n), InnerFor(n))
<1>1. PICK m \in Nat : m = Cardinality(free)
  <2>1. IsFiniteSet(Blocks)
    BY FS_Interval, IndexAssumption DEF Blocks
  <2> QED
    BY <2>1, FS_Subset, FS_CardinalityType
<1>2. PICK c \in Nat : c = Cost(n) /\ c <= m /\ c >= 1
  <2>1. Cost(n) \in Nat /\ IndexBlocksFor(GetBlockIndex(n)) \in Nat
    BY CostNat
  <2> QED
    BY <1>1, <2>1 DEF Cost
<1>3. \A k \in 1 .. m : Fresh(k) \in free /\ Fresh(k) \in Blocks /\ Fresh(k) \notin Uses(inode, disk)
  BY <1>1, FreshIs
<1>4. \A k, l \in 1 .. m : k # l => Fresh(k) # Fresh(l)
  BY <1>1, FreshApart
<1>5. /\ NewOuter(GetBlockIndex(n)) => c >= 2 /\ OuterFor(n) = Fresh(2)
      /\ NewInner(GetBlockIndex(n)) => c >= 2 /\ InnerFor(n) = Fresh(c)
      /\ NewOuter(GetBlockIndex(n)) /\ NewInner(GetBlockIndex(n)) <=> c = 3
      /\ ~NewOuter(GetBlockIndex(n)) /\ ~NewInner(GetBlockIndex(n)) <=> c = 1
      /\ c <= 3
  BY <1>2 DEF Cost, IndexBlocksFor, OuterFor, InnerFor
<1>6. /\ ~NewOuter(GetBlockIndex(n)) => OuterFor(n) = Outer(inode, n)
      /\ ~NewInner(GetBlockIndex(n)) => InnerFor(n) = disk[OuterFor(n)][Mid(n)]
  BY DEF OuterFor, InnerFor, Outer
<1>7. Chosen(inode, disk, n, Fresh(1), OuterFor(n), InnerFor(n))
  <2>1. 1 \in 1 .. m /\ c \in 1 .. m
    BY <1>2
  <2>2. c >= 2 => 2 \in 1 .. m
    BY <1>2
  <2>3. Fresh(1) \in Blocks /\ Fresh(1) \notin Uses(inode, disk)
    BY <1>3, <2>1
  <2>4. NewOuter(GetBlockIndex(n)) =>
          /\ OuterFor(n) \in Blocks /\ OuterFor(n) \notin Uses(inode, disk)
          /\ OuterFor(n) # Fresh(1)
    BY <1>3, <1>4, <1>5, <2>1, <2>2
  <2>5. NewInner(GetBlockIndex(n)) =>
          /\ InnerFor(n) \in Blocks /\ InnerFor(n) \notin Uses(inode, disk)
          /\ InnerFor(n) # Fresh(1)
    BY <1>3, <1>4, <1>5, <2>1
  <2>6. NewOuter(GetBlockIndex(n)) /\ NewInner(GetBlockIndex(n)) => InnerFor(n) # OuterFor(n)
    BY <1>4, <1>5, <2>1, <2>2
  <2> QED
    BY <1>6, <2>3, <2>4, <2>5, <2>6 DEF Chosen
<1>8. FreshBlocks(c) = Added(n, Fresh(1), OuterFor(n), InnerFor(n))
  <2>1. \A b : b \in FreshBlocks(c) <=> \E k \in 1 .. c : b = Fresh(k)
    BY DEF FreshBlocks
  <2>2. \A b : b \in FreshBlocks(c) => b \in Blocks
    BY <1>2, <1>3, <2>1
  <2>3. \A k \in 1 .. c : k = 1 \/ (k = 2 /\ c >= 2) \/ (k = 3 /\ c = 3)
    BY <1>5
  <2>4. \A b : b \in FreshBlocks(c) <=>
                 b = Fresh(1) \/ (c >= 2 /\ b = Fresh(2)) \/ (c = 3 /\ b = Fresh(3))
    <3>1. 1 \in 1 .. c /\ (c >= 2 => 2 \in 1 .. c) /\ (c = 3 => 3 \in 1 .. c)
      BY <1>2
    <3> QED
      BY <2>1, <2>3, <3>1
  <2>5. \A b : b \in FreshBlocks(c) <=>
                 \/ b = Fresh(1)
                 \/ NewOuter(GetBlockIndex(n)) /\ b = OuterFor(n)
                 \/ NewInner(GetBlockIndex(n)) /\ b = InnerFor(n)
    <3>1. c = 1 \/ c = 2 \/ c = 3
      BY <1>2, <1>5
    <3>2. CASE c = 1
      BY <1>5, <2>4, <3>2
    <3>3. CASE c = 2
      BY <1>5, <2>4, <3>3
    <3>4. CASE c = 3
      BY <1>5, <2>4, <3>4
    <3> QED
      BY <3>1, <3>2, <3>3, <3>4
  <2> QED
    BY <2>2, <2>5 DEF Added
<1> QED
  BY <1>2, <1>7, <1>8

(* PushBlock, said of the operation's inode and the disk.                   *)
PushStep(n) ==
  /\ n \in Positions
  /\ Cardinality(free) >= Cost(n)
  /\ free' = free \ FreshBlocks(Cost(n))
  /\ taken' = taken \cup FreshBlocks(Cost(n))
  /\ Pushed(inode, disk, n, Fresh(1), OuterFor(n), InnerFor(n), inode', disk')
  /\ inode'.block_count = n + 1
  /\ inode' \in Inode
  /\ disk' \in [Blocks -> Index]

FreshOuter(n) == IndexBlock(NewOuter(GetBlockIndex(n)), OuterFor(n))
FreshInner(n) == IndexBlock(NewInner(GetBlockIndex(n)), InnerFor(n))

LEMMA PushParts ==
  ASSUME PushBlock, NEW n, n = inode.block_count
  PROVE  /\ InRange(GetBlockIndex(n))
         /\ Cardinality(free) >= Cost(n)
         /\ free' = free \ FreshBlocks(Cost(n))
         /\ taken' = taken \cup FreshBlocks(Cost(n))
         /\ inode' = [d_addr |-> [inode.d_addr EXCEPT ![Top(n)] =
                                    IF Mid(n) = -1 THEN Fresh(1) ELSE OuterFor(n)],
                      block_count |-> n + 1]
         /\ disk' =
              IF Mid(n) = -1 THEN [disk EXCEPT ![Fresh(1)] = Garbage]
              ELSE IF Low(n) = -1
              THEN [disk EXCEPT ![Fresh(1)] = Garbage,
                                ![OuterFor(n)] = [FreshOuter(n) EXCEPT ![Mid(n)] = Fresh(1)]]
              ELSE [disk EXCEPT ![Fresh(1)] = Garbage,
                                ![OuterFor(n)] = [FreshOuter(n) EXCEPT ![Mid(n)] = InnerFor(n)],
                                ![InnerFor(n)] = [FreshInner(n) EXCEPT ![Low(n)] = Fresh(1)]]
BY DEF PushBlock, Cost, Top, Mid, Low, OuterFor, InnerFor, FreshOuter, FreshInner

LEMMA PushIs ==
  ASSUME Types, PushBlock, NEW n, n = inode.block_count,
         Tree(inode, disk), Uses(inode, disk) \cap free = {}
  PROVE  PushStep(n)
<1>1. /\ InRange(GetBlockIndex(n))
      /\ Cardinality(free) >= Cost(n)
      /\ free' = free \ FreshBlocks(Cost(n))
      /\ taken' = taken \cup FreshBlocks(Cost(n))
  BY PushParts
<1>2. n \in 0 .. FILE_INDEX_HUGE_THRESHOLD /\ inode \in Inode /\ disk \in [Blocks -> Index]
  BY DEF Types, Inode
<1>3. n \in Positions
  BY <1>1, <1>2, InRangeIs
<1>4. PICK new, outer, inner : new = Fresh(1) /\ outer = OuterFor(n) /\ inner = InnerFor(n)
  OBVIOUS
<1>5. Chosen(inode, disk, n, new, outer, inner)
  BY <1>1, <1>3, <1>4, FreshChosen DEF Types
<1>6. /\ new \in Blocks
      /\ Mid(n) # -1 => outer \in Blocks /\ outer # new
      /\ Low(n) # -1 => inner \in Blocks /\ inner # new /\ inner # outer
  <2>1. PICK lab : Labels(inode, disk, lab)
    BY DEF Tree
  <2>2. /\ Mid(n) # -1 => outer \in Blocks /\ outer # new
        /\ Low(n) # -1 => inner \in Blocks /\ inner # new /\ inner # outer
    BY <1>3, <1>5, <2>1, ChosenApart
  <2> QED
    BY <1>5, <2>2 DEF Chosen
<1>7. PathTyped(n) /\ (Low(n) # -1 => Mid(n) # -1)
  BY <1>3, AnyPath, FirstInner
<1>8. PICK b1, b2 : b1 = FreshOuter(n) /\ b2 = FreshInner(n)
  OBVIOUS
<1>9. /\ Mid(n) # -1 => b1 \in Index
      /\ Low(n) # -1 => b2 \in Index
      /\ Mid(n) # -1 /\ ~NewOuter(GetBlockIndex(n)) => b1 = disk[outer]
      /\ Low(n) # -1 /\ ~NewInner(GetBlockIndex(n)) => b2 = disk[inner]
  BY <1>2, <1>4, <1>6, <1>8, IndexBlocks DEF FreshOuter, FreshInner, IndexBlock
<1>10. PICK c1, c2 : /\ c1 = [b1 EXCEPT ![Mid(n)] = IF Low(n) = -1 THEN new ELSE inner]
                     /\ c2 = [b2 EXCEPT ![Low(n)] = new]
  OBVIOUS
<1>11. new \in 0 .. BLOCK_COUNT /\ (Mid(n) # -1 => outer \in 0 .. BLOCK_COUNT)
         /\ (Low(n) # -1 => inner \in 0 .. BLOCK_COUNT)
  BY <1>6, IndexAssumption DEF Blocks
<1>12. Mid(n) # -1 =>
         /\ c1 \in Index /\ c1[Mid(n)] = IF Low(n) = -1 THEN new ELSE inner
         /\ \A j \in Indexes : j # Mid(n) => c1[j] = b1[j]
  BY <1>7, <1>9, <1>10, <1>11 DEF PathTyped, Index
<1>13. Low(n) # -1 =>
         /\ c2 \in Index /\ c2[Low(n)] = new
         /\ \A j \in Indexes : j # Low(n) => c2[j] = b2[j]
  BY <1>7, <1>9, <1>10, <1>11 DEF PathTyped, Index
<1>14. /\ disk' \in [Blocks -> Index]
       /\ \A b \in Blocks : disk'[b] = IF Low(n) # -1 /\ b = inner THEN c2
                                       ELSE IF Mid(n) # -1 /\ b = outer THEN c1
                                       ELSE IF b = new THEN Garbage ELSE disk[b]
  <2>1. Garbage \in Index
    BY IndexBlocks
  <2>2. CASE Mid(n) = -1
    <3>1. disk' = [disk EXCEPT ![new] = Garbage] /\ Low(n) = -1
      BY <1>4, <1>7, <2>2, PushParts
    <3> QED
      BY <1>2, <1>6, <2>1, <2>2, <3>1
  <2>3. CASE Mid(n) # -1 /\ Low(n) = -1
    <3>1. disk' = [disk EXCEPT ![new] = Garbage, ![outer] = c1]
      <4>1. disk' = [disk EXCEPT ![Fresh(1)] = Garbage,
                                 ![OuterFor(n)] = [FreshOuter(n) EXCEPT ![Mid(n)] = Fresh(1)]]
        BY <2>3, PushParts
      <4>2. c1 = [b1 EXCEPT ![Mid(n)] = new]
        BY <1>10, <2>3
      <4> QED
        BY <1>4, <1>8, <4>1, <4>2
    <3> QED
      BY <1>2, <1>6, <1>12, <2>1, <2>3, <3>1
  <2>4. CASE Mid(n) # -1 /\ Low(n) # -1
    <3>1. disk' = [disk EXCEPT ![new] = Garbage, ![outer] = c1, ![inner] = c2]
      <4>1. disk' =
              [disk EXCEPT ![Fresh(1)] = Garbage,
                           ![OuterFor(n)] = [FreshOuter(n) EXCEPT ![Mid(n)] = InnerFor(n)],
                           ![InnerFor(n)] = [FreshInner(n) EXCEPT ![Low(n)] = Fresh(1)]]
        BY <2>4, PushParts
      <4>2. c1 = [b1 EXCEPT ![Mid(n)] = inner]
        BY <1>10, <2>4
      <4> QED
        BY <1>4, <1>8, <1>10, <4>1, <4>2
    <3> QED
      BY <1>2, <1>6, <1>12, <1>13, <2>1, <2>4, <3>1
  <2> QED
    BY <1>7, <2>2, <2>3, <2>4
<1>15. PICK a : a = IF Mid(n) = -1 THEN new ELSE outer
  OBVIOUS
<1>16. a \in 0 .. BLOCK_COUNT
  BY <1>11, <1>15
<1>17. inode' = [d_addr |-> [inode.d_addr EXCEPT ![Top(n)] = a], block_count |-> n + 1]
  BY <1>4, <1>15, PushParts
<1>18. /\ inode' \in Inode /\ inode'.block_count = n + 1
       /\ \A i \in Addrs : inode'.d_addr[i] = IF i = Top(n) THEN a ELSE inode.d_addr[i]
  <2>1. n + 1 \in 0 .. FILE_INDEX_HUGE_THRESHOLD
    BY <1>3, Thresholds DEF Positions
  <2>2. inode.d_addr \in [Addrs -> 0 .. BLOCK_COUNT] /\ Top(n) \in Addrs
    BY <1>2, <1>7 DEF Inode, PathTyped
  <2> QED
    BY <1>16, <1>17, <2>1, <2>2 DEF Inode
<1>19. Pushed(inode, disk, n, new, outer, inner, inode', disk')
  <2>1. Mid(n) # -1 => disk'[outer] = c1
    BY <1>6, <1>14
  <2>2. Low(n) # -1 => disk'[inner] = c2
    BY <1>6, <1>14
  <2>3. \A i \in Addrs : inode'.d_addr[i] = IF i = Top(n)
                                            THEN IF Mid(n) = -1 THEN new ELSE outer
                                            ELSE inode.d_addr[i]
    BY <1>15, <1>18
  <2>4. \A b \in Blocks : b # new /\ ~(Mid(n) # -1 /\ b = outer) /\ ~(Low(n) # -1 /\ b = inner)
                            => disk'[b] = disk[b]
    BY <1>14
  <2> QED
    BY <1>9, <1>12, <1>13, <2>1, <2>2, <2>3, <2>4 DEF Pushed
<1> QED
  BY <1>1, <1>3, <1>4, <1>14, <1>18, <1>19 DEF PushStep

(* PopBlock, said the same way.                                             *)
PopStep(n) ==
  /\ n \in Positions
  /\ inode.block_count = n + 1
  /\ free' = free \cup Gone(inode, disk, n)
  /\ Popped(inode, disk, n, inode', disk')
  /\ inode'.block_count = n
  /\ inode' \in Inode
  /\ disk' \in [Blocks -> Index]

LetGo(n) ==
  Released(GetBlockIndex(n), Outer(inode, n), Inner(inode, disk, n), DataAt(inode, disk, n))
Cleared(n) ==
  IF Mid(n) = -1 THEN disk
  ELSE IF Low(n) = -1 THEN [disk EXCEPT ![Outer(inode, n)][Mid(n)] = 0]
  ELSE IF Low(n) = 0 THEN [disk EXCEPT ![Outer(inode, n)][Mid(n)] = 0,
                                       ![Inner(inode, disk, n)][Low(n)] = 0]
  ELSE [disk EXCEPT ![Inner(inode, disk, n)][Low(n)] = 0]

LEMMA PopParts ==
  ASSUME PopBlock, NEW n, n = inode.block_count - 1
  PROVE  /\ free' = free \cup LetGo(n)
         /\ disk' = [b \in Blocks |-> IF b \in LetGo(n) THEN Garbage ELSE Cleared(n)[b]]
         /\ inode' = [d_addr |-> [inode.d_addr EXCEPT ![Top(n)] =
                                    IF AddrCleared(GetBlockIndex(n)) THEN 0
                                    ELSE inode.d_addr[Top(n)]],
                      block_count |-> n]
<1>1. free' = free \cup LetGo(n)
  BY DEF PopBlock, LetGo, Outer, Inner, DataAt, Top, Mid, Low
<1>2. disk' = [b \in Blocks |-> IF b \in LetGo(n) THEN Garbage ELSE Cleared(n)[b]]
  <2>1. disk' = [b \in Blocks |-> IF b \in LetGo(inode.block_count - 1) THEN Garbage
                                  ELSE Cleared(inode.block_count - 1)[b]]
    BY DEF PopBlock, LetGo, Cleared, Outer, Inner, DataAt, Top, Mid, Low
  <2> QED
    BY <2>1
<1>3. inode' = [d_addr |-> [inode.d_addr EXCEPT ![Top(n)] =
                              IF AddrCleared(GetBlockIndex(n)) THEN 0
                              ELSE inode.d_addr[Top(n)]],
                block_count |-> n]
  BY DEF PopBlock, Top
<1> QED
  BY <1>1, <1>2, <1>3

LEMMA PopIs ==
  ASSUME Types, PopBlock, inode.block_count > 0, Tree(inode, disk),
         NEW n, n = inode.block_count - 1
  PROVE  PopStep(n)
<1>1. inode \in Inode /\ disk \in [Blocks -> Index]
  BY DEF Types
<1>2. n \in Positions /\ inode.block_count = n + 1 /\ n \in Under(inode)
  BY <1>1, Thresholds DEF Inode, Positions, Under
<1>3. PathTyped(n) /\ (Low(n) # -1 => Mid(n) # -1)
  BY <1>2, AnyPath, FirstInner
<1>4. /\ NewOuter(GetBlockIndex(n)) => Mid(n) # -1
      /\ NewInner(GetBlockIndex(n)) => Low(n) # -1
  BY <1>2, FirstInner, FirstOuter
<1>5. PICK lab : Labels(inode, disk, lab)
  BY DEF Tree
<1>6. PICK outer, inner, last : /\ outer = Outer(inode, n) /\ inner = Inner(inode, disk, n)
                                /\ last = DataAt(inode, disk, n)
  OBVIOUS
<1>7. /\ last \in Blocks
      /\ Mid(n) # -1 => outer \in Blocks
      /\ Low(n) # -1 => inner \in Blocks /\ inner # outer
  <2>1. /\ DataAt(inode, disk, n) \in Blocks
        /\ Mid(n) # -1 => Outer(inode, n) \in Blocks
        /\ Low(n) # -1 => Inner(inode, disk, n) \in Blocks
        /\ Mid(n) # -1 /\ Low(n) # -1 => Outer(inode, n) # Inner(inode, disk, n)
    BY <1>2, <1>5, PartsApart
  <2> QED
    BY <1>3, <1>6, <2>1
<1>8. LetGo(n) = Gone(inode, disk, n)
  <2>1. \A b : b \in LetGo(n) <=> \/ b = last
                                  \/ NewOuter(GetBlockIndex(n)) /\ b = outer
                                  \/ NewInner(GetBlockIndex(n)) /\ b = inner
    BY <1>6 DEF LetGo, Released
  <2>2. \A b : b \in Gone(inode, disk, n) <=>
                 b \in Blocks /\ (\/ b = last
                                  \/ NewOuter(GetBlockIndex(n)) /\ b = outer
                                  \/ NewInner(GetBlockIndex(n)) /\ b = inner)
    BY <1>6 DEF Gone
  <2> QED
    BY <1>4, <1>7, <2>1, <2>2
<1>9. /\ Cleared(n) \in [Blocks -> Index]
      /\ \A b \in Blocks :
           /\ ~(Mid(n) # -1 /\ b = outer) /\ ~(Low(n) # -1 /\ b = inner)
                => Cleared(n)[b] = disk[b]
           /\ Mid(n) # -1 /\ b = outer =>
                \A j \in Indexes : j # Mid(n) \/ Low(n) \notin {-1, 0}
                                     => Cleared(n)[b][j] = disk[b][j]
           /\ Low(n) # -1 /\ b = inner =>
                \A j \in Indexes : j # Low(n) => Cleared(n)[b][j] = disk[b][j]
  <2>1. 0 \in 0 .. BLOCK_COUNT
    BY IndexAssumption
  <2>2. CASE Mid(n) = -1
    BY <1>1, <1>3, <2>2 DEF Cleared
  <2>3. PICK c1, c2 : /\ c1 = [disk[outer] EXCEPT ![Mid(n)] = 0]
                      /\ c2 = [disk[inner] EXCEPT ![Low(n)] = 0]
    OBVIOUS
  <2>4. Mid(n) # -1 => /\ Mid(n) \in Indexes /\ c1 \in Index
                       /\ \A j \in Indexes : j # Mid(n) => c1[j] = disk[outer][j]
    BY <1>1, <1>3, <1>7, <2>1, <2>3 DEF Index, PathTyped
  <2>5. Low(n) # -1 => /\ Low(n) \in Indexes /\ c2 \in Index
                       /\ \A j \in Indexes : j # Low(n) => c2[j] = disk[inner][j]
    BY <1>1, <1>3, <1>7, <2>1, <2>3 DEF Index, PathTyped
  <2>6. CASE Mid(n) # -1 /\ Low(n) = -1
    <3>1. Cleared(n) = [disk EXCEPT ![outer] = c1]
      BY <1>6, <2>3, <2>6 DEF Cleared
    <3> QED
      BY <1>1, <1>7, <2>4, <2>6, <3>1
  <2>7. CASE Mid(n) # -1 /\ Low(n) # -1 /\ Low(n) # 0
    <3>1. Cleared(n) = [disk EXCEPT ![inner] = c2]
      BY <1>6, <2>3, <2>7 DEF Cleared
    <3> QED
      BY <1>1, <1>7, <2>5, <2>7, <3>1
  <2>8. CASE Mid(n) # -1 /\ Low(n) # -1 /\ Low(n) = 0
    <3>1. Cleared(n) = [disk EXCEPT ![outer] = c1, ![inner] = c2]
      <4>1. Cleared(n) = [disk EXCEPT ![outer][Mid(n)] = 0, ![inner][Low(n)] = 0]
        BY <1>6, <2>8 DEF Cleared
      <4>2. [disk EXCEPT ![outer] = c1][inner] = disk[inner]
        BY <1>1, <1>7, <2>8
      <4> QED
        BY <2>3, <4>1, <4>2
    <3> QED
      BY <1>1, <1>7, <2>4, <2>5, <2>8, <3>1
  <2> QED
    BY <1>3, <2>2, <2>6, <2>7, <2>8
<1> HIDE DEF Cleared
<1>10. /\ disk' \in [Blocks -> Index]
       /\ \A b \in Blocks : b \notin Gone(inode, disk, n) => disk'[b] = Cleared(n)[b]
  <2>1. disk' = [b \in Blocks |-> IF b \in Gone(inode, disk, n) THEN Garbage ELSE Cleared(n)[b]]
    BY <1>2, <1>8, PopParts
  <2>2. Garbage \in Index
    BY IndexBlocks
  <2> QED
    BY <1>9, <2>1, <2>2
<1>11. /\ inode' \in Inode /\ inode'.block_count = n
       /\ \A i \in Addrs : inode'.d_addr[i] =
            IF i = Top(n) /\ AddrCleared(GetBlockIndex(n)) THEN 0 ELSE inode.d_addr[i]
  <2>1. inode.d_addr \in [Addrs -> 0 .. BLOCK_COUNT] /\ Top(n) \in Addrs
    BY <1>1, <1>3 DEF Inode, PathTyped
  <2>2. n \in 0 .. FILE_INDEX_HUGE_THRESHOLD
    BY <1>2, Thresholds DEF Positions
  <2>3. PICK a : a = IF AddrCleared(GetBlockIndex(n)) THEN 0 ELSE inode.d_addr[Top(n)]
    OBVIOUS
  <2>4. a \in 0 .. BLOCK_COUNT
    BY <2>1, <2>3, IndexAssumption
  <2>5. inode' = [d_addr |-> [inode.d_addr EXCEPT ![Top(n)] = a], block_count |-> n]
    BY <1>2, <2>3, PopParts
  <2> QED
    BY <2>1, <2>2, <2>3, <2>4, <2>5 DEF Inode
<1>12. Popped(inode, disk, n, inode', disk')
  <2>1. \A b \in Blocks : b \notin Gone(inode, disk, n) =>
          /\ ~(Mid(n) # -1 /\ b = Outer(inode, n)) /\ ~(Low(n) # -1 /\ b = Inner(inode, disk, n))
               => disk'[b] = disk[b]
          /\ Mid(n) # -1 /\ b = Outer(inode, n) =>
               \A j \in Indexes : j # Mid(n) \/ Low(n) \notin {-1, 0}
                                    => disk'[b][j] = disk[b][j]
          /\ Low(n) # -1 /\ b = Inner(inode, disk, n) =>
               \A j \in Indexes : j # Low(n) => disk'[b][j] = disk[b][j]
    BY <1>6, <1>9, <1>10
  <2> QED
    BY <1>11, <2>1 DEF Popped
<1>13. free' = free \cup Gone(inode, disk, n)
  BY <1>2, <1>8, PopParts
<1> QED
  BY <1>2, <1>10, <1>11, <1>12, <1>13 DEF PopStep

(* Sizes of sets of blocks.                                                 *)
LEMMA UsesFinite ==
  ASSUME NEW x, NEW d
  PROVE  IsFiniteSet(Uses(x, d)) /\ Cardinality(Uses(x, d)) \in Nat
<1>1. IsFiniteSet(Blocks)
  BY FS_Interval, IndexAssumption DEF Blocks
<1>2. Uses(x, d) \in SUBSET Blocks
  BY DEF Uses
<1> QED
  BY <1>1, <1>2, FS_Subset, FS_CardinalityType

LEMMA JoinSize ==
  ASSUME NEW A, NEW B, IsFiniteSet(A), IsFiniteSet(B), A \cap B = {}
  PROVE  Cardinality(A \cup B) = Cardinality(A) + Cardinality(B)
<1>1. Cardinality(A \cup B) = Cardinality(A) + Cardinality(B) - Cardinality(A \cap B)
  BY FS_Union
<1>2. Cardinality(A) \in Nat /\ Cardinality(B) \in Nat
  BY FS_CardinalityType
<1>3. Cardinality(A \cap B) = 0
  BY FS_EmptySet
<1> QED
  BY <1>1, <1>2, <1>3

LEMMA RestSize ==
  ASSUME NEW A, NEW B, IsFiniteSet(A), B \subseteq A
  PROVE  Cardinality(A \ B) = Cardinality(A) - Cardinality(B)
<1>1. Cardinality(A \ B) = Cardinality(A) - Cardinality(A \cap B)
  BY FS_Difference
<1>2. A \cap B = B
  OBVIOUS
<1> QED
  BY <1>1, <1>2

(* What a turn of growing does to the opened inode, all together.           *)
Grown(n) ==
  /\ PushStep(n)
  /\ n = inode.block_count
  /\ Good(inode', disk')
  /\ Same(inode, disk, inode', disk', n)
  /\ DataAt(inode', disk', n) = Fresh(1)
  /\ Fresh(1) \in Blocks /\ Fresh(1) \in free
  /\ Uses(inode', disk') = Uses(inode, disk) \cup FreshBlocks(Cost(n))
  /\ FreshBlocks(Cost(n)) \subseteq free
  /\ \A b \in Blocks : b \notin Uses(inode, disk) /\ b \notin free => disk'[b] = disk[b]

LEMMA GrowsWell ==
  ASSUME Types, PushBlock, Good(inode, disk), Uses(inode, disk) \cap free = {},
         NEW n, n = inode.block_count
  PROVE  Grown(n)
<1>1. PushStep(n) /\ free \subseteq Blocks
  BY PushIs DEF Good, Types
<1>2. PICK lab : Labels(inode, disk, lab)
  BY DEF Good, Tree
<1>3. PICK new, outer, inner : new = Fresh(1) /\ outer = OuterFor(n) /\ inner = InnerFor(n)
  OBVIOUS
<1>4. n \in Positions /\ Cardinality(free) >= Cost(n)
        /\ Pushed(inode, disk, n, new, outer, inner, inode', disk')
        /\ inode'.block_count = n + 1 /\ inode' \in Inode
  BY <1>1, <1>3 DEF PushStep
<1>5. /\ Chosen(inode, disk, n, new, outer, inner)
      /\ FreshBlocks(Cost(n)) = Added(n, new, outer, inner)
  BY <1>1, <1>3, <1>4, FreshChosen
<1>6. Same(inode, disk, inode', disk', n)
  BY <1>2, <1>4, <1>5, PushKeeps
<1>7. DataAt(inode', disk', n) = new
  BY <1>4, PushPuts
<1>8. Uses(inode', disk') = Uses(inode, disk) \cup FreshBlocks(Cost(n))
  <2>1. PICK y, e : y = inode' /\ e = disk'
    OBVIOUS
  <2>2. Pushed(inode, disk, n, new, outer, inner, y, e) /\ y.block_count = n + 1
    BY <1>4, <2>1
  <2>3. Uses(y, e) = Uses(inode, disk) \cup Added(n, new, outer, inner)
    <3>1. Gains(inode, disk, y, e, Added(n, new, outer, inner))
      BY <1>2, <1>4, <1>5, <2>2, PushUses
    <3> QED
      BY <3>1 DEF Gains
  <2> QED
    BY <1>5, <2>1, <2>3
<1>9. FreshBlocks(Cost(n)) \subseteq free
  BY <1>1, <1>4, FreshFree, CostNat
<1>10. new \in Blocks /\ new \in free
  <2>0. new \in Blocks
    BY <1>5 DEF Chosen
  <2>1. 1 \in 1 .. Cardinality(free)
    <3>1. Cardinality(free) \in Nat
      BY <1>1, <2>0, BelowSize
    <3>2. Cost(n) >= 1
      BY DEF Cost, IndexBlocksFor
    <3> QED
      BY <1>4, <3>1, <3>2, CostNat
  <2> QED
    BY <1>1, <1>3, <2>1, FreshIs
<1>11. Good(inode', disk')
  <2>1. Tree(inode', disk')
    BY <1>4, <1>5, PushTree DEF Good
  <2>2. Heads(inode')
    BY <1>4, PushHeads DEF Good
  <2>3. Cardinality(Uses(inode', disk')) = (n + 1) + IndexBlockCount(n + 1)
    <3>1. IsFiniteSet(FreshBlocks(Cost(n))) /\ Cardinality(FreshBlocks(Cost(n))) = Cost(n)
      BY <1>5, AddedSize
    <3>2. Uses(inode, disk) \cap FreshBlocks(Cost(n)) = {}
      BY <1>9
    <3>3. Cardinality(Uses(inode', disk')) = Cardinality(Uses(inode, disk)) + Cost(n)
      BY <1>8, <3>1, <3>2, JoinSize, UsesFinite
    <3>4. Cardinality(Uses(inode, disk)) = n + IndexBlockCount(n)
      BY DEF Good
    <3>5. /\ IndexBlockCount(n + 1) = IndexBlockCount(n) + IndexBlocksFor(GetBlockIndex(n))
          /\ IndexBlockCount(n) \in Nat
      BY <1>4, CountStep, CountNat, Thresholds DEF Positions
    <3>6. n \in Nat /\ IndexBlocksFor(GetBlockIndex(n)) \in Nat
      BY <1>4, CostNat, Thresholds DEF Positions
    <3> QED
      BY <3>3, <3>4, <3>5, <3>6 DEF Cost
  <2> QED
    BY <1>4, <2>1, <2>2, <2>3 DEF Good
<1>12. \A b \in Blocks : b \notin Uses(inode, disk) /\ b \notin free => disk'[b] = disk[b]
  <2> SUFFICES ASSUME NEW b \in Blocks, b \notin Uses(inode, disk), b \notin free
               PROVE  disk'[b] = disk[b]
    OBVIOUS
  <2>1. /\ Mid(n) # -1 => (NewOuter(GetBlockIndex(n)) \/ outer \in Uses(inode, disk))
        /\ Low(n) # -1 => (NewInner(GetBlockIndex(n)) \/ inner \in Uses(inode, disk))
    BY <1>2, <1>4, <1>5, ChosenApart
  <2>2. b \notin Added(n, new, outer, inner)
    BY <1>5, <1>9
  <2>3. /\ b # new
        /\ NewOuter(GetBlockIndex(n)) => b # outer
        /\ NewInner(GetBlockIndex(n)) => b # inner
    BY <2>2 DEF Added
  <2>4. b # new /\ ~(Mid(n) # -1 /\ b = outer) /\ ~(Low(n) # -1 /\ b = inner)
    BY <2>1, <2>3
  <2> QED
    BY <1>4, <2>4 DEF Pushed
<1> QED
  BY <1>1, <1>3, <1>6, <1>7, <1>8, <1>9, <1>10, <1>11, <1>12 DEF Grown

(* What a turn of shrinking does to it.                                     *)
Shrunk(n) ==
  /\ PopStep(n)
  /\ Good(inode', disk')
  /\ Same(inode, disk, inode', disk', n)
  /\ Uses(inode', disk') = Uses(inode, disk) \ Gone(inode, disk, n)
  /\ Gone(inode, disk, n) \subseteq Uses(inode, disk)
  /\ \A b \in Blocks : b \notin Uses(inode, disk) => disk'[b] = disk[b]

LEMMA ShrinksWell ==
  ASSUME Types, PopBlock, inode.block_count > 0, Good(inode, disk),
         NEW n, n = inode.block_count - 1
  PROVE  Shrunk(n)
<1>1. PopStep(n)
  BY PopIs DEF Good
<1>2. PICK lab : Labels(inode, disk, lab)
  BY DEF Good, Tree
<1>3. /\ n \in Positions /\ inode.block_count = n + 1
      /\ Popped(inode, disk, n, inode', disk')
      /\ inode'.block_count = n /\ inode' \in Inode
  BY <1>1 DEF PopStep
<1>4. Same(inode, disk, inode', disk', n)
  BY <1>2, <1>3, PopKeeps
<1>5. /\ Uses(inode', disk') = Uses(inode, disk) \ Gone(inode, disk, n)
      /\ Gone(inode, disk, n) \subseteq Uses(inode, disk)
  BY <1>2, <1>3, PopUses
<1>6. n \in Under(inode)
  BY <1>3, Thresholds DEF Under, Positions
<1>7. Good(inode', disk')
  <2>1. Tree(inode', disk')
    BY <1>3, PopTree DEF Good
  <2>2. Heads(inode')
    BY <1>3, PopHeads DEF Good
  <2>3. Cardinality(Uses(inode', disk')) = n + IndexBlockCount(n)
    <3>1. Cardinality(Gone(inode, disk, n)) = Cost(n)
      BY <1>2, <1>3, <1>6, GoneSize
    <3>2. Cardinality(Uses(inode', disk')) = Cardinality(Uses(inode, disk)) - Cost(n)
      BY <1>5, <3>1, RestSize, UsesFinite
    <3>3. Cardinality(Uses(inode, disk)) = (n + 1) + IndexBlockCount(n + 1)
      BY <1>3 DEF Good
    <3>4. /\ IndexBlockCount(n + 1) = IndexBlockCount(n) + IndexBlocksFor(GetBlockIndex(n))
          /\ IndexBlockCount(n) \in Nat
      BY <1>3, CountStep, CountNat, Thresholds DEF Positions
    <3>5. n \in Nat /\ IndexBlocksFor(GetBlockIndex(n)) \in Nat
      BY <1>3, CostNat, Thresholds DEF Positions
    <3> QED
      BY <3>2, <3>3, <3>4, <3>5 DEF Cost
  <2> QED
    BY <1>3, <2>1, <2>2, <2>3 DEF Good
<1>8. \A b \in Blocks : b \notin Uses(inode, disk) => disk'[b] = disk[b]
  <2> SUFFICES ASSUME NEW b \in Blocks, b \notin Uses(inode, disk)
               PROVE  disk'[b] = disk[b]
    OBVIOUS
  <2>1. /\ Mid(n) # -1 => Outer(inode, n) \in Uses(inode, disk)
        /\ Low(n) # -1 => Inner(inode, disk, n) \in Uses(inode, disk)
    BY <1>2, <1>6, PartsUsed
  <2>2. b \notin Gone(inode, disk, n)
    BY <1>5
  <2> QED
    BY <1>3, <2>1, <2>2 DEF Popped
<1> QED
  BY <1>1, <1>4, <1>5, <1>7, <1>8 DEF Shrunk
-----------------------------------------------------------------------------
(* A file none of whose blocks is written is as good on the new content of  *)
(* the disk, and the same file.                                             *)
Stays(x, d, e) ==
  /\ Good(x, e)
  /\ Uses(x, e) = Uses(x, d)
  /\ ListIn(x, e) = ListIn(x, d)

LEMMA SameStays ==
  ASSUME NEW x, NEW d, NEW e, Good(x, d), Same(x, d, x, e, x.block_count)
  PROVE  Stays(x, d, e)
<1>1. PICK n \in 0 .. FILE_INDEX_HUGE_THRESHOLD : x.block_count = n
  BY DEF Good, Inode
<1>2. n \in Nat /\ Same(x, d, x, e, n)
  BY <1>1, Thresholds
<1>3. /\ Uses(x, d) = Uses(x, e)
      /\ ListIn(x, d) = ListIn(x, e)
      /\ \A lab : Labels(x, d, lab) => Labels(x, e, lab)
  BY <1>1, <1>2, SameParts
<1>4. Tree(x, e)
  BY <1>3 DEF Tree, Good
<1> QED
  BY <1>3, <1>4 DEF Stays, Good

LEMMA UntouchedStays ==
  ASSUME NEW x, NEW d, NEW e, Good(x, d), \A b \in Uses(x, d) : e[b] = d[b]
  PROVE  Stays(x, d, e)
<1>1. PICK n \in 0 .. FILE_INDEX_HUGE_THRESHOLD : x.block_count = n
  BY DEF Good, Inode
<1>2. PICK lab : Labels(x, d, lab)
  BY DEF Good, Tree
<1>3. Same(x, d, x, e, n)
  BY <1>1, <1>2, Untouched
<1> QED
  BY <1>1, <1>3, SameStays

(* A file without blocks.                                                   *)
LEMMA NewIsGood ==
  ASSUME NEW d
  PROVE  Good(NewInode, d) /\ Uses(NewInode, d) = {}
<1>1. Under(NewInode) = {}
  BY IndexBlocks DEF Under
<1>2. Uses(NewInode, d) = {}
  BY <1>1 DEF Uses
<1>3. Tree(NewInode, d)
  BY <1>1 DEF Tree, Labels
<1>4. Heads(NewInode)
  BY IndexBlocks DEF Heads
<1>5. Cardinality(Uses(NewInode, d)) = 0 /\ IndexBlockCount(0) = 0
  BY <1>2, FS_EmptySet, CountStep
<1> QED
  BY <1>2, <1>3, <1>4, <1>5, IndexBlocks DEF Good

LEMMA ListTyped ==
  ASSUME NEW x, NEW d, Good(x, d)
  PROVE  /\ ListIn(x, d) \in Seq(Blocks)
         /\ Len(ListIn(x, d)) = x.block_count
         /\ DOMAIN ListIn(x, d) = 1 .. x.block_count
<1>1. PICK n \in 0 .. FILE_INDEX_HUGE_THRESHOLD : x.block_count = n
  BY DEF Good, Inode
<1>2. n \in Nat
  BY <1>1, Thresholds
<1>3. PICK lab : Labels(x, d, lab)
  BY DEF Good, Tree
<1>4. \A i \in 1 .. n : DataAt(x, d, i - 1) \in Blocks
  <2> SUFFICES ASSUME NEW i \in 1 .. n PROVE DataAt(x, d, i - 1) \in Blocks
    OBVIOUS
  <2>1. i - 1 \in Under(x)
    BY <1>1, <1>2 DEF Under
  <2> QED
    BY <1>3, <2>1, PartsApart
<1>5. ListIn(x, d) \in [1 .. n -> Blocks]
  BY <1>1, <1>4 DEF ListIn
<1> QED
  BY <1>1, <1>2, <1>5

LEMMA StartsInOrder == Init => IndexInv
<1> SUFFICES ASSUME Init PROVE IndexInv
  OBVIOUS
<1>1. Types
  <2>1. Blocks \in SUBSET Blocks /\ {} \in SUBSET Blocks /\ <<>> \in Seq(Blocks)
    OBVIOUS
  <2> QED
    BY <2>1, IndexBlocks DEF Init, Types
<1>2. \A f \in Files : Node(f) = NewInode
  BY NoneAssumption DEF Init, Node
<1>3. \A f \in Files : Good(Node(f), disk) /\ Use(f) = {}
  BY <1>2, NewIsGood DEF Use
<1>4. Owned
  BY <1>3 DEF Init, Owned
<1> QED
  BY <1>1, <1>3, <1>4 DEF Init, IndexInv

LEMMA OpenKeepsOrder ==
  ASSUME IndexInv, NEW f \in Files, Open(f)
  PROVE  IndexInv'
<1>1. /\ opened = None /\ opened' = f /\ mode' = "none" /\ inode' = inodes[f] /\ taken' = {}
      /\ before' = ListOf(inodes[f])
      /\ inodes' = inodes /\ disk' = disk /\ free' = free /\ leaked' = leaked
  BY DEF Open
<1>2. Types
  BY DEF IndexInv
<1>3. /\ \A g \in Files : Node(g) = inodes[g]
      /\ \A g \in Files : Node(g)' = Node(g)
  BY <1>1, NoneAssumption DEF Node
<1>4. \A g \in Files : Good(Node(g), disk)
  BY DEF IndexInv
<1>5. Good(inodes[f], disk)
  BY <1>3, <1>4
<1>6. before' = ListIn(inodes[f], disk) /\ before' \in Seq(Blocks)
  BY <1>1, <1>5, ListIs, ListTyped
<1>7. Types'
  <2>1. inodes[f] \in Inode
    BY <1>2 DEF Types
  <2> QED
    BY <1>1, <1>2, <1>6, <2>1 DEF Types
<1>8. \A g \in Files : Good(Node(g)', disk')
  BY <1>1, <1>3, <1>4
<1>9. \A g \in Files : Use(g)' = Use(g)
  BY <1>1, <1>3 DEF Use
<1>10. Owned'
  BY <1>1, <1>9 DEF Owned, IndexInv
<1>11. Kept'
  <2>1. inodes[f].block_count \in Nat
    BY <1>5, Thresholds DEF Good, Inode
  <2>2. PICK x : x = inodes[f]
    OBVIOUS
  <2>3. inode' = x /\ (inodes[opened])' = x /\ disk' = disk
    BY <1>1, <2>2
  <2> QED
    BY <1>1, <1>5, <1>6, <2>1, <2>2, <2>3 DEF Kept, SameHeads
<1> QED
  BY <1>7, <1>8, <1>10, <1>11 DEF IndexInv

LEMMA SaveKeepsOrder ==
  ASSUME IndexInv, Save
  PROVE  IndexInv'
<1>1. /\ opened # None /\ opened' = None /\ mode' = "none" /\ inode' = NewInode /\ taken' = {}
      /\ before' = <<>> /\ inodes' = [inodes EXCEPT ![opened] = inode]
      /\ disk' = disk /\ free' = free /\ leaked' = leaked
  BY DEF Save
<1>2. Types
  BY DEF IndexInv
<1>3. opened \in Files
  BY <1>1, <1>2 DEF Types
<1>4. \A g \in Files : Node(g)' = Node(g)
  BY <1>1, <1>2, <1>3, NoneAssumption DEF Node, Types
<1>5. Types'
  <2>1. inodes' \in [Files -> Inode]
    BY <1>1, <1>2 DEF Types
  <2>2. <<>> \in Seq(Blocks) /\ {} \subseteq Blocks
    OBVIOUS
  <2> QED
    BY <1>1, <1>2, <2>1, <2>2, IndexBlocks DEF Types
<1>6. \A g \in Files : Good(Node(g)', disk') /\ Use(g)' = Use(g)
  BY <1>1, <1>4 DEF IndexInv, Use
<1>7. Owned'
  BY <1>1, <1>6 DEF Owned, IndexInv
<1> QED
  BY <1>1, <1>5, <1>6, <1>7 DEF IndexInv

(* The blocks of the files, told apart by the one that is open.             *)
LEMMA WhileOpen ==
  ASSUME IndexInv, opened # None
  PROVE  /\ opened \in Files
         /\ Node(opened) = inode /\ Use(opened) = Uses(inode, disk)
         /\ Good(inode, disk) /\ Uses(inode, disk) \cap (free \cup leaked) = {}
         /\ \A g \in Files : g # opened =>
              /\ Node(g) = inodes[g] /\ Use(g) = Uses(inodes[g], disk) /\ Good(inodes[g], disk)
              /\ Use(g) \cap (free \cup leaked) = {} /\ Use(g) \cap Uses(inode, disk) = {}
<1>1. opened \in Files
  BY DEF IndexInv, Types
<1>2. Node(opened) = inode /\ Use(opened) = Uses(inode, disk)
  BY DEF Node, Use
<1>3. \A g \in Files : g # opened => Node(g) = inodes[g] /\ Use(g) = Uses(inodes[g], disk)
  BY DEF Node, Use
<1>4. Good(inode, disk) /\ Uses(inode, disk) \cap (free \cup leaked) = {}
  BY <1>1, <1>2 DEF IndexInv, Owned
<1>5. \A g \in Files : g # opened =>
        /\ Good(inodes[g], disk)
        /\ Use(g) \cap (free \cup leaked) = {} /\ Use(g) \cap Uses(inode, disk) = {}
  BY <1>1, <1>2, <1>3 DEF IndexInv, Owned
<1> QED
  BY <1>1, <1>2, <1>3, <1>4, <1>5

(* A turn of shrinking neither.                                             *)
LEMMA ShrinkIs ==
  ASSUME IndexInv, Shrink
  PROVE  /\ Shrunk(inode.block_count - 1)
         /\ \A g \in Files : g # opened => Stays(inodes[g], disk, disk')
<1>1. opened # None /\ inode.block_count > 0 /\ PopBlock
  BY DEF Shrink
<1>2. Types
  BY DEF IndexInv
<1>3. /\ opened \in Files
      /\ Use(opened) = Uses(inode, disk)
      /\ Good(inode, disk)
      /\ \A g \in Files : g # opened =>
           /\ Use(g) = Uses(inodes[g], disk) /\ Good(inodes[g], disk)
           /\ Use(g) \cap Uses(inode, disk) = {}
  BY <1>1, WhileOpen
<1>4. Shrunk(inode.block_count - 1)
  BY <1>1, <1>2, <1>3, ShrinksWell
<1>5. ASSUME NEW g \in Files, g # opened
      PROVE  Stays(inodes[g], disk, disk')
  <2>1. \A b \in Uses(inodes[g], disk) : b \in Blocks /\ b \notin Uses(inode, disk)
    BY <1>3, <1>5 DEF Uses
  <2>2. \A b \in Uses(inodes[g], disk) : disk'[b] = disk[b]
    BY <1>4, <2>1 DEF Shrunk
  <2> QED
    BY <1>3, <1>5, <2>2, UntouchedStays
<1> QED
  BY <1>4, <1>5

LEMMA ShrinkKeepsOrder ==
  ASSUME IndexInv, Shrink
  PROVE  IndexInv'
<1>1. /\ opened # None /\ inode.block_count > 0 /\ mode' = "shrink" /\ PopBlock
      /\ opened' = opened /\ inodes' = inodes /\ taken' = taken /\ leaked' = leaked
      /\ before' = before
  BY DEF Shrink
<1>2. Types
  BY DEF IndexInv
<1>3. /\ opened \in Files
      /\ Use(opened) = Uses(inode, disk)
      /\ Good(inode, disk)
      /\ \A g \in Files : g # opened =>
           /\ Use(g) = Uses(inodes[g], disk) /\ Good(inodes[g], disk)
           /\ Use(g) \cap Uses(inode, disk) = {}
  BY <1>1, WhileOpen
<1>4. PICK n : n = inode.block_count - 1
  OBVIOUS
<1>5. /\ Shrunk(n)
      /\ \A g \in Files : g # opened => Stays(inodes[g], disk, disk')
  BY <1>4, ShrinkIs
<1>6. PICK out : out = Gone(inode, disk, n)
  OBVIOUS
<1>7. /\ free' = free \cup out /\ inode' \in Inode /\ disk' \in [Blocks -> Index]
      /\ Good(inode', disk') /\ Uses(inode', disk') = Uses(inode, disk) \ out
      /\ out \subseteq Uses(inode, disk)
      /\ \A b \in Blocks : b \notin Uses(inode, disk) => disk'[b] = disk[b]
  BY <1>5, <1>6 DEF Shrunk, PopStep
<1>8. out \subseteq Blocks
  BY <1>7 DEF Uses
<1>9. Types'
  BY <1>1, <1>2, <1>7, <1>8 DEF Types
<1>10. \A g \in Files : Node(g)' = IF g = opened THEN inode' ELSE inodes[g]
  BY <1>1 DEF Node
<1>11. \A g \in Files : g = opened => Good(Node(g)', disk') /\ Use(g)' = Use(g) \ out
  BY <1>1, <1>3, <1>7, <1>10 DEF Use
<1>12. \A g \in Files : g # opened => Good(Node(g)', disk') /\ Use(g)' = Use(g)
  BY <1>3, <1>5, <1>10 DEF Use, Stays
<1>13. Owned'
  <2>1. Owned
    BY DEF IndexInv
  <2>2. \A f, g \in Files : f # g => Use(f)' \cap Use(g)' = {}
    BY <1>11, <1>12, <2>1 DEF Owned
  <2>3. \A f \in Files : Use(f)' \cap (free' \cup leaked') = {}
    BY <1>1, <1>3, <1>7, <1>11, <1>12, <2>1 DEF Owned
  <2>4. free' \cap leaked' = {}
    BY <1>1, <1>3, <1>7, <2>1 DEF Owned
  <2>5. \A b \in Blocks : b \in free' \/ b \in leaked' \/ \E f \in Files : b \in Use(f)'
    BY <1>1, <1>7, <1>11, <1>12, <2>1 DEF Owned
  <2> QED
    BY <2>2, <2>3, <2>4, <2>5 DEF Owned
<1>14. \A g \in Files : Good(Node(g)', disk')
  BY <1>11, <1>12
<1> QED
  BY <1>1, <1>9, <1>13, <1>14 DEF IndexInv

(* What is seen from the inode on disk while growing is what the operation  *)
(* sees too: it can be gone back to after every turn.                       *)
LEMMA StillKept ==
  ASSUME NEW x, NEW y, NEW z, NEW d, NEW e, NEW n \in 0 .. FILE_INDEX_HUGE_THRESHOLD,
         Good(x, d), x.block_count <= n,
         SameHeads(x, y), Same(y, d, z, e, n)
  PROVE  Stays(x, d, e) /\ SameHeads(x, z)
<1>1. PICK m \in 0 .. FILE_INDEX_HUGE_THRESHOLD : x.block_count = m
  BY DEF Good, Inode
<1>2. \A p \in 0 .. m - 1 : p \in Under(x) /\ p \in 0 .. n - 1
  BY <1>1, Thresholds DEF Under
<1>3. ASSUME NEW p \in 0 .. m - 1
      PROVE  SameAt(x, d, x, e, p) /\ Outer(x, p) = Outer(z, p)
  <2>1. /\ Outer(x, p) = Outer(y, p) /\ Outer(y, p) = Outer(z, p)
        /\ DataAt(y, d, p) = DataAt(z, e, p)
        /\ Low(p) # -1 => Inner(y, d, p) = Inner(z, e, p)
    BY <1>2 DEF Same, SameAt, SameHeads
  <2>2. Inner(x, d, p) = Inner(y, d, p) /\ Inner(x, e, p) = Inner(z, e, p)
    BY <2>1 DEF Inner
  <2>3. DataAt(x, d, p) = DataAt(y, d, p) /\ DataAt(x, e, p) = DataAt(z, e, p)
    BY <2>1, <2>2 DEF DataAt
  <2> QED
    BY <2>1, <2>2, <2>3 DEF SameAt
<1>4. Same(x, d, x, e, x.block_count)
  BY <1>1, <1>3 DEF Same
<1> QED
  BY <1>1, <1>3, <1>4, SameStays DEF Under, SameHeads

(* A turn of growing writes no block of another file.                       *)
LEMMA GrowIs ==
  ASSUME IndexInv, Grow
  PROVE  /\ Grown(inode.block_count)
         /\ \A g \in Files : g # opened => Stays(inodes[g], disk, disk')
<1>1. opened # None /\ PushBlock
  BY DEF Grow
<1>2. Types
  BY DEF IndexInv
<1>3. /\ opened \in Files
      /\ Use(opened) = Uses(inode, disk)
      /\ Good(inode, disk) /\ Uses(inode, disk) \cap free = {}
      /\ \A g \in Files : g # opened =>
           /\ Use(g) = Uses(inodes[g], disk) /\ Good(inodes[g], disk)
           /\ Use(g) \cap free = {} /\ Use(g) \cap Uses(inode, disk) = {}
  <2>1. Uses(inode, disk) \cap (free \cup leaked) = {}
    BY <1>1, WhileOpen
  <2>2. \A g \in Files : g # opened => Use(g) \cap (free \cup leaked) = {}
    BY <1>1, WhileOpen
  <2> QED
    BY <1>1, <2>1, <2>2, WhileOpen
<1>4. Grown(inode.block_count)
  BY <1>1, <1>2, <1>3, GrowsWell
<1>5. ASSUME NEW g \in Files, g # opened
      PROVE  Stays(inodes[g], disk, disk')
  <2>1. \A b \in Uses(inodes[g], disk) :
          b \in Blocks /\ b \notin Uses(inode, disk) /\ b \notin free
    BY <1>3, <1>5 DEF Uses
  <2>2. \A b \in Uses(inodes[g], disk) : disk'[b] = disk[b]
    BY <1>4, <2>1 DEF Grown
  <2> QED
    BY <1>3, <1>5, <2>2, UntouchedStays
<1> QED
  BY <1>4, <1>5

LEMMA GrowKeepsOrder ==
  ASSUME IndexInv, Grow
  PROVE  IndexInv'
<1>1. /\ opened # None /\ mode # "shrink" /\ mode' = "grow" /\ PushBlock
      /\ opened' = opened /\ inodes' = inodes /\ leaked' = leaked /\ before' = before
  BY DEF Grow
<1>2. Types /\ Owned /\ Kept
  BY <1>1 DEF IndexInv
<1>3. /\ opened \in Files
      /\ Use(opened) = Uses(inode, disk)
      /\ Good(inode, disk) /\ Uses(inode, disk) \cap free = {}
      /\ \A g \in Files : g # opened =>
           /\ Use(g) = Uses(inodes[g], disk) /\ Good(inodes[g], disk)
           /\ Use(g) \cap free = {} /\ Use(g) \cap Uses(inode, disk) = {}
  <2>1. Uses(inode, disk) \cap (free \cup leaked) = {}
    BY <1>1, WhileOpen
  <2>2. \A g \in Files : g # opened => Use(g) \cap (free \cup leaked) = {}
    BY <1>1, WhileOpen
  <2> QED
    BY <1>1, <2>1, <2>2, WhileOpen
<1>4. PICK n : n = inode.block_count
  OBVIOUS
<1>5. /\ Grown(n)
      /\ \A g \in Files : g # opened => Stays(inodes[g], disk, disk')
  BY <1>4, GrowIs
<1>6. PICK in : in = FreshBlocks(Cost(n))
  OBVIOUS
<1>7. /\ n \in Positions /\ inode'.block_count = n + 1
      /\ free' = free \ in /\ taken' = taken \cup in
      /\ inode' \in Inode /\ disk' \in [Blocks -> Index]
      /\ Good(inode', disk') /\ Uses(inode', disk') = Uses(inode, disk) \cup in
      /\ in \subseteq free /\ Same(inode, disk, inode', disk', n)
      /\ \A b \in Blocks : b \notin Uses(inode, disk) /\ b \notin free => disk'[b] = disk[b]
  BY <1>5, <1>6 DEF Grown, PushStep
<1>8. Types'
  <2>1. in \subseteq Blocks
    BY <1>2, <1>7 DEF Types
  <2> QED
    BY <1>1, <1>2, <1>7, <2>1 DEF Types
<1>9. \A g \in Files : Node(g)' = IF g = opened THEN inode' ELSE inodes[g]
  BY <1>1 DEF Node
<1>10. \A g \in Files : g = opened => Good(Node(g)', disk') /\ Use(g)' = Use(g) \cup in
  BY <1>1, <1>3, <1>7, <1>9 DEF Use
<1>11. \A g \in Files : g # opened => Good(Node(g)', disk') /\ Use(g)' = Use(g)
  BY <1>3, <1>5, <1>9 DEF Use, Stays
<1>12. Owned'
  <2>1. \A f, g \in Files : f # g => Use(f)' \cap Use(g)' = {}
    BY <1>2, <1>3, <1>7, <1>10, <1>11 DEF Owned
  <2>2. \A f \in Files : Use(f)' \cap (free' \cup leaked') = {}
    BY <1>1, <1>2, <1>7, <1>10, <1>11 DEF Owned
  <2>3. free' \cap leaked' = {}
    BY <1>1, <1>2, <1>7 DEF Owned
  <2>4. \A b \in Blocks : b \in free' \/ b \in leaked' \/ \E f \in Files : b \in Use(f)'
    BY <1>1, <1>2, <1>3, <1>7, <1>10, <1>11 DEF Owned
  <2> QED
    BY <2>1, <2>2, <2>3, <2>4 DEF Owned
<1>13. Kept'
  <2>1. PICK x : x = inodes[opened]
    OBVIOUS
  <2>2. /\ Good(x, disk) /\ before = ListIn(x, disk) /\ x.block_count <= n
        /\ SameHeads(x, inode)
        /\ Uses(inode, disk) = Uses(x, disk) \cup taken /\ Uses(x, disk) \cap taken = {}
    BY <1>2, <1>4, <2>1 DEF Kept
  <2>3. n \in 0 .. FILE_INDEX_HUGE_THRESHOLD
    BY <1>7, Thresholds DEF Positions
  <2>4. Stays(x, disk, disk') /\ SameHeads(x, inode')
    BY <1>7, <2>2, <2>3, StillKept
  <2>5. /\ Good(x, disk') /\ before' = ListIn(x, disk') /\ x.block_count <= inode'.block_count
    <3>1. x.block_count \in Int /\ n \in Int
      BY <2>2, <2>3, Thresholds DEF Good, Inode
    <3> QED
      BY <1>1, <1>7, <2>2, <2>4, <3>1 DEF Stays
  <2>6. /\ Uses(inode', disk') = Uses(x, disk') \cup taken'
        /\ Uses(x, disk') \cap taken' = {}
    BY <1>3, <1>7, <2>2, <2>4 DEF Stays
  <2>7. (inodes[opened])' = x
    BY <1>1, <2>1
  <2> QED
    BY <2>4, <2>5, <2>6, <2>7 DEF Kept
<1>14. \A g \in Files : Good(Node(g)', disk')
  BY <1>10, <1>11
<1> QED
  BY <1>8, <1>12, <1>13, <1>14 DEF IndexInv

(* The blocks that a failing turn takes.                                    *)
Got == IF ~InRange(GetBlockIndex(inode.block_count)) /\ free # {} THEN 1 ELSE Cardinality(free)

LEMMA GotFree ==
  ASSUME free \subseteq Blocks
  PROVE  FreshBlocks(Got) \subseteq free
<1>1. IsFiniteSet(Blocks)
  BY FS_Interval, IndexAssumption DEF Blocks
<1>2. free \in SUBSET Blocks
  OBVIOUS
<1>3. IsFiniteSet(free) /\ Cardinality(free) \in Nat /\ (Cardinality(free) = 0 <=> free = {})
  BY <1>1, <1>2, FS_Subset, FS_CardinalityType, FS_EmptySet
<1>4. Got \in Int /\ Got <= Cardinality(free)
  BY <1>3 DEF Got
<1> QED
  BY <1>4, FreshFree

(* A failing turn loses the operation's copy: the file is the one that was  *)
(* kept, and what the operation had taken is leaked.                        *)
LEMMA GrowFailsIs ==
  ASSUME IndexInv, GrowFails
  PROVE  /\ opened \in Files /\ Kept
         /\ \A g \in Files : /\ Node(g)' = inodes[g]
                             /\ Stays(inodes[g], disk, disk')
                             /\ g # opened => Node(g) = inodes[g]
<1>1. /\ opened # None /\ mode # "shrink" /\ opened' = None /\ inodes' = inodes
      /\ disk' = [b \in Blocks |-> IF b \in FreshBlocks(Got) THEN ZeroIndex ELSE disk[b]]
  BY DEF GrowFails, Got
<1>2. opened \in Files /\ Kept /\ free \subseteq Blocks
  BY <1>1 DEF IndexInv, Types
<1>3. \A g \in Files : Node(g)' = inodes[g] /\ (g # opened => Node(g) = inodes[g])
  BY <1>1, NoneAssumption DEF Node
<1>4. ASSUME NEW g \in Files
      PROVE  Good(inodes[g], disk) /\ Uses(inodes[g], disk) \cap free = {}
  <2>1. CASE g # opened
    BY <1>1, <1>4, <2>1, WhileOpen
  <2>2. CASE g = opened
    <3>1. Uses(inodes[g], disk) \subseteq Uses(inode, disk) /\ Good(inodes[g], disk)
      BY <1>2, <2>2 DEF Kept
    <3>2. Uses(inode, disk) \cap (free \cup leaked) = {}
      BY <1>1, WhileOpen
    <3> QED
      BY <3>1, <3>2
  <2> QED
    BY <2>1, <2>2
<1>5. ASSUME NEW g \in Files
      PROVE  Stays(inodes[g], disk, disk')
  <2>1. \A b \in Uses(inodes[g], disk) : b \in Blocks /\ b \notin free
    BY <1>4, <1>5 DEF Uses
  <2>2. \A b \in Uses(inodes[g], disk) : disk'[b] = disk[b]
    BY <1>1, <1>2, <2>1, GotFree
  <2> QED
    BY <1>4, <1>5, <2>2, UntouchedStays
<1> QED
  BY <1>2, <1>3, <1>5

LEMMA GrowFailsKeepsOrder ==
  ASSUME IndexInv, GrowFails
  PROVE  IndexInv'
<1>1. PICK in : in = FreshBlocks(Got)
  OBVIOUS
<1>2. /\ free' = free \ in /\ leaked' = leaked \cup taken \cup in
      /\ disk' = [b \in Blocks |-> IF b \in in THEN ZeroIndex ELSE disk[b]]
      /\ opened # None /\ opened' = None /\ mode' = "none" /\ inode' = NewInode
      /\ taken' = {} /\ before' = <<>> /\ inodes' = inodes
  BY <1>1 DEF GrowFails, Got
<1>3. Types /\ Owned
  BY DEF IndexInv
<1>4. in \subseteq free /\ in \subseteq Blocks
  BY <1>1, <1>3, GotFree DEF Types
<1>5. Types'
  <2>1. disk' \in [Blocks -> Index]
    BY <1>2, <1>3, IndexBlocks DEF Types
  <2>2. <<>> \in Seq(Blocks) /\ {} \subseteq Blocks
    OBVIOUS
  <2> QED
    BY <1>2, <1>3, <1>4, <2>1, <2>2, IndexBlocks DEF Types
<1>6. /\ opened \in Files /\ Kept
      /\ \A g \in Files : /\ Node(g)' = inodes[g]
                          /\ Stays(inodes[g], disk, disk')
                          /\ g # opened => Node(g) = inodes[g]
  BY GrowFailsIs
<1>7. \A g \in Files : Good(Node(g)', disk') /\ Use(g)' = Uses(inodes[g], disk)
  BY <1>6 DEF Stays, Use
<1>8. \A g \in Files : g # opened => Use(g)' = Use(g)
  BY <1>6, <1>7 DEF Use
<1>9. PICK old, all : old = Uses(inodes[opened], disk) /\ all = Uses(inode, disk)
  OBVIOUS
<1>10. /\ \A g \in Files : g = opened => Use(g)' = old /\ Use(g) = all
       /\ all = old \cup taken /\ old \cap taken = {}
  BY <1>2, <1>6, <1>7, <1>9, WhileOpen DEF Kept
<1>11. Owned'
  <2>1. \A f, g \in Files : f # g => Use(f)' \cap Use(g)' = {}
    BY <1>3, <1>8, <1>10 DEF Owned
  <2>2. \A f \in Files : Use(f)' \subseteq Use(f) /\ Use(f)' \cap taken = {}
    BY <1>3, <1>6, <1>8, <1>10 DEF Owned
  <2>3. \A f \in Files : Use(f)' \cap (free' \cup leaked') = {}
    BY <1>2, <1>3, <1>4, <2>2 DEF Owned
  <2>4. taken \cap free = {}
    BY <1>3, <1>6, <1>10 DEF Owned
  <2>5. free' \cap leaked' = {}
    BY <1>2, <1>3, <2>4 DEF Owned
  <2>6. \A b \in Blocks : b \in free' \/ b \in leaked' \/ \E f \in Files : b \in Use(f)'
    BY <1>2, <1>3, <1>6, <1>8, <1>10 DEF Owned
  <2> QED
    BY <2>1, <2>3, <2>5, <2>6 DEF Owned
<1>12. \A g \in Files : Good(Node(g)', disk')
  BY <1>7
<1> QED
  BY <1>2, <1>5, <1>11, <1>12 DEF IndexInv

LEMMA StepKeepsOrder ==
  ASSUME IndexInv, [Next]_vars
  PROVE  IndexInv'
<1>1. CASE UNCHANGED vars
  BY <1>1 DEF vars, IndexInv, Types, Owned, Use, Node, Kept
<1>2. CASE Next
  <2>1. ASSUME NEW f \in Files, Open(f)
        PROVE  IndexInv'
    BY <2>1, OpenKeepsOrder
  <2> QED
    BY <1>2, <2>1, GrowKeepsOrder, GrowFailsKeepsOrder, ShrinkKeepsOrder, SaveKeepsOrder DEF Next
<1> QED
  BY <1>1, <1>2
-----------------------------------------------------------------------------
(* The blocks of a file in the words of the model.                          *)
LEMMA UsesIs ==
  ASSUME NEW node, Good(node, disk)
  PROVE  Range(ListOf(node)) \cup IndexBlocksOf(node) = Uses(node, disk)
<1>1. PICK n \in 0 .. FILE_INDEX_HUGE_THRESHOLD : node.block_count = n
  BY DEF Good, Inode
<1>2. n \in Nat /\ Under(node) = 0 .. n - 1
  BY <1>1, Thresholds DEF Under
<1>3. PICK lab : Labels(node, disk, lab)
  BY DEF Good, Tree
<1>4. \A b : b \in Range(ListOf(node)) <=> \E p \in Under(node) : b = DataAt(node, disk, p)
  <2>1. \A b : b \in Range(ListOf(node)) <=> \E i \in 1 .. n : b = DataAt(node, disk, i - 1)
    BY <1>1, ListIs DEF Range, ListIn
  <2>2. ASSUME NEW b, NEW p \in Under(node), b = DataAt(node, disk, p)
        PROVE  \E i \in 1 .. n : b = DataAt(node, disk, i - 1)
    <3>1. p + 1 \in 1 .. n /\ (p + 1) - 1 = p
      BY <1>2, <2>2
    <3> QED
      BY <2>2, <3>1
  <2>3. \A i \in 1 .. n : i - 1 \in Under(node)
    BY <1>2
  <2> QED
    BY <2>1, <2>2, <2>3
<1>5. \A b : b \in IndexBlocksOf(node) <=>
               \E p \in Under(node) : \/ Mid(p) # -1 /\ b = Outer(node, p)
                                      \/ Low(p) # -1 /\ b = Inner(node, disk, p)
  <2> DEFINE At(p) == IF Mid(p) = -1 THEN {}
                      ELSE IF Low(p) = -1 THEN {Outer(node, p)}
                      ELSE {Outer(node, p), Inner(node, disk, p)}
  <2>1. IndexBlocksOf(node) = UNION {At(p) : p \in Under(node)}
    BY DEF IndexBlocksOf, Under, Outer, Inner, Top, Mid, Low
  <2>2. ASSUME NEW p \in Under(node), NEW b
        PROVE  b \in At(p) <=> \/ Mid(p) # -1 /\ b = Outer(node, p)
                               \/ Low(p) # -1 /\ b = Inner(node, disk, p)
    <3>1. p \in Positions
      BY <1>1, <1>2, Thresholds DEF Positions
    <3>2. Low(p) # -1 => Mid(p) # -1
      BY <3>1, FirstInner
    <3> QED
      BY <3>2
  <2> HIDE DEF At
  <2>3. \A b : b \in IndexBlocksOf(node) <=> \E p \in Under(node) : b \in At(p)
    BY <2>1
  <2> QED
    BY <2>2, <2>3
<1>6. \A b : (\E p \in Under(node) : Part(node, disk, p, b)) => b \in Blocks
  <2> SUFFICES ASSUME NEW b, NEW p \in Under(node), Part(node, disk, p, b)
               PROVE  b \in Blocks
    OBVIOUS
  <2>1. /\ DataAt(node, disk, p) \in Blocks
        /\ Mid(p) # -1 => Outer(node, p) \in Blocks
        /\ Low(p) # -1 => Inner(node, disk, p) \in Blocks
    BY <1>3, PartsApart
  <2> QED
    BY <2>1 DEF Part
<1>7. \A b : b \in Uses(node, disk) <=> \E p \in Under(node) : Part(node, disk, p, b)
  BY <1>6 DEF Uses
<1>8. \A b : b \in Range(ListOf(node)) \cup IndexBlocksOf(node) <=>
               \E p \in Under(node) : Part(node, disk, p, b)
  BY <1>4, <1>5 DEF Part
<1> QED
  BY <1>7, <1>8

(* The invariant that the theorems rest on: every inode, the opened one as  *)
(* the operation has it, is a tree of its own blocks, every block has one   *)
(* owner, and what growing started from is still there to go back to.       *)
THEOREM IndexInvariance == Spec => []IndexInv
<1>1. Init => IndexInv
  BY StartsInOrder
<1>2. IndexInv /\ [Next]_vars => IndexInv'
  BY StepKeepsOrder
<1> QED
  BY <1>1, <1>2, PTL DEF Spec

(* d_addr, index blocks and the free list hold block numbers and nothing    *)
(* else, and block_count never passes the largest size.                     *)
THEOREM TypeCorrect == Spec => []TypeOK
<1>1. IndexInv => TypeOK
  BY DEF IndexInv, Types, TypeOK, Inode, Index
<1> QED
  BY <1>1, IndexInvariance, PTL

(* push_block, pop_block and an operation abandoned half-way: no block is   *)
(* in two files, or in one place of a file and free, and what growing took  *)
(* shrinking gives back.                                                    *)
THEOREM BlocksHaveOneUse == Spec => []BlocksAccountedFor
<1>1. IndexInv => BlocksAccountedFor
  <2> SUFFICES ASSUME IndexInv PROVE BlocksAccountedFor
    OBVIOUS
  <2>1. \A f \in Files : BlocksOf(f) = Use(f) /\ Good(Node(f), disk)
    BY UsesIs DEF IndexInv, BlocksOf, Use
  <2>2. Owned /\ free \subseteq Blocks /\ leaked \subseteq Blocks
    BY DEF IndexInv, Types
  <2>3. \A f \in Files : Cardinality(BlocksOf(f))
                           = Node(f).block_count + IndexBlockCount(Node(f).block_count)
    BY <2>1 DEF Use, Good
  <2>4. /\ \A f, g \in Files : f # g => BlocksOf(f) \cap BlocksOf(g) = {}
        /\ \A f \in Files : BlocksOf(f) \cap (free \cup leaked) = {}
        /\ free \cap leaked = {}
    BY <2>1, <2>2 DEF Owned
  <2>5. free \cup leaked \cup UNION {BlocksOf(f) : f \in Files} = Blocks
    <3>1. \A f \in Files : BlocksOf(f) \subseteq Blocks
      BY <2>1 DEF Use, Uses
    <3>2. \A b \in Blocks : b \in free \/ b \in leaked \/ \E f \in Files : b \in BlocksOf(f)
      BY <2>1, <2>2 DEF Owned
    <3> QED
      BY <2>2, <3>1, <3>2
  <2> QED
    BY <2>3, <2>4, <2>5 DEF BlocksAccountedFor
<1> QED
  BY <1>1, IndexInvariance, PTL

(* pop_block clears the entry of d_addr with the last block under it, and   *)
(* never earlier (inode.py:26).                                             *)
THEOREM IndexBlocksNotEmpty == Spec => []NoEmptyIndexBlock
<1>1. IndexInv => NoEmptyIndexBlock
  <2> SUFFICES ASSUME IndexInv, NEW f \in Files, NEW i \in Addrs, NEW node, node = Node(f)
               PROVE  node.d_addr[i] # 0 <=>
                        \E p \in 0 .. node.block_count - 1 : GetBlockIndex(p)[1] = i
    BY DEF NoEmptyIndexBlock, Nodes
  <2>1. Good(node, disk)
    BY DEF IndexInv
  <2>2. PICK lab : Labels(node, disk, lab)
    BY <2>1 DEF Good, Tree
  <2>3. node.d_addr[i] # 0 => \E p \in Under(node) : Top(p) = i
    BY <2>1 DEF Good, Heads
  <2>4. ASSUME NEW p \in Under(node), Top(p) = i
        PROVE  node.d_addr[i] # 0
    <3>1. /\ DataAt(node, disk, p) \in Blocks
          /\ Mid(p) # -1 => Outer(node, p) \in Blocks
      BY <2>2, PartsApart
    <3>2. Outer(node, p) \in Blocks
      BY <3>1 DEF DataAt
    <3>3. 0 \notin Blocks
      BY DEF Blocks
    <3> QED
      BY <2>4, <3>2, <3>3 DEF Outer
  <2> QED
    BY <2>3, <2>4 DEF Under, Top
<1> QED
  BY <1>1, IndexInvariance, PTL
-----------------------------------------------------------------------------
(* The state of FileBlocks.                                                 *)
ListNow  == IF opened = None THEN <<>> ELSE ListIn(inode, disk)
SavedNow == [f \in Files |-> IF f = opened THEN before ELSE ListIn(inodes[f], disk)]

LEMMA NowIs ==
  /\ (IF opened = None THEN <<>> ELSE ListOf(inode)) = ListNow
  /\ [f \in Files |-> IF f = opened THEN before ELSE ListOf(inodes[f])] = SavedNow
BY ListIs DEF ListNow, SavedNow

(* The steps of FileBlocks, said of them.                                   *)
ListOpens(f) ==
  opened = None /\ opened' = f /\ ListNow' = SavedNow[f] /\ SavedNow' = SavedNow
ListGrows(b) ==
  /\ opened # None
  /\ \A f \in Files : \A i \in DOMAIN SavedNow[f] : f # opened => SavedNow[f][i] # b
  /\ \A i \in DOMAIN ListNow : ListNow[i] # b
  /\ ListNow' = Append(ListNow, b)
  /\ opened' = opened /\ SavedNow' = SavedNow
ListShrinks ==
  /\ opened # None /\ ListNow # <<>>
  /\ ListNow' = SubSeq(ListNow, 1, Len(ListNow) - 1)
  /\ opened' = opened /\ SavedNow' = SavedNow
ListSaves ==
  /\ opened # None /\ opened' = None
  /\ SavedNow' = [SavedNow EXCEPT ![opened] = ListNow] /\ ListNow' = <<>>
ListFails == opened # None /\ opened' = None /\ ListNow' = <<>> /\ SavedNow' = SavedNow

LEMMA ListSteps ==
  /\ \A f : List!Open(f) <=> ListOpens(f)
  /\ \A b : List!Grow(b) <=> ListGrows(b)
  /\ List!Shrink <=> ListShrinks
  /\ List!Save <=> ListSaves
  /\ List!Fail <=> ListFails
<1>1. PICK l, s : /\ l = (IF opened = None THEN <<>> ELSE ListOf(inode))
                  /\ s = [f \in Files |-> IF f = opened THEN before ELSE ListOf(inodes[f])]
  OBVIOUS
<1>2. PICK m, t : /\ m = (IF opened = None THEN <<>> ELSE ListOf(inode))'
                  /\ t = [f \in Files |-> IF f = opened THEN before ELSE ListOf(inodes[f])]'
  OBVIOUS
<1>3. l = ListNow /\ s = SavedNow
  BY <1>1, NowIs
<1>4. m = ListNow' /\ t = SavedNow'
  <2>1. NowIs!1' /\ NowIs!2'
    BY NowIs, PTL
  <2> QED
    BY <1>2, <2>1
<1>5. \A f : List!Open(f) <=> ListOpens(f)
  BY <1>1, <1>2, <1>3, <1>4 DEF List!Open, ListOpens
<1>6. \A b : List!Grow(b) <=> ListGrows(b)
  BY ZenonT(60), <1>1, <1>2, <1>3, <1>4 DEF List!Grow, ListGrows
<1>7. List!Shrink <=> ListShrinks
  BY <1>1, <1>2, <1>3, <1>4 DEF List!Shrink, ListShrinks
<1>8. List!Save <=> ListSaves
  BY <1>1, <1>2, <1>3, <1>4 DEF List!Save, ListSaves
<1>9. List!Fail <=> ListFails
  BY <1>1, <1>2, <1>3, <1>4 DEF List!Fail, ListFails
<1> QED
  BY <1>5, <1>6, <1>7, <1>8, <1>9

LEMMA OpenOpensList ==
  ASSUME IndexInv, NEW f \in Files, Open(f)
  PROVE  ListOpens(f)
<1>1. /\ opened = None /\ opened' = f /\ inode' = inodes[f] /\ before' = ListOf(inodes[f])
      /\ inodes' = inodes /\ disk' = disk
  BY DEF Open
<1>2. before' = ListIn(inodes[f], disk) /\ f # None
  BY <1>1, ListIs, NoneAssumption
<1>3. ListNow' = ListIn(inodes[f], disk)
  BY <1>1, <1>2 DEF ListNow
<1>4. SavedNow = [g \in Files |-> ListIn(inodes[g], disk)]
  BY <1>1, NoneAssumption DEF SavedNow
<1>5. SavedNow' = [g \in Files |-> ListIn(inodes[g], disk)]
  BY <1>1, <1>2 DEF SavedNow
<1> QED
  BY <1>1, <1>3, <1>4, <1>5 DEF ListOpens

LEMMA GrowGrowsList ==
  ASSUME IndexInv, Grow
  PROVE  Fresh(1) \in Blocks /\ ListGrows(Fresh(1))
<1>1. /\ opened # None /\ opened' = opened /\ inodes' = inodes /\ before' = before
  BY DEF Grow
<1>2. PICK n : n = inode.block_count
  OBVIOUS
<1>3. Grown(n) /\ \A g \in Files : g # opened => Stays(inodes[g], disk, disk')
  BY <1>2, GrowIs
<1>4. PICK b : b = Fresh(1)
  OBVIOUS
<1>5. /\ n \in Positions /\ inode'.block_count = n + 1
      /\ Good(inode, disk) /\ Good(inode', disk')
      /\ Same(inode, disk, inode', disk', n) /\ DataAt(inode', disk', n) = b
      /\ b \in Blocks /\ b \in free
  BY <1>1, <1>3, <1>4, WhileOpen DEF Grown, PushStep
<1>6. n \in Nat
  BY <1>5, Thresholds DEF Positions
<1>7. /\ ListNow = ListIn(inode, disk)
      /\ ListNow' = ListIn(inode', disk')
  BY <1>1 DEF ListNow
<1>8. \A f \in Files : f # opened =>
        SavedNow[f] = ListIn(inodes[f], disk) /\ Good(inodes[f], disk)
          /\ b \notin Uses(inodes[f], disk)
  BY <1>1, <1>5, WhileOpen DEF SavedNow
<1>9. ASSUME NEW x, Good(x, disk), b \notin Uses(x, disk), NEW i \in DOMAIN ListIn(x, disk)
      PROVE  ListIn(x, disk)[i] # b
  <2>1. PICK lab : Labels(x, disk, lab)
    BY <1>9 DEF Good, Tree
  <2>2. i \in 1 .. x.block_count /\ x.block_count \in Nat
    BY <1>9, ListTyped, Thresholds DEF Good, Inode
  <2>3. i - 1 \in Under(x)
    BY <2>2 DEF Under
  <2>4. DataAt(x, disk, i - 1) \in Uses(x, disk)
    BY <2>1, <2>3, PartsUsed
  <2> QED
    BY <1>9, <2>2, <2>4 DEF ListIn
<1>10. \A f \in Files : \A i \in DOMAIN SavedNow[f] : f # opened => SavedNow[f][i] # b
  BY <1>8, <1>9
<1>11. \A i \in DOMAIN ListNow : ListNow[i] # b
  <2>1. Uses(inode, disk) \cap (free \cup leaked) = {}
    BY <1>1, WhileOpen
  <2>2. b \notin Uses(inode, disk)
    BY <1>5, <2>1
  <2> QED
    BY <1>5, <1>7, <1>9, <2>2
<1>12. ListNow' = Append(ListNow, b)
  <2>1. \A i \in 1 .. n : DataAt(inode, disk, i - 1) = DataAt(inode', disk', i - 1)
    <3> SUFFICES ASSUME NEW i \in 1 .. n
                 PROVE  DataAt(inode, disk, i - 1) = DataAt(inode', disk', i - 1)
      OBVIOUS
    <3>1. i - 1 \in 0 .. n - 1
      BY <1>6
    <3> QED
      BY <1>5, <3>1 DEF Same, SameAt
  <2>2. ListIn(inode, disk) = [i \in 1 .. n |-> DataAt(inode, disk, i - 1)]
    BY <1>2 DEF ListIn
  <2>3. ListIn(inode', disk') = [i \in 1 .. n + 1 |-> DataAt(inode', disk', i - 1)]
    BY <1>5 DEF ListIn
  <2>4. PICK s, t : s = ListIn(inode, disk) /\ t = ListIn(inode', disk')
    OBVIOUS
  <2>5. s \in Seq(Blocks) /\ Len(s) = n /\ t \in Seq(Blocks) /\ Len(t) = n + 1
    BY <1>2, <1>5, <2>4, ListTyped
  <2>6. /\ \A i \in 1 .. n : t[i] = s[i]
        /\ t[n + 1] = b
    BY <1>5, <1>6, <2>1, <2>2, <2>3, <2>4
  <2>7. t = Append(s, b)
    BY <1>5, <1>6, <2>5, <2>6
  <2> QED
    BY <1>7, <2>4, <2>7
<1>13. SavedNow' = SavedNow
  <2>1. \A f \in Files : f # opened => ListIn(inodes[f], disk') = ListIn(inodes[f], disk)
    BY <1>3 DEF Stays
  <2> QED
    BY <1>1, <2>1 DEF SavedNow
<1> QED
  BY <1>1, <1>4, <1>5, <1>10, <1>11, <1>12, <1>13 DEF ListGrows

LEMMA ShrinkShrinksList ==
  ASSUME IndexInv, Shrink
  PROVE  ListShrinks
<1>1. /\ opened # None /\ opened' = opened /\ inodes' = inodes /\ before' = before
      /\ inode.block_count > 0
  BY DEF Shrink
<1>2. PICK n : n = inode.block_count - 1
  OBVIOUS
<1>3. Shrunk(n) /\ \A g \in Files : g # opened => Stays(inodes[g], disk, disk')
  BY <1>2, ShrinkIs
<1>4. /\ n \in Positions /\ inode.block_count = n + 1 /\ inode'.block_count = n
      /\ Good(inode, disk) /\ Good(inode', disk')
      /\ Same(inode, disk, inode', disk', n)
  BY <1>1, <1>3, WhileOpen DEF Shrunk, PopStep
<1>5. n \in Nat
  BY <1>4, Thresholds DEF Positions
<1>6. ListNow = ListIn(inode, disk) /\ ListNow' = ListIn(inode', disk')
  BY <1>1 DEF ListNow
<1>7. PICK s, t : s = ListIn(inode, disk) /\ t = ListIn(inode', disk')
  OBVIOUS
<1>8. s \in Seq(Blocks) /\ Len(s) = n + 1 /\ t \in Seq(Blocks) /\ Len(t) = n
  BY <1>4, <1>7, ListTyped
<1>9. \A i \in 1 .. n : t[i] = s[i]
  <2> SUFFICES ASSUME NEW i \in 1 .. n PROVE t[i] = s[i]
    OBVIOUS
  <2>1. i - 1 \in 0 .. n - 1 /\ i \in 1 .. n + 1
    BY <1>5
  <2>2. DataAt(inode, disk, i - 1) = DataAt(inode', disk', i - 1)
    BY <1>4, <2>1 DEF Same, SameAt
  <2> QED
    BY <1>4, <1>7, <2>1, <2>2 DEF ListIn
<1>10. t = SubSeq(s, 1, Len(s) - 1)
  BY <1>5, <1>8, <1>9
<1>11. SavedNow' = SavedNow
  <2>1. \A f \in Files : f # opened => ListIn(inodes[f], disk') = ListIn(inodes[f], disk)
    BY <1>3 DEF Stays
  <2> QED
    BY <1>1, <2>1 DEF SavedNow
<1>12. s # <<>>
  BY <1>5, <1>8
<1> QED
  BY <1>1, <1>6, <1>7, <1>10, <1>11, <1>12 DEF ListShrinks

LEMMA SaveSavesList ==
  ASSUME IndexInv, Save
  PROVE  ListSaves
<1>1. /\ opened # None /\ opened' = None /\ disk' = disk
      /\ inodes' = [inodes EXCEPT ![opened] = inode]
  BY DEF Save
<1>2. opened \in Files /\ inodes \in [Files -> Inode]
  BY <1>1 DEF IndexInv, Types
<1>3. ListNow = ListIn(inode, disk) /\ ListNow' = <<>>
  BY <1>1 DEF ListNow
<1>4. SavedNow' = [f \in Files |-> ListIn(inodes'[f], disk)]
  BY <1>1, NoneAssumption DEF SavedNow
<1>5. \A f \in Files : inodes'[f] = IF f = opened THEN inode ELSE inodes[f]
  BY <1>1, <1>2
<1>6. SavedNow' = [SavedNow EXCEPT ![opened] = ListNow]
  BY <1>2, <1>3, <1>4, <1>5 DEF SavedNow
<1> QED
  BY <1>1, <1>3, <1>6 DEF ListSaves

LEMMA GrowFailsFailsList ==
  ASSUME IndexInv, GrowFails
  PROVE  ListFails
<1>1. opened # None /\ opened' = None /\ inodes' = inodes
  BY DEF GrowFails
<1>2. /\ opened \in Files /\ Kept
      /\ \A g \in Files : ListIn(inodes[g], disk') = ListIn(inodes[g], disk)
  BY GrowFailsIs DEF Stays
<1>3. \A g \in Files : (IF g = opened THEN before ELSE ListIn(inodes[g], disk))
                         = ListIn(inodes[g], disk)
  BY <1>2 DEF Kept
<1>4. SavedNow = [g \in Files |-> ListIn(inodes[g], disk)]
  BY <1>3 DEF SavedNow
<1>5. SavedNow' = [g \in Files |-> ListIn(inodes[g], disk')]
  BY <1>1, NoneAssumption DEF SavedNow
<1>6. SavedNow' = SavedNow
  BY <1>2, <1>4, <1>5
<1> QED
  BY <1>1, <1>6 DEF ListFails, ListNow

(* The index is the list of FileBlocks: push_block and pop_block work at    *)
(* its end whatever the levels, other files keep their lists, and a file    *)
(* that could not grow has the list it had.                                 *)
THEOREM ImplementsFileBlocks == Spec => ListSpec
<1>1. Init => List!Init
  <2> SUFFICES ASSUME Init PROVE List!Init
    OBVIOUS
  <2>1. opened = None /\ inodes = [f \in Files |-> NewInode]
    BY DEF Init
  <2>2. \A f \in Files : (IF f = opened THEN before ELSE ListOf(inodes[f])) = <<>>
    <3>1. ListIn(NewInode, disk) = <<>>
      <4>1. Good(NewInode, disk)
        BY NewIsGood
      <4>2. ListIn(NewInode, disk) \in Seq(Blocks) /\ Len(ListIn(NewInode, disk)) = 0
        BY <4>1, ListTyped, IndexBlocks
      <4> QED
        BY <4>2
    <3> QED
      BY <2>1, <3>1, NoneAssumption, ListIs
  <2> QED
    BY <2>1, <2>2 DEF List!Init
<1>2. IndexInv /\ [Next]_vars => [List!Next]_(List!fileVars)
  <2> SUFFICES ASSUME IndexInv, [Next]_vars
               PROVE  List!Next \/ UNCHANGED List!fileVars
    OBVIOUS
  <2>1. ASSUME NEW f \in Files, Open(f)
        PROVE  List!Next
    BY <2>1, OpenOpensList, ListSteps DEF List!Next
  <2>2. CASE Grow
    BY <2>2, GrowGrowsList, ListSteps DEF List!Next
  <2>3. CASE GrowFails
    BY <2>3, GrowFailsFailsList, ListSteps DEF List!Next
  <2>4. CASE Shrink
    BY <2>4, ShrinkShrinksList, ListSteps DEF List!Next
  <2>5. CASE Save
    BY <2>5, SaveSavesList, ListSteps DEF List!Next
  <2>6. CASE UNCHANGED vars
    BY <2>6 DEF vars, List!fileVars, ListOf
  <2> QED
    BY <2>1, <2>2, <2>3, <2>4, <2>5, <2>6 DEF Next
<1> QED
  BY <1>1, <1>2, IndexInvariance, PTL DEF Spec, ListSpec, List!Spec
-----------------------------------------------------------------------------
(* block_list.  A row of numbers goes on from position q: it has what v has *)
(* at every position before n that lies before r, and ends at r if all of   *)
(* these do.                                                                *)
Covers(s, v, q, r, n) ==
  /\ s \in Seq(Nat)
  /\ r <= n => Len(s) = r - q
  /\ \A p \in q .. r - 1 : p < n => p - q + 1 <= Len(s) /\ s[p - q + 1] = v[p]

LEMMA CoversOn ==
  ASSUME NEW s, NEW t, NEW v, NEW q \in Nat, NEW r \in Nat, NEW u \in Nat, NEW n \in Nat,
         q <= r, r <= u, Covers(s, v, q, r, n), Covers(t, v, r, u, n)
  PROVE  Covers(s \o t, v, q, u, n)
<1>1. /\ s \in Seq(Nat) /\ t \in Seq(Nat)
      /\ r <= n => Len(s) = r - q
      /\ u <= n => Len(t) = u - r
  BY DEF Covers
<1>2. PICK a \in Nat, b \in Nat : a = Len(s) /\ b = Len(t)
  BY <1>1
<1>j. PICK j : j = s \o t
  OBVIOUS
<1>3. /\ j \in Seq(Nat) /\ Len(j) = a + b
      /\ \A x \in 1 .. a + b : j[x] = IF x <= a THEN s[x] ELSE t[x - a]
  BY <1>1, <1>2, <1>j, ConcatProperties
<1>4. u <= n => Len(j) = u - q
  <2>1. u <= n => r <= n
    OBVIOUS
  <2>2. u <= n => a = r - q /\ b = u - r
    BY <1>1, <1>2, <2>1
  <2>3. Len(j) = a + b
    BY <1>3
  <2> QED
    BY <2>2, <2>3
<1>5. ASSUME NEW p \in q .. u - 1, p < n
      PROVE  p - q + 1 <= Len(j) /\ j[p - q + 1] = v[p]
  <2>1. CASE p < r
    <3>1. p \in q .. r - 1
      BY <2>1
    <3>2. p - q + 1 <= a /\ s[p - q + 1] = v[p]
      BY <1>2, <1>5, <3>1 DEF Covers
    <3>3. p - q + 1 \in 1 .. a + b
      BY <1>2, <3>1, <3>2
    <3> QED
      BY <1>3, <3>2, <3>3
  <2>2. CASE ~(p < r)
    <3>1. p \in r .. u - 1
      BY <2>2
    <3>2. p - r + 1 <= b /\ t[p - r + 1] = v[p]
      BY <1>2, <1>5, <3>1 DEF Covers
    <3>3. a = r - q
      BY <1>1, <1>2, <1>5, <2>2
    <3>4. p - q + 1 \in 1 .. a + b /\ ~(p - q + 1 <= a) /\ p - q + 1 - a = p - r + 1
      BY <1>2, <3>1, <3>2, <3>3
    <3> QED
      BY <1>3, <3>2, <3>4
  <2> QED
    BY <2>1, <2>2
<1> QED
  BY <1>2, <1>j, <1>3, <1>4, <1>5 DEF Covers

(* Rows that go on from one bound to the next go on from the first to the   *)
(* last when they are joined.                                               *)
Bounds(rows, v, c, n) ==
  \A k \in 1 .. Len(rows) :
    c[k] \in Nat /\ c[k + 1] \in Nat /\ c[k] <= c[k + 1] /\ Covers(rows[k], v, c[k], c[k + 1], n)

LEMMA FlattenCovers ==
  ASSUME NEW rows \in Seq(Seq(Nat)), NEW v, NEW c, NEW n \in Nat, Bounds(rows, v, c, n),
         c[1] \in Nat
  PROVE  Covers(FlattenSeq(rows), v, c[1], c[Len(rows) + 1], n)
<1>1. PICK m \in Nat : m = Len(rows)
  OBVIOUS
<1>2. PICK flat : flat = FlattenSeq(rows)
  OBVIOUS
<1> DEFINE Good1(k) == c[k + 1] \in Nat /\ c[1] <= c[k + 1]
                         /\ Covers(Joined(rows)[k], v, c[1], c[k + 1], n)
<1>3. \A k \in 1 .. m : Joined(rows)[k] =
        IF k = 1 THEN rows[k] ELSE Joined(rows)[k - 1] \o rows[k]
  <2>1. Joins(Joined(rows), rows, Len(rows))
    BY JoinedDefined
  <2> QED
    BY <1>1, <2>1 DEF Joins
<1>4. \A k \in 1 .. m : /\ c[k] \in Nat /\ c[k + 1] \in Nat /\ c[k] <= c[k + 1]
                        /\ Covers(rows[k], v, c[k], c[k + 1], n)
  BY <1>1 DEF Bounds
<1>5. 1 \in 1 .. m => Good1(1)
  BY <1>3, <1>4
<1>6. ASSUME NEW k \in 2 .. m, Good1(k - 1)
      PROVE  Good1(k)
  <2>1. k \in 1 .. m /\ k # 1 /\ (k - 1) + 1 = k
    OBVIOUS
  <2>2. Joined(rows)[k] = Joined(rows)[k - 1] \o rows[k]
    BY <1>3, <2>1
  <2>0. PICK p, q : p = Joined(rows)[k - 1] /\ q = rows[k]
    OBVIOUS
  <2>3. PICK b \in Nat, e \in Nat : b = c[k] /\ e = c[k + 1]
    BY <1>4, <2>1
  <2>4. /\ c[1] <= b /\ b <= e /\ Covers(p, v, c[1], b, n) /\ Covers(q, v, b, e, n)
    BY <1>4, <1>6, <2>1, <2>0, <2>3
  <2>5. Covers(p \o q, v, c[1], e, n)
    BY <2>4, CoversOn
  <2>6. c[1] <= e
    BY <2>4
  <2> QED
    BY <2>0, <2>2, <2>3, <2>5, <2>6
<1>7. ASSUME m # 0
      PROVE  Good1(m)
  <2> DEFINE Bad == {k \in 1 .. m : ~Good1(k)}
  <2> HIDE DEF Good1
  <2>0. m \in 1 .. m
    BY <1>7
  <2>1. SUFFICES ASSUME Bad # {}
                 PROVE  FALSE
    BY <2>0
  <2>2. PICK k \in Bad : \A j \in Bad : k <= j
    <3>1. Bad \subseteq Nat
      OBVIOUS
    <3> HIDE DEF Bad
    <3> QED
      BY <2>1, <3>1, LeastNumber
  <2>3. k \in 1 .. m /\ ~Good1(k) /\ k # 1
    BY <1>5, <1>7
  <2>4. k \in 2 .. m /\ k - 1 \in 1 .. m /\ k - 1 \notin Bad
    <3>1. k \in 2 .. m /\ k - 1 \in 1 .. m /\ k - 1 < k /\ k - 1 \in Int
      BY <2>3
    <3> HIDE DEF Bad
    <3> QED
      BY <2>2, <3>1
  <2>5. Good1(k - 1)
    BY <2>4
  <2> QED
    BY <1>6, <2>3, <2>4, <2>5
<1>8. CASE m = 0
  <2>1. FlattenSeq(rows) = rows
    BY <1>1, <1>8, FlattenIsJoined
  <2>2. rows \in Seq(Nat) /\ Len(rows) = 0
    <3>1. rows = <<>>
      BY <1>1, <1>8, EmptySeq
    <3> QED
      BY <3>1
  <2>3. c[Len(rows) + 1] = c[1]
    BY <2>2
  <2> QED
    BY <2>1, <2>2, <2>3 DEF Covers
<1>9. CASE m # 0
  <2>1. FlattenSeq(rows) = Joined(rows)[m]
    BY <1>1, <1>9, FlattenIsJoined
  <2> QED
    BY <1>1, <1>7, <1>9, <2>1
<1> QED
  BY <1>8, <1>9

(* _get_index_list strips zeros from the end of an index block only.        *)
RowIs(s, e, j0) ==
  /\ s \in Seq(0 .. BLOCK_COUNT)
  /\ Len(s) <= F - j0
  /\ \A k \in 1 .. Len(s) : s[k] = e[j0 + k - 1]
  /\ \A j \in j0 .. F - 1 : e[j] # 0 => j - j0 + 1 <= Len(s)

LEMMA IndexListIs ==
  ASSUME disk \in [Blocks -> Index], NEW b \in Blocks
  PROVE  RowIs(GetIndexList(b), disk[b], 0)
<1>1. b # 0
  BY DEF Blocks
<1>2. PICK e \in Index : e = disk[b]
  OBVIOUS
<1> DEFINE used == {i \in Indexes : disk[b][i] # 0}
           last == IF used = {} THEN -1 ELSE CHOOSE i \in used : \A j \in used : j <= i
<1>3. last \in -1 .. F - 1 /\ \A j \in used : j <= last
  <2>1. CASE used = {}
    BY <2>1, IndexNumbers DEF Indexes
  <2>2. CASE used # {}
    <3> DEFINE Rest == {m \in Nat : \A j \in used : j <= m}
    <3>1. F - 1 \in Rest
      BY IndexNumbers DEF Indexes, F
    <3>2. PICK m \in Rest : \A l \in Rest : m <= l
      <4>1. Rest \subseteq Nat /\ Rest # {}
        BY <3>1
      <4> HIDE DEF Rest
      <4> QED
        BY <4>1, LeastNumber
    <3>3. m \in used
      <4> SUFFICES ASSUME m \notin used PROVE FALSE
        OBVIOUS
      <4>1. \A j \in used : j \in Int /\ j <= m /\ j # m /\ j >= 0
        BY <3>2 DEF Indexes
      <4>2. PICK j \in used : TRUE
        BY <2>2
      <4>3. m - 1 \in Nat /\ \A i \in used : i <= m - 1
        <5>1. m \in Nat /\ m > 0
          BY <3>2, <4>1, <4>2
        <5> HIDE DEF used
        <5> QED
          BY <4>1, <5>1
      <4>4. m - 1 \in Rest
        BY <4>3
      <4>5. m \in Nat /\ ~(m <= m - 1)
        BY <3>2
      <4> HIDE DEF Rest, used
      <4> QED
        BY <3>2, <4>4, <4>5
    <3>4. \E i \in used : \A j \in used : j <= i
      BY <3>2, <3>3
    <3>5. last \in used /\ \A j \in used : j <= last
      <4>1. last = CHOOSE i \in used : \A j \in used : j <= i
        BY <2>2
      <4> HIDE DEF used, last
      <4> QED
        BY <3>4, <4>1
    <3>6. last \in Indexes
      BY <3>5
    <3> HIDE DEF last
    <3> QED
      BY <3>5, <3>6, IndexNumbers DEF Indexes, F
  <2> QED
    BY <2>1, <2>2
<1>4. GetIndexList(b) = [i \in 1 .. last + 1 |-> disk[b][i - 1]]
  BY <1>1 DEF GetIndexList
<1>5. PICK n \in Nat : n = last + 1 /\ n <= F /\ \A j \in used : j + 1 <= n
  <2>1. \A j \in used : j \in Int
    BY DEF Indexes
  <2> HIDE DEF last, used
  <2> QED
    BY <1>3, <2>1, IndexNumbers
<1>6. \A j \in 0 .. F - 1 : j \in Indexes /\ (e[j] # 0 => j + 1 <= n)
  BY <1>2, <1>5 DEF Indexes, F
<1> HIDE DEF used, last
<1>7. \A i \in 1 .. n : i - 1 \in Indexes
  BY <1>5, IndexNumbers DEF Indexes, F
<1>8. GetIndexList(b) = [i \in 1 .. n |-> e[i - 1]]
  BY <1>2, <1>4, <1>5
<1>9. \A i \in 1 .. n : e[i - 1] \in 0 .. BLOCK_COUNT
  BY <1>2, <1>7 DEF Index
<1>10. GetIndexList(b) \in Seq(0 .. BLOCK_COUNT) /\ Len(GetIndexList(b)) = n
  BY <1>8, <1>9
<1>11. /\ \A k \in 1 .. n : GetIndexList(b)[k] = e[0 + k - 1]
       /\ \A j \in 0 .. F - 1 : e[j] # 0 => j - 0 + 1 <= n
  BY <1>5, <1>6, <1>8
<1> QED
  BY <1>2, <1>5, <1>10, <1>11, IndexNumbers DEF RowIs

LEMMA FromIs ==
  ASSUME disk \in [Blocks -> Index], NEW b \in Blocks, NEW j0 \in Indexes
  PROVE  RowIs(From(GetIndexList(b), j0), disk[b], j0)
<1>1. PICK s, e : s = GetIndexList(b) /\ e = disk[b]
  OBVIOUS
<1>2. RowIs(s, e, 0)
  BY <1>1, IndexListIs
<1>3. PICK n \in Nat : n = Len(s) /\ n <= F
  BY <1>2, IndexNumbers DEF RowIs
<1>4. /\ s \in Seq(0 .. BLOCK_COUNT)
      /\ \A k \in 1 .. n : s[k] = e[k - 1]
      /\ \A j \in 0 .. F - 1 : e[j] # 0 => j + 1 <= n
  <2>1. /\ \A k \in 1 .. n : s[k] = e[0 + k - 1] /\ 0 + k - 1 = k - 1
        /\ \A j \in 0 .. F - 1 : e[j] # 0 => j - 0 + 1 <= n
    BY <1>2, <1>3 DEF RowIs
  <2> QED
    BY <1>2, <2>1, IndexNumbers DEF RowIs
<1>5. j0 \in Nat /\ j0 < F
  BY IndexNumbers DEF Indexes, F
<1>6. PICK t : t = From(s, j0) /\ t = SubSeq(s, j0 + 1, n)
  BY <1>3 DEF From
<1>7. CASE j0 >= n
  <2>1. t = <<>>
    BY <1>4, <1>5, <1>6, <1>7
  <2>2. t \in Seq(0 .. BLOCK_COUNT) /\ Len(t) = 0
    BY <2>1
  <2>3. \A j \in j0 .. F - 1 : ~(e[j] # 0)
    BY <1>4, <1>5, <1>7
  <2> QED
    BY <1>1, <1>5, <1>6, <2>2, <2>3, IndexNumbers DEF RowIs
<1>8. CASE j0 < n
  <2>1. /\ t \in Seq(0 .. BLOCK_COUNT) /\ Len(t) = n - j0
        /\ \A k \in 1 .. n - j0 : t[k] = s[j0 + k]
    <3>1. PICK x \in Int : x = j0 + 1 /\ x <= n /\ x >= 1 /\ n - x + 1 = n - j0
      BY <1>5, <1>8
    <3>2. \A i \in x .. n : s[i] \in 0 .. BLOCK_COUNT
      <4>1. \A i \in x .. n : i \in 1 .. Len(s)
        BY <1>3, <3>1
      <4> QED
        BY <1>4, <4>1, ElementOfSeq
    <3>3. /\ SubSeq(s, x, n) \in Seq(0 .. BLOCK_COUNT)
          /\ Len(SubSeq(s, x, n)) = IF x <= n THEN n - x + 1 ELSE 0
          /\ \A k \in 1 .. n - x + 1 : SubSeq(s, x, n)[k] = s[x + k - 1]
      BY <3>2, SubSeqProperties
    <3>4. t = SubSeq(s, x, n)
      BY <1>6, <3>1
    <3>5. \A k \in 1 .. n - j0 : x + k - 1 = j0 + k
      BY <1>5, <3>1
    <3> QED
      BY <3>1, <3>3, <3>4, <3>5
  <2>2. \A k \in 1 .. n - j0 : j0 + k \in 1 .. n /\ t[k] = e[j0 + k - 1]
    BY <1>3, <1>4, <1>5, <2>1
  <2>3. \A j \in j0 .. F - 1 : e[j] # 0 => j - j0 + 1 <= n - j0
    BY <1>3, <1>4, <1>5, IndexNumbers
  <2>4. n - j0 <= F - j0
    BY <1>3, <1>5, IndexNumbers
  <2> QED
    BY <1>1, <1>6, <2>1, <2>2, <2>3, <2>4 DEF RowIs
<1> QED
  BY <1>3, <1>5, <1>7, <1>8

LEMMA RowCovers ==
  ASSUME NEW s, NEW e, NEW v, NEW j0 \in Indexes, NEW q \in Nat, NEW n \in Nat, RowIs(s, e, j0),
         \A j \in j0 .. F - 1 : q + j - j0 < n => e[j] # 0 /\ e[j] = v[q + j - j0]
  PROVE  Covers(s, v, q, q + F - j0, n)
<1>1. /\ s \in Seq(0 .. BLOCK_COUNT)
      /\ Len(s) <= F - j0
      /\ \A k \in 1 .. Len(s) : s[k] = e[j0 + k - 1]
      /\ \A j \in j0 .. F - 1 : e[j] # 0 => j - j0 + 1 <= Len(s)
  BY DEF RowIs
<1>2. s \in Seq(Nat)
  BY <1>1, IndexAssumption
<1>3. PICK m \in Nat : m = Len(s)
  BY <1>2
<1>4. j0 \in Nat /\ j0 < F /\ F \in Nat
  BY IndexNumbers DEF Indexes, F
<1>5. ASSUME NEW p \in q .. q + F - j0 - 1, p < n
      PROVE  p - q + 1 <= m /\ s[p - q + 1] = v[p]
  <2>1. PICK j \in Int : j = j0 + p - q /\ j \in j0 .. F - 1 /\ q + j - j0 = p /\ j - j0 + 1 = p - q + 1
    BY <1>4
  <2>2. e[j] # 0 /\ e[j] = v[p]
    BY <1>5, <2>1
  <2>3. p - q + 1 \in 1 .. m /\ j0 + (p - q + 1) - 1 = j
    BY <1>1, <1>3, <1>4, <2>1, <2>2
  <2> QED
    BY <1>1, <1>3, <2>2, <2>3
<1>6. q + F - j0 <= n => m = F - j0
  <2> SUFFICES ASSUME q + F - j0 <= n PROVE m = F - j0
    OBVIOUS
  <2>1. F - 1 \in j0 .. F - 1 /\ q + (F - 1) - j0 < n
    BY <1>4
  <2>2. e[F - 1] # 0
    BY <2>1
  <2>3. (F - 1) - j0 + 1 <= m /\ m <= F - j0
    BY <1>1, <1>3, <2>1, <2>2
  <2> QED
    BY <1>4, <2>3
<1>7. PICK r \in Int : r = q + F - j0 /\ r - q = F - j0
  BY <1>4
<1>8. /\ r <= n => Len(s) = r - q
      /\ \A p \in q .. r - 1 : p < n => p - q + 1 <= Len(s) /\ s[p - q + 1] = v[p]
  BY <1>3, <1>5, <1>6, <1>7
<1>9. Covers(s, v, q, r, n)
  BY <1>2, <1>8 DEF Covers
<1> QED
  BY <1>7, <1>9

(* Behind the end a row may have anything.                                  *)
LEMMA CoversBehind ==
  ASSUME NEW s \in Seq(Nat), NEW v, NEW q \in Nat, NEW r \in Nat, NEW n \in Nat, q < r, n <= q
  PROVE  Covers(s, v, q, r, n)
BY DEF Covers

LEMMA CoversPast ==
  ASSUME NEW s, NEW v, NEW q \in Nat, NEW r \in Nat, NEW u \in Nat, NEW n \in Nat,
         Covers(s, v, q, r, n), n <= r, r < u
  PROVE  Covers(s, v, q, u, n)
<1>1. ASSUME NEW p \in q .. u - 1, p < n
      PROVE  p \in q .. r - 1
  BY <1>1
<1> QED
  BY <1>1 DEF Covers

(* The rest of one index block.                                             *)
LEMMA BlockRow ==
  ASSUME disk \in [Blocks -> Index], NEW x \in 0 .. BLOCK_COUNT, NEW v,
         NEW j0 \in Indexes, NEW q \in Nat, NEW n \in Nat,
         q < n => x \in Blocks,
         x \in Blocks => \A j \in j0 .. F - 1 :
           q + j - j0 < n => disk[x][j] # 0 /\ disk[x][j] = v[q + j - j0]
  PROVE  Covers(From(GetIndexList(x), j0), v, q, q + F - j0, n)
<1>1. CASE x \in Blocks
  <2>1. RowIs(From(GetIndexList(x), j0), disk[x], j0)
    BY <1>1, FromIs
  <2>2. \A j \in j0 .. F - 1 : q + j - j0 < n => disk[x][j] # 0 /\ disk[x][j] = v[q + j - j0]
    BY <1>1
  <2>3. PICK s, e : s = From(GetIndexList(x), j0) /\ e = disk[x]
    OBVIOUS
  <2>4. Covers(s, v, q, q + F - j0, n)
    BY <2>1, <2>2, <2>3, RowCovers
  <2> QED
    BY <2>3, <2>4
<1>2. CASE x \notin Blocks
  <2>1. x = 0 /\ n <= q
    BY <1>2 DEF Blocks
  <2>2. GetIndexList(x) = <<>>
    BY <2>1 DEF GetIndexList
  <2>3. j0 \in Nat /\ j0 < F /\ F \in Nat
    BY IndexNumbers DEF Indexes, F
  <2>4. From(GetIndexList(x), j0) = <<>>
    BY <2>2, <2>3 DEF From
  <2>5. From(GetIndexList(x), j0) \in Seq(Nat)
    BY <2>4
  <2>6. q + F - j0 \in Nat /\ q < q + F - j0
    BY <2>3
  <2> QED
    BY <2>1, <2>5, <2>6, CoversBehind
<1> QED
  BY <1>1, <1>2

Vals(node, d) == [p \in Positions |-> DataAt(node, d, p)]

(* What the places of an entry name while the file reaches them.            *)
LEMMA ReachedParts ==
  ASSUME NEW node, Good(node, disk), NEW p \in Positions, p < node.block_count
  PROVE  /\ DataAt(node, disk, p) \in Blocks /\ DataAt(node, disk, p) # 0
         /\ Outer(node, p) \in Blocks
         /\ Low(p) # -1 => Inner(node, disk, p) \in Blocks /\ Inner(node, disk, p) # 0
         /\ Vals(node, disk)[p] = DataAt(node, disk, p)
<1>1. PICK lab : Labels(node, disk, lab)
  BY DEF Good, Tree
<1>2. PICK n \in 0 .. FILE_INDEX_HUGE_THRESHOLD : node.block_count = n
  BY DEF Good, Inode
<1>3. p \in Under(node)
  BY <1>2, Thresholds DEF Under, Positions
<1>4. /\ DataAt(node, disk, p) \in Blocks
      /\ Mid(p) # -1 => Outer(node, p) \in Blocks
      /\ Low(p) # -1 => Inner(node, disk, p) \in Blocks
  BY <1>1, <1>3, PartsApart
<1>5. Outer(node, p) \in Blocks
  BY <1>4 DEF DataAt
<1>6. 0 \notin Blocks
  BY DEF Blocks
<1> QED
  BY <1>4, <1>5, <1>6 DEF Vals

LEMMA CountOf ==
  ASSUME NEW node, Good(node, disk)
  PROVE  /\ node.block_count \in Nat /\ node.block_count <= FILE_INDEX_HUGE_THRESHOLD
         /\ \A i \in Addrs : node.d_addr[i] \in 0 .. BLOCK_COUNT
BY Thresholds DEF Good, Inode

(* Positions under one entry of d_addr or of an index block.                *)
LEMMA At1Steps ==
  ASSUME NEW a \in Int, NEW b \in Int
  PROVE  /\ At1(a, b) \in Int
         /\ At1(a + 1, 0) = At1(a, b) + F - b
         /\ \A j \in Int : At1(a, j) = At1(a, b) + j - b
<1>1. PICK x \in Int : x = a * F /\ (a + 1) * F = x + F
  BY Multiple
<1>2. F \in Int /\ S \in Int
  BY IndexNumbers
<1> QED
  BY <1>1, <1>2 DEF At1

LEMMA At2Steps ==
  ASSUME NEW a \in Int, NEW j \in Int, NEW c \in Int
  PROVE  /\ At2(a, j, c) \in Int
         /\ At2(a, j + 1, 0) = At2(a, j, c) + F - c
         /\ \A l \in Int : At2(a, j, l) = At2(a, j, c) + l - c
         /\ At2(a + 1, 0, 0) = At2(a, F, 0)
<1>1. PICK x \in Int : x = a * F /\ (a + 1) * F = x + F
  BY Multiple
<1>2. F \in Int /\ FILE_INDEX_LARGE_THRESHOLD \in Int
  BY IndexNumbers, Thresholds
<1>3. PICK m \in Int : m = x + j
  BY <1>1
<1>4. PICK y \in Int : y = m * F /\ (m + 1) * F = y + F
  BY Multiple
<1>5. PICK z \in Int : z = (x + F) * F
  BY <1>1, <1>2, Multiple
<1>6. \A l \in Int : At2(a, j, l) = FILE_INDEX_LARGE_THRESHOLD + y + l
  BY <1>1, <1>3, <1>4 DEF At2
<1>7. At2(a, j + 1, 0) = FILE_INDEX_LARGE_THRESHOLD + (y + F)
  <2>1. a * F + (j + 1) = m + 1
    BY <1>1, <1>3
  <2>2. At2(a, j + 1, 0) = FILE_INDEX_LARGE_THRESHOLD + (m + 1) * F + 0
    BY <2>1 DEF At2
  <2> QED
    BY <1>2, <1>4, <2>2
<1>8. At2(a + 1, 0, 0) = FILE_INDEX_LARGE_THRESHOLD + z
  <2>1. (a + 1) * F + 0 = x + F
    BY <1>1, <1>2
  <2>2. At2(a + 1, 0, 0) = FILE_INDEX_LARGE_THRESHOLD + (x + F) * F + 0
    BY <2>1 DEF At2
  <2> QED
    BY <1>2, <1>5, <2>2
<1>9. At2(a, F, 0) = FILE_INDEX_LARGE_THRESHOLD + z
  <2>1. At2(a, F, 0) = FILE_INDEX_LARGE_THRESHOLD + (x + F) * F + 0
    BY <1>1 DEF At2
  <2> QED
    BY <1>2, <1>5, <2>1
<1> QED
  BY <1>2, <1>4, <1>6, <1>7, <1>8, <1>9

LEMMA HugeNext ==
  ASSUME NEW a \in Int, NEW b \in Indexes, NEW c \in Indexes
  PROVE  /\ At2(a, b, c) \in Int /\ At2(a + 1, 0, 0) \in Int
         /\ At2(a, b, c) < At2(a + 1, 0, 0)
<1>1. b \in Nat /\ b < F /\ F \in Nat /\ c \in Nat /\ c < F
  BY IndexNumbers DEF Indexes, F
<1>2. /\ a * F + b \in Int /\ a * F + F \in Int /\ a * F + b < a * F + F
  <2>1. PICK y \in Int : y = a * F
    BY Multiple
  <2> QED
    BY <1>1, <2>1
<1>3. PICK u \in Int : u = (a * F + b) * F
  BY <1>2, Multiple
<1>4. PICK w \in Int : w = (a * F + F) * F
  BY <1>2, Multiple
<1>5. u + F <= w
  BY <1>2, <1>3, <1>4, Apart
<1>6. /\ At2(a, b, c) = FILE_INDEX_LARGE_THRESHOLD + u + c
      /\ At2(a, F, 0) = FILE_INDEX_LARGE_THRESHOLD + w + 0
  BY <1>3, <1>4 DEF At2
<1>7. At2(a + 1, 0, 0) = At2(a, F, 0)
  <2>1. c \in Int /\ b \in Int
    BY <1>1
  <2> QED
    BY <2>1, At2Steps
<1> QED
  BY <1>1, <1>5, <1>6, <1>7, Thresholds

LEMMA LargeRow ==
  ASSUME disk \in [Blocks -> Index], NEW node, Good(node, disk),
         NEW a \in 0 .. L - S - 1, NEW b \in Indexes
  PROVE  Covers(From(GetIndexList(node.d_addr[S + a]), b), Vals(node, disk),
                At1(a, b), At1(a + 1, 0), node.block_count)
<1>1. PICK n \in Nat : n = node.block_count
  BY CountOf
<1>2. PICK q \in Nat : q = At1(a, b) /\ q \in Positions
  BY LargeHas, Thresholds DEF Positions
<1>3. PICK x : x = node.d_addr[S + a]
  OBVIOUS
<1>4. x \in 0 .. BLOCK_COUNT
  <2>1. S + a \in Addrs
    BY IndexNumbers DEF Addrs, S, L, H
  <2> QED
    BY <1>3, <2>1, CountOf
<1>5. At1(a + 1, 0) = q + F - b
  BY <1>2, At1Steps DEF Indexes
<1>6. q < n => x \in Blocks
  <2>1. Top(q) = S + a
    BY <1>2, LargeHas DEF PathOfLarge, Top
  <2> QED
    BY <1>1, <1>2, <1>3, <2>1, ReachedParts DEF Outer
<1>7. ASSUME NEW j \in b .. F - 1, q + j - b < n
      PROVE  disk[x][j] # 0 /\ disk[x][j] = Vals(node, disk)[q + j - b]
  <2>1. j \in Indexes
    BY IndexNumbers DEF Indexes, F
  <2>2. PICK p : p = At1(a, j)
    OBVIOUS
  <2>3. p = q + j - b
    BY <1>2, <2>2, At1Steps DEF Indexes
  <2>4. p \in Positions /\ Top(p) = S + a /\ Mid(p) = j /\ Low(p) = -1
    BY <2>1, <2>2, LargeHas DEF PathOfLarge, Top, Mid, Low
  <2>5. DataAt(node, disk, p) # 0 /\ Vals(node, disk)[p] = DataAt(node, disk, p)
    BY <1>1, <1>7, <2>3, <2>4, ReachedParts
  <2>6. Mid(p) # -1
    BY <2>1, <2>4 DEF Indexes
  <2>7. DataAt(node, disk, p) = disk[x][j]
    BY <1>3, <2>4, <2>6 DEF DataAt, Inner, Outer
  <2> QED
    BY <2>3, <2>5, <2>7
<1>8. Covers(From(GetIndexList(x), b), Vals(node, disk), q, q + F - b, n)
  BY <1>4, <1>6, <1>7, BlockRow
<1> QED
  BY <1>1, <1>2, <1>3, <1>5, <1>8

(* The rest of a second index block, named by the first one or stale there. *)
LEMMA InnerRow ==
  ASSUME disk \in [Blocks -> Index], NEW node, Good(node, disk),
         NEW a \in 0 .. H - L - 1, NEW b \in Indexes, NEW c \in Indexes,
         NEW x \in 0 .. BLOCK_COUNT,
         At2(a, b, c) < node.block_count => x = disk[node.d_addr[L + a]][b]
  PROVE  Covers(From(GetIndexList(x), c), Vals(node, disk),
                At2(a, b, c), At2(a, b + 1, 0), node.block_count)
<1>1. PICK n \in Nat : n = node.block_count
  BY CountOf
<1>2. PICK q \in Nat : q = At2(a, b, c) /\ q \in Positions
  BY HugeHas, Thresholds DEF Positions
<1>3. At2(a, b + 1, 0) = q + F - c
  BY <1>2, At2Steps DEF Indexes
<1>4. ASSUME q < n
      PROVE  x = disk[node.d_addr[L + a]][b] /\ x \in Blocks
  <2>1. Top(q) = L + a /\ Mid(q) = b /\ Low(q) = c
    BY <1>2, HugeHas DEF PathOfHuge, Top, Mid, Low
  <2>2. Low(q) # -1
    BY <2>1 DEF Indexes
  <2>3. Inner(node, disk, q) \in Blocks
    BY <1>1, <1>2, <1>4, <2>2, ReachedParts
  <2> QED
    BY <1>1, <1>2, <1>4, <2>1, <2>3 DEF Inner, Outer
<1>5. ASSUME NEW j \in c .. F - 1, q + j - c < n
      PROVE  disk[x][j] # 0 /\ disk[x][j] = Vals(node, disk)[q + j - c]
  <2>1. j \in Indexes /\ q < n
    BY <1>1, <1>5, IndexNumbers DEF Indexes, F
  <2>2. PICK p : p = At2(a, b, j)
    OBVIOUS
  <2>3. p = q + j - c
    BY <1>2, <2>2, At2Steps DEF Indexes
  <2>4. p \in Positions /\ Top(p) = L + a /\ Mid(p) = b /\ Low(p) = j
    BY <2>1, <2>2, HugeHas DEF PathOfHuge, Top, Mid, Low
  <2>5. DataAt(node, disk, p) # 0 /\ Vals(node, disk)[p] = DataAt(node, disk, p)
    BY <1>1, <1>5, <2>3, <2>4, ReachedParts
  <2>6. Mid(p) # -1 /\ Low(p) # -1
    BY <2>1, <2>4 DEF Indexes
  <2>7. DataAt(node, disk, p) = disk[x][j]
    BY <1>4, <2>1, <2>4, <2>6 DEF DataAt, Inner, Outer
  <2> QED
    BY <2>3, <2>5, <2>7
<1>6. Covers(From(GetIndexList(x), c), Vals(node, disk), q, q + F - c, n)
  BY <1>4, <1>5, BlockRow
<1> QED
  BY <1>1, <1>2, <1>3, <1>6

(* A whole entry of the second level: its first index block may name more   *)
(* blocks than the file has, left by an operation that was abandoned.       *)
LEMMA HugeRow ==
  ASSUME disk \in [Blocks -> Index], NEW node, Good(node, disk),
         NEW a \in 0 .. H - L - 1, NEW b \in Indexes, NEW c \in Indexes
  PROVE  Covers(WalkInner(node.d_addr[L + a], b, c), Vals(node, disk),
                At2(a, b, c), At2(a + 1, 0, 0), node.block_count)
<1>1. PICK n \in Nat : n = node.block_count
  BY CountOf
<1>2. PICK q \in Nat : q = At2(a, b, c) /\ q \in Positions
  BY HugeHas, Thresholds DEF Positions
<1>3. PICK x : x = node.d_addr[L + a]
  OBVIOUS
<1>4. x \in 0 .. BLOCK_COUNT
  <2>1. L + a \in Addrs
    BY IndexNumbers DEF Addrs, L, H
  <2> QED
    BY <1>3, <2>1, CountOf
<1>5. PICK v : v = Vals(node, disk)
  OBVIOUS
<1>6. PICK inners : inners = From(GetIndexList(x), b)
  OBVIOUS
<1> DEFINE Row(k) == From(GetIndexList(inners[k]), IF k = 1 THEN c ELSE 0)
           rows == [k \in 1 .. Len(inners) |-> Row(k)]
<1>7. WalkInner(x, b, c) = FlattenSeq(rows)
  BY <1>6 DEF WalkInner
<1>8. /\ b \in Nat /\ b < F /\ F \in Nat /\ c \in Nat /\ c < F /\ 0 \in Indexes
      /\ \A j \in Nat : j < F => j \in Indexes
  BY IndexNumbers DEF Indexes, F
<1>9. q < n => x \in Blocks
  <2>1. Top(q) = L + a
    BY <1>2, HugeHas DEF PathOfHuge, Top
  <2> QED
    BY <1>1, <1>2, <1>3, <2>1, ReachedParts DEF Outer
<1>10. PICK r \in Nat : r = At2(a + 1, 0, 0) /\ q < r
  BY <1>2, HugeNext
<1>11. CASE x = 0
  <2>1. GetIndexList(x) = <<>>
    BY <1>11 DEF GetIndexList
  <2>2. inners = <<>>
    BY <1>6, <1>8, <2>1 DEF From
  <2>3. rows = <<>>
    BY <2>2
  <2>4. FlattenSeq(rows) = <<>>
    <3> HIDE DEF rows
    <3> QED
      BY <2>3 DEF FlattenSeq
  <2>5. n <= q
    BY <1>9, <1>11 DEF Blocks
  <2>6. WalkInner(x, b, c) \in Seq(Nat)
    BY <1>7, <2>4
  <2> HIDE DEF rows
  <2>7. Covers(WalkInner(x, b, c), v, q, r, n)
    BY <1>10, <2>5, <2>6, CoversBehind
  <2> QED
    BY <1>1, <1>2, <1>3, <1>5, <1>10, <2>7
<1>12. CASE x # 0
  <2>1. x \in Blocks
    BY <1>4, <1>12 DEF Blocks
  <2>2. PICK e : e = disk[x]
    OBVIOUS
  <2>3. RowIs(inners, e, b)
    BY <1>6, <2>1, <2>2, FromIs
  <2>4. PICK m \in Nat : m = Len(inners) /\ m <= F - b
    BY <1>8, <2>3 DEF RowIs
  <2>5. /\ \A k \in 1 .. m : inners[k] \in 0 .. BLOCK_COUNT /\ inners[k] = e[b + k - 1]
        /\ \A j \in b .. F - 1 : e[j] # 0 => j - b + 1 <= m
    BY <2>3, <2>4, ElementOfSeq DEF RowIs
  <2> DEFINE Place(k) == IF k = 1 THEN c ELSE 0
             bound == [k \in 1 .. m + 1 |-> At2(a, b + k - 1, Place(k))]
  <2>6. ASSUME NEW k \in 1 .. m
        PROVE  /\ b + k - 1 \in Indexes /\ Place(k) \in Indexes
               /\ At2(a, b + k - 1, Place(k)) \in Nat
               /\ At2(a, b + k, 0) \in Nat
               /\ At2(a, b + k - 1, Place(k)) <= At2(a, b + k, 0)
               /\ Covers(Row(k), v, At2(a, b + k - 1, Place(k)), At2(a, b + k, 0), n)
    <3>1. PICK j \in Indexes, l \in Indexes, y \in 0 .. BLOCK_COUNT :
            j = b + k - 1 /\ l = Place(k) /\ y = inners[k] /\ j + 1 = b + k
      BY <1>8, <2>4, <2>5
    <3>2. At2(a, j, l) \in Positions /\ At2(a, j, l) \in Nat
      BY HugeHas, Thresholds DEF Positions
    <3>3. At2(a, j + 1, 0) = At2(a, j, l) + F - l /\ l < F /\ l \in Nat
      BY At2Steps, IndexNumbers DEF Indexes, F
    <3>4. y = disk[node.d_addr[L + a]][j]
      BY <1>3, <2>2, <2>5, <3>1
    <3>5. Covers(From(GetIndexList(y), l), v, At2(a, j, l), At2(a, j + 1, 0), n)
      BY <1>1, <1>5, <3>4, InnerRow
    <3> QED
      BY <1>8, <3>1, <3>2, <3>3, <3>5
  <2>7. At2(a, b + m, Place(m + 1)) \in Nat /\ bound[1] = q
    <3>1. bound[1] = q
      BY <1>2, <1>8
    <3>2. CASE m = 0
      BY <1>2, <1>8, <3>2
    <3>3. CASE m # 0
      <4>1. m \in 1 .. m /\ Place(m + 1) = 0
        BY <3>3
      <4>2. At2(a, b + m, 0) \in Nat
        BY <2>6, <4>1
      <4> QED
        BY <3>1, <4>1, <4>2
    <3> QED
      BY <3>1, <3>2, <3>3
  <2>8. Bounds(rows, v, bound, n) /\ Len(rows) = m
    <3>1. Len(rows) = m /\ \A k \in 1 .. m : rows[k] = Row(k)
      BY <2>4
    <3>2. ASSUME NEW k \in 1 .. m
          PROVE  bound[k] = At2(a, b + k - 1, Place(k)) /\ bound[k + 1] = At2(a, b + k, 0)
      <4>1. k \in 1 .. m + 1 /\ k + 1 \in 1 .. m + 1 /\ b + (k + 1) - 1 = b + k /\ k + 1 # 1
        BY <1>8
      <4> QED
        BY <4>1
    <3> HIDE DEF rows, bound, Row, Place
    <3> QED
      BY <2>6, <3>1, <3>2 DEF Bounds
  <2>9. rows \in Seq(Seq(Nat))
    <3>1. \A k \in 1 .. m : Row(k) \in Seq(Nat)
      BY <2>6 DEF Covers
    <3> HIDE DEF Row
    <3> QED
      BY <2>4, <3>1
  <2>10. PICK t : t = bound[m + 1] /\ t = At2(a, b + m, Place(m + 1)) /\ t \in Nat
    BY <1>8, <2>7
  <2>11. Covers(FlattenSeq(rows), v, q, t, n)
    <3> HIDE DEF rows, bound
    <3>1. Covers(FlattenSeq(rows), v, bound[1], bound[Len(rows) + 1], n)
      BY <2>7, <2>8, <2>9, FlattenCovers
    <3> QED
      BY <2>7, <2>8, <2>10, <3>1
  <2>12. Covers(FlattenSeq(rows), v, q, r, n)
    <3> HIDE DEF rows, bound
    <3>1. CASE b + m = F
      <4>1. Place(m + 1) = 0
        BY <1>8, <3>1
      <4>2. t = r
        <5>1. At2(a + 1, 0, 0) = At2(a, F, 0)
          BY At2Steps
        <5>2. t = At2(a, F, 0)
          BY <2>10, <3>1, <4>1
        <5> QED
          BY <1>10, <5>1, <5>2
      <4> QED
        BY <2>11, <4>2
    <3>2. CASE b + m # F
      <4>1. b + m \in Indexes /\ b + m \in b .. F - 1 /\ Place(m + 1) \in Indexes
        BY <1>8, <2>4, <3>2
      <4>2. t \in Positions /\ Top(t) = L + a /\ Mid(t) = b + m /\ Low(t) # -1
        BY <2>10, <4>1, HugeHas DEF PathOfHuge, Top, Mid, Low, Indexes
      <4>3. n <= t
        <5> SUFFICES ASSUME t < n PROVE FALSE
          BY <2>10
        <5>1. Inner(node, disk, t) # 0
          BY <1>1, <4>2, ReachedParts
        <5>2. e[b + m] # 0
          BY <1>3, <2>2, <4>2, <5>1 DEF Inner, Outer
        <5>3. (b + m) - b + 1 <= m
          BY <2>5, <4>1, <5>2
        <5> QED
          BY <1>8, <5>3
      <4>4. t < r
        <5>1. PICK j, l : j = b + m /\ l = Place(m + 1) /\ j \in Indexes /\ l \in Indexes
          BY <4>1
        <5>2. t = At2(a, j, l)
          BY <2>10, <5>1
        <5>3. a \in Int
          OBVIOUS
        <5>4. At2(a, j, l) < At2(a + 1, 0, 0)
          BY <5>1, <5>3, HugeNext
        <5> QED
          BY <1>10, <5>2, <5>4
      <4> QED
        BY <2>10, <2>11, <4>3, <4>4, CoversPast
    <3> QED
      BY <3>1, <3>2
  <2> QED
    BY <1>1, <1>2, <1>3, <1>5, <1>7, <1>10, <2>12
<1> QED
  BY <1>11, <1>12

(* The first position of an entry of d_addr.                                *)
EntryStart(i) ==
  IF i < S THEN i
  ELSE IF i < L THEN At1(i - S, 0)
  ELSE IF i < H THEN At2(i - L, 0, 0)
  ELSE FILE_INDEX_HUGE_THRESHOLD

LEMMA EntryEnds ==
  ASSUME NEW i \in Addrs
  PROVE  /\ i < S => EntryStart(i + 1) = i + 1
         /\ ~(i < S) /\ i < L => EntryStart(i + 1) = At1((i - S) + 1, 0)
         /\ ~(i < L) => EntryStart(i + 1) = At2((i - L) + 1, 0, 0)
<1>1. i \in Nat /\ i < H
  BY IndexNumbers DEF Addrs, H
<1>2. CASE i < S
  <2>1. CASE i + 1 < S
    BY <1>1, <1>2, <2>1, IndexNumbers DEF EntryStart
  <2>2. CASE ~(i + 1 < S)
    <3>1. i + 1 = S
      BY <1>1, <1>2, <2>2, IndexNumbers
    <3>2. EntryStart(S) = At1(0, 0)
      <4>1. ~(S < S) /\ S - S = 0
        BY IndexNumbers
      <4> QED
        BY <4>1, IndexNumbers DEF EntryStart
    <3>3. At1(0, 0) = S
      <4>1. 0 * F = 0
        BY Multiple
      <4> QED
        BY <4>1, IndexNumbers DEF At1
    <3> QED
      BY <1>1, <1>2, <3>1, <3>2, <3>3, IndexNumbers
  <2> QED
    BY <1>1, <1>2, <2>1, <2>2, IndexNumbers
<1>3. CASE ~(i < S) /\ i < L
  <2>1. CASE i + 1 < L
    <3>1. ~(i + 1 < S) /\ (i + 1) - S = (i - S) + 1
      BY <1>1, <1>3, IndexNumbers
    <3> QED
      BY <1>3, <2>1, <3>1 DEF EntryStart
  <2>2. CASE ~(i + 1 < L)
    <3>1. i + 1 = L /\ (i - S) + 1 = L - S
      BY <1>1, <1>3, <2>2, IndexNumbers
    <3>2. EntryStart(L) = At2(0, 0, 0)
      <4>1. ~(L < S) /\ ~(L < L) /\ L - L = 0
        BY IndexNumbers
      <4> QED
        BY <4>1, IndexNumbers DEF EntryStart
    <3>3. At2(0, 0, 0) = FILE_INDEX_LARGE_THRESHOLD
      <4>1. 0 * F = 0 /\ 0 * F + 0 = 0
        BY Multiple
      <4>2. (0 * F + 0) * F = 0
        BY <4>1
      <4> QED
        BY <4>2, Thresholds DEF At2
    <3>4. At1(L - S, 0) = FILE_INDEX_LARGE_THRESHOLD
      <4>1. PICK y \in Int : y = (L - S) * F
        BY IndexNumbers, Multiple
      <4>2. At1(L - S, 0) = S + y
        BY <4>1, IndexNumbers DEF At1
      <4> QED
        BY <4>1, <4>2, Thresholds
    <3>5. EntryStart(i + 1) = At1((i - S) + 1, 0)
      <4>1. PICK x, y : x = i + 1 /\ y = (i - S) + 1
        OBVIOUS
      <4>2. EntryStart(x) = EntryStart(L) /\ At1(y, 0) = At1(L - S, 0)
        BY <3>1, <4>1
      <4> QED
        BY <3>2, <3>3, <3>4, <4>1, <4>2
    <3> QED
      BY <1>3, <3>5
  <2> QED
    BY <1>3, <2>1, <2>2
<1>4. CASE ~(i < L)
  <2>1. ~(i < S) /\ ~(i + 1 < S) /\ ~(i + 1 < L) /\ (i + 1) - L = (i - L) + 1
    BY <1>1, <1>4, IndexNumbers
  <2>2. CASE i + 1 < H
    <3>1. EntryStart(i + 1) = At2((i + 1) - L, 0, 0)
      BY <2>1, <2>2 DEF EntryStart
    <3> QED
      BY <1>4, <2>1, <3>1
  <2>3. CASE ~(i + 1 < H)
    <3>1. EntryStart(i + 1) = FILE_INDEX_HUGE_THRESHOLD /\ (i - L) + 1 = H - L
      BY <1>1, <2>1, <2>3, IndexNumbers DEF EntryStart
    <3>2. At2(H - L, 0, 0) = FILE_INDEX_HUGE_THRESHOLD
      <4>1. PICK y \in Int : y = (H - L) * F
        BY IndexNumbers, Multiple
      <4>2. PICK z \in Int : z = y * F
        BY <4>1, Multiple
      <4>3. (H - L) * F + 0 = y
        BY <4>1
      <4>4. At2(H - L, 0, 0) = FILE_INDEX_LARGE_THRESHOLD + z
        <5>1. At2(H - L, 0, 0) = FILE_INDEX_LARGE_THRESHOLD + y * F + 0
          BY <4>3 DEF At2
        <5> QED
          BY <4>2, <5>1, Thresholds
      <4> QED
        BY <4>1, <4>2, <4>4, Thresholds
    <3>3. EntryStart(i + 1) = At2((i - L) + 1, 0, 0)
      <4>1. PICK y : y = (i - L) + 1
        OBVIOUS
      <4>2. At2(y, 0, 0) = At2(H - L, 0, 0)
        BY <3>1, <4>1
      <4> QED
        BY <3>1, <3>2, <4>1, <4>2
    <3> QED
      BY <1>4, <2>1, <3>3
  <2> QED
    BY <1>4, <2>1, <2>2, <2>3
<1> QED
  BY <1>1, <1>2, <1>3, <1>4, IndexNumbers

LEMMA EntryHas ==
  ASSUME NEW i \in Addrs
  PROVE  /\ EntryStart(i) \in Positions /\ Top(EntryStart(i)) = i
         /\ Mid(EntryStart(i)) \in {-1, 0} /\ Low(EntryStart(i)) \in {-1, 0}
<1>1. i \in Nat /\ i < H /\ 0 \in Indexes
  BY IndexNumbers DEF Addrs, Indexes, F, H
<1>2. CASE i < S
  <2>1. EntryStart(i) = i /\ i \in Positions
    BY <1>1, <1>2, Thresholds, IndexNumbers DEF EntryStart, Positions
  <2> QED
    BY <1>2, <2>1, SmallPath DEF PathOfSmall, Top, Mid, Low
<1>3. CASE ~(i < S) /\ i < L
  <2>1. PICK a \in 0 .. L - S - 1 : a = i - S /\ S + a = i
    BY <1>1, <1>3, IndexNumbers
  <2>2. EntryStart(i) = At1(a, 0)
    BY <1>3, <2>1 DEF EntryStart
  <2> QED
    BY <1>1, <2>1, <2>2, LargeHas DEF PathOfLarge, Top, Mid, Low
<1>4. CASE ~(i < L)
  <2>1. PICK a \in 0 .. H - L - 1 : a = i - L /\ L + a = i
    BY <1>1, <1>4, IndexNumbers
  <2>2. EntryStart(i) = At2(a, 0, 0)
    BY <1>1, <1>4, <2>1, IndexNumbers DEF EntryStart
  <2> QED
    BY <1>1, <2>1, <2>2, HugeHas DEF PathOfHuge, Top, Mid, Low
<1> QED
  BY <1>1, <1>2, <1>3, <1>4, IndexNumbers

(* An entry ends behind every position under it.                            *)
LEMMA EntryPast ==
  ASSUME NEW q \in Positions
  PROVE  EntryStart(Top(q) + 1) \in Nat /\ q <= EntryStart(Top(q) + 1)
<1>1. Top(q) \in Addrs /\ q \in Nat
  BY AnyPath, Thresholds DEF PathTyped, Positions
<1>2. CASE q < S
  <2>1. Top(q) = q
    BY <1>2, SmallPath DEF PathOfSmall, Top
  <2>2. EntryStart(Top(q) + 1) = q + 1
    BY <1>1, <1>2, <2>1, EntryEnds
  <2> QED
    BY <1>1, <2>2
<1>3. CASE ~(q < S) /\ q < FILE_INDEX_LARGE_THRESHOLD
  <2>1. PICK a \in 0 .. L - S - 1, b \in Indexes : PathOfLarge(q, a, b)
    BY <1>3, LargePath
  <2>2. q = At1(a, b) /\ Top(q) = S + a
    BY <2>1 DEF PathOfLarge, Top
  <2>3. ~(Top(q) < S) /\ Top(q) < L /\ (Top(q) - S) + 1 = a + 1
    BY <2>2, IndexNumbers
  <2>4. EntryStart(Top(q) + 1) = At1(a + 1, 0)
    BY <1>1, <2>3, EntryEnds
  <2>5. At1(a + 1, 0) = q + F - b /\ b < F /\ b \in Nat /\ F \in Nat
    BY <2>2, At1Steps, IndexNumbers DEF Indexes, F
  <2> QED
    BY <1>1, <2>4, <2>5
<1>4. CASE ~(q < FILE_INDEX_LARGE_THRESHOLD)
  <2>1. PICK a \in 0 .. H - L - 1, b \in Indexes, c \in Indexes : PathOfHuge(q, a, b, c)
    BY <1>4, HugePath
  <2>2. q = At2(a, b, c) /\ Top(q) = L + a
    BY <2>1 DEF PathOfHuge, Top
  <2>3. ~(Top(q) < S) /\ ~(Top(q) < L) /\ (Top(q) - L) + 1 = a + 1
    BY <2>2, IndexNumbers
  <2>4. EntryStart(Top(q) + 1) = At2(a + 1, 0, 0)
    BY <1>1, <2>3, EntryEnds
  <2>5. PICK r \in Int : r = At2(a + 1, 0, 0) /\ q < r
    BY <2>2, HugeNext
  <2> QED
    BY <1>1, <2>4, <2>5
<1> QED
  BY <1>1, <1>2, <1>3, <1>4, Thresholds

(* _block_list for one entry of d_addr, from any position under it.         *)
LEMMA EntryRow ==
  ASSUME disk \in [Blocks -> Index], NEW node, Good(node, disk), NEW q \in Positions,
         NEW i2, NEW i3, Mid(q) # -1 => i2 = Mid(q), Low(q) # -1 => i3 = Low(q)
  PROVE  Covers(WalkEntry(node.d_addr, Top(q), i2, i3), Vals(node, disk),
                q, EntryStart(Top(q) + 1), node.block_count)
<1>1. PathTyped(q)
  BY AnyPath
<1>2. Top(q) \in Addrs /\ q \in Nat
  BY <1>1, Thresholds DEF PathTyped, Positions
<1>3. CASE q < S
  <2>1. Top(q) = q /\ Mid(q) = -1
    BY <1>3, SmallPath DEF PathOfSmall, Top, Mid
  <2>2. EntryStart(Top(q) + 1) = q + 1
    BY <1>2, <1>3, <2>1, EntryEnds
  <2>3. PICK x : x = node.d_addr[Top(q)]
    OBVIOUS
  <2>4. x \in Nat
    BY <1>2, <2>3, CountOf, IndexAssumption
  <2>5. WalkEntry(node.d_addr, Top(q), i2, i3) = <<x>>
    BY <1>3, <2>1, <2>3 DEF WalkEntry, S
  <2>6. q < node.block_count => Vals(node, disk)[q] = x
    BY <2>1, <2>3, ReachedParts DEF DataAt, Outer
  <2>7. PICK v, n : n \in Nat /\ v = Vals(node, disk) /\ n = node.block_count
    BY CountOf
  <2>8. Covers(<<x>>, v, q, q + 1, n)
    <3>1. <<x>> \in Seq(Nat) /\ Len(<<x>>) = 1 /\ <<x>>[1] = x
      BY <2>4
    <3>2. PICK s : s = <<x>>
      OBVIOUS
    <3>3. ASSUME NEW p \in q .. (q + 1) - 1, p < n
          PROVE  p - q + 1 <= Len(s) /\ s[p - q + 1] = v[p]
      <4>1. p = q /\ p - q + 1 = 1
        BY <1>2
      <4> QED
        BY <2>6, <2>7, <3>1, <3>2, <3>3, <4>1
    <3>4. (q + 1) - q = 1
      BY <1>2
    <3> QED
      BY <3>1, <3>2, <3>3, <3>4 DEF Covers
  <2> QED
    BY <2>2, <2>5, <2>7, <2>8
<1>4. CASE ~(q < S) /\ q < FILE_INDEX_LARGE_THRESHOLD
  <2>1. PICK a \in 0 .. L - S - 1, b \in Indexes : PathOfLarge(q, a, b)
    BY <1>4, LargePath
  <2>2. q = At1(a, b) /\ Top(q) = S + a /\ Mid(q) = b /\ Mid(q) # -1
    BY <2>1 DEF PathOfLarge, Top, Mid, Indexes
  <2>3. ~(Top(q) < S) /\ Top(q) < L /\ (Top(q) - S) + 1 = a + 1
    BY <2>2, IndexNumbers
  <2>4. EntryStart(Top(q) + 1) = At1(a + 1, 0)
    BY <1>2, <2>3, EntryEnds
  <2>5. WalkEntry(node.d_addr, Top(q), i2, i3) = From(GetIndexList(node.d_addr[S + a]), b)
    BY <2>2, <2>3 DEF WalkEntry, S, L
  <2> QED
    BY <2>2, <2>4, <2>5, LargeRow
<1>5. CASE ~(q < FILE_INDEX_LARGE_THRESHOLD)
  <2>1. PICK a \in 0 .. H - L - 1, b \in Indexes, c \in Indexes : PathOfHuge(q, a, b, c)
    BY <1>5, HugePath
  <2>2. /\ q = At2(a, b, c) /\ Top(q) = L + a /\ Mid(q) = b /\ Mid(q) # -1
        /\ Low(q) = c /\ Low(q) # -1
    BY <2>1 DEF PathOfHuge, Top, Mid, Low, Indexes
  <2>3. ~(Top(q) < S) /\ ~(Top(q) < L) /\ (Top(q) - L) + 1 = a + 1
    BY <2>2, IndexNumbers
  <2>4. EntryStart(Top(q) + 1) = At2(a + 1, 0, 0)
    BY <1>2, <2>3, EntryEnds
  <2>5. WalkEntry(node.d_addr, Top(q), i2, i3) = WalkInner(node.d_addr[L + a], b, c)
    BY <2>2, <2>3 DEF WalkEntry, S, L
  <2> QED
    BY <2>2, <2>4, <2>5, HugeRow
<1> QED
  BY <1>2, <1>3, <1>4, <1>5, Thresholds

(* _block_list from any position: what the file has from there on.          *)
LEMMA WalkCovers ==
  ASSUME disk \in [Blocks -> Index], NEW node, Good(node, disk), NEW q \in Positions
  PROVE  Covers(Walk(node.d_addr, q), Vals(node, disk),
                q, FILE_INDEX_HUGE_THRESHOLD, node.block_count)
<1>1. PICK n, v : n \in Nat /\ n = node.block_count /\ v = Vals(node, disk)
  BY CountOf
<1>2. PICK i0 : i0 = Top(q) /\ i0 \in Addrs
  BY AnyPath DEF PathTyped
<1>3. i0 \in Nat /\ i0 < H /\ H \in Nat /\ q \in Nat
  BY <1>2, IndexNumbers, Thresholds DEF Addrs, H, Positions
<1>4. PICK m \in Nat : m = H - i0 /\ m > 0
  BY <1>3
<1> DEFINE Row(k) == IF k = 1 THEN WalkEntry(node.d_addr, i0, Mid(q), Low(q))
                     ELSE WalkEntry(node.d_addr, i0 + k - 1, 0, 0)
           rows  == [k \in 1 .. m |-> Row(k)]
           bound == [k \in 1 .. m + 1 |-> IF k = 1 THEN q ELSE EntryStart(i0 + k - 1)]
<1>5. Walk(node.d_addr, q) = FlattenSeq(rows)
  <2>1. GetBlockIndex(q)[1] = i0 /\ GetBlockIndex(q)[2] = Mid(q) /\ GetBlockIndex(q)[3] = Low(q)
    BY <1>2 DEF Top, Mid, Low
  <2> QED
    BY <1>4, <2>1 DEF Walk, H
<1>6. ASSUME NEW k \in 1 .. m
      PROVE  /\ bound[k] \in Nat /\ bound[k + 1] \in Nat /\ bound[k] <= bound[k + 1]
             /\ Covers(Row(k), v, bound[k], bound[k + 1], n)
  <2>1. PICK p \in Positions : /\ p = bound[k] /\ p \in Nat /\ Top(p) = i0 + k - 1
                               /\ k # 1 => Mid(p) \in {-1, 0} /\ Low(p) \in {-1, 0}
                               /\ k = 1 => p = q
    <3>1. CASE k = 1
      <4>1. bound[k] = q /\ i0 + k - 1 = i0
        BY <1>3, <3>1
      <4> HIDE DEF bound
      <4> QED
        BY <1>2, <1>3, <3>1, <4>1
    <3>2. CASE k # 1
      <4>1. i0 + k - 1 \in Addrs
        BY <1>3, <1>4 DEF Addrs, H
      <4>2. bound[k] = EntryStart(i0 + k - 1)
        BY <3>2
      <4>3. EntryStart(i0 + k - 1) \in Nat
        BY <4>1, EntryHas, Thresholds DEF Positions
      <4> HIDE DEF bound
      <4> QED
        BY <3>2, <4>1, <4>2, <4>3, EntryHas
    <3> QED
      BY <3>1, <3>2
  <2>2. PICK e : e = EntryStart(Top(p) + 1) /\ bound[k + 1] = e
    <3>1. k + 1 \in 1 .. m + 1 /\ k + 1 # 1 /\ i0 + (k + 1) - 1 = (i0 + k - 1) + 1
      BY <1>3
    <3>2. bound[k + 1] = EntryStart(i0 + (k + 1) - 1)
      BY <3>1
    <3> HIDE DEF bound
    <3> QED
      BY <2>1, <3>1, <3>2
  <2>3. e \in Nat /\ p <= e
    BY <2>1, <2>2, EntryPast
  <2>4. Covers(Row(k), v, p, e, n)
    <3>1. PICK i2, i3 : /\ Row(k) = WalkEntry(node.d_addr, Top(p), i2, i3)
                        /\ Mid(p) # -1 => i2 = Mid(p)
                        /\ Low(p) # -1 => i3 = Low(p)
      <4>1. CASE k = 1
        BY <1>2, <2>1, <4>1
      <4>2. CASE k # 1
        BY <2>1, <4>2
      <4> QED
        BY <4>1, <4>2
    <3> HIDE DEF Row
    <3>2. Covers(WalkEntry(node.d_addr, Top(p), i2, i3), Vals(node, disk),
                 p, EntryStart(Top(p) + 1), node.block_count)
      BY <3>1, EntryRow
    <3> QED
      BY <1>1, <2>2, <3>1, <3>2
  <2> HIDE DEF Row, bound
  <2> QED
    BY <2>1, <2>2, <2>3, <2>4
<1>7. bound[1] = q /\ bound[m + 1] = FILE_INDEX_HUGE_THRESHOLD
  <2>1. i0 + (m + 1) - 1 = H /\ m + 1 # 1 /\ ~(H < S) /\ ~(H < L) /\ ~(H < H)
    BY <1>3, <1>4, IndexNumbers
  <2>2. bound[1] = q /\ bound[m + 1] = EntryStart(i0 + (m + 1) - 1)
    BY <1>4, <2>1
  <2> HIDE DEF bound
  <2> QED
    BY <2>1, <2>2 DEF EntryStart
<1>8. Len(rows) = m /\ \A k \in 1 .. m : rows[k] = Row(k)
  OBVIOUS
<1>9. rows \in Seq(Seq(Nat))
  <2>1. \A k \in 1 .. m : Row(k) \in Seq(Nat)
    BY <1>6 DEF Covers
  <2> HIDE DEF Row
  <2> QED
    BY <2>1
<1> HIDE DEF rows, bound, Row
<1>10. Bounds(rows, v, bound, n)
  BY <1>6, <1>8 DEF Bounds
<1>11. Covers(FlattenSeq(rows), v, bound[1], bound[Len(rows) + 1], n)
  BY <1>1, <1>3, <1>7, <1>9, <1>10, FlattenCovers
<1> QED
  BY <1>1, <1>5, <1>7, <1>8, <1>11

(* block_list for a length that the file has from there on.                 *)
LEMMA BlockListIs ==
  ASSUME disk \in [Blocks -> Index], NEW node, Good(node, disk),
         NEW start \in 0 .. node.block_count, NEW length \in -1 .. node.block_count - start
  PROVE  BlockList(node, start, length)
           = SubSeq(ListOf(node), start + 1,
                    IF length < 0 THEN node.block_count ELSE start + length)
<1>1. PICK n \in Nat : n = node.block_count /\ n <= FILE_INDEX_HUGE_THRESHOLD
  BY CountOf
<1>2. start \in Nat /\ start <= n /\ length \in Int /\ length >= -1 /\ length <= n - start
  BY <1>1
<1>3. PICK m : /\ m = (IF length < 0 THEN n - start ELSE length)
               /\ m \in Nat /\ m <= n - start
  BY <1>2
<1>4. PICK w : w = Walk(node.d_addr, start)
  OBVIOUS
<1>5. BlockList(node, start, length)
        = IF m <= 0 THEN <<>> ELSE SubSeq(w, 1, Min({m, Len(w)}))
  <2>1. (IF length < 0 \/ length > node.block_count - start THEN node.block_count - start
         ELSE length) = m
    BY <1>1, <1>2, <1>3
  <2> QED
    BY <1>4, <2>1 DEF BlockList
<1>6. PICK list : /\ list = ListOf(node) /\ list \in Seq(Blocks) /\ Len(list) = n
                  /\ \A i \in 1 .. n : list[i] = DataAt(node, disk, i - 1)
  <2>1. \A i \in 1 .. n : ListIn(node, disk)[i] = DataAt(node, disk, i - 1)
    BY <1>1 DEF ListIn
  <2> QED
    BY <1>1, <2>1, ListIs, ListTyped
<1>7. (IF length < 0 THEN node.block_count ELSE start + length) = start + m
  BY <1>1, <1>2, <1>3
<1>8. PICK sub : /\ sub = SubSeq(list, start + 1, start + m) /\ sub \in Seq(Nat) /\ Len(sub) = m
                 /\ \A k \in 1 .. m : sub[k] = list[start + k]
  <2>1. PICK x \in Int, y \in Int : x = start + 1 /\ y = start + m
    BY <1>2, <1>3
  <2>2. /\ y - x + 1 = m /\ (x <= y <=> m # 0)
        /\ \A k \in 1 .. m : x + k - 1 = start + k
    BY <1>2, <1>3, <2>1
  <2>3. \A i \in x .. y : list[i] \in Nat
    <3>1. \A i \in x .. y : i \in 1 .. Len(list)
      BY <1>2, <1>3, <1>6, <2>1
    <3>2. \A i \in x .. y : list[i] \in Blocks
      BY <1>6, <3>1, ElementOfSeq
    <3> QED
      BY <3>2 DEF Blocks
  <2>4. /\ SubSeq(list, x, y) \in Seq(Nat)
        /\ Len(SubSeq(list, x, y)) = IF x <= y THEN y - x + 1 ELSE 0
        /\ \A k \in 1 .. y - x + 1 : SubSeq(list, x, y)[k] = list[x + k - 1]
    BY <2>3, SubSeqProperties
  <2>5. PICK sub : sub = SubSeq(list, x, y)
    OBVIOUS
  <2>6. sub \in Seq(Nat) /\ Len(sub) = m
    <3>1. Len(sub) = IF x <= y THEN m ELSE 0
      BY <2>2, <2>4, <2>5
    <3> QED
      BY <1>3, <2>2, <2>4, <2>5, <3>1
  <2>7. \A k \in 1 .. m : sub[k] = list[start + k]
    <3>1. \A k \in 1 .. m : sub[k] = list[x + k - 1]
      BY <2>2, <2>4, <2>5
    <3> QED
      BY <2>2, <3>1
  <2> QED
    BY <2>1, <2>5, <2>6, <2>7
<1>9. CASE m = 0
  <2>1. sub = <<>>
    BY <1>8, <1>9, EmptySeq
  <2> QED
    BY <1>5, <1>6, <1>7, <1>8, <1>9, <2>1
<1>10. CASE m # 0
  <2>1. start \in Positions /\ start < n
    BY <1>1, <1>2, <1>3, <1>10, Thresholds DEF Positions
  <2>2. PICK v, r : /\ v = Vals(node, disk) /\ r = FILE_INDEX_HUGE_THRESHOLD /\ r \in Nat
                    /\ Covers(w, v, start, r, n)
    BY <1>1, <1>4, <2>1, WalkCovers, Thresholds
  <2>3. w \in Seq(Nat) /\ n <= r
    BY <1>1, <2>2 DEF Covers
  <2>4. ASSUME NEW k \in 1 .. m
        PROVE  k <= Len(w) /\ w[k] = list[start + k]
    <3>1. PICK p \in Int : /\ p = start + k - 1 /\ p \in start .. r - 1 /\ p < n
                           /\ p - start + 1 = k /\ p + 1 = start + k /\ p + 1 \in 1 .. n
                           /\ p \in 0 .. r - 1
      BY <1>2, <1>3, <2>3, <2>2
    <3>2. p - start + 1 <= Len(w) /\ w[p - start + 1] = v[p]
      BY <2>2, <3>1 DEF Covers
    <3>3. v[p] = DataAt(node, disk, p)
      BY <2>2, <3>1 DEF Vals, Positions
    <3>4. list[p + 1] = DataAt(node, disk, p)
      <4>1. list[p + 1] = DataAt(node, disk, (p + 1) - 1) /\ (p + 1) - 1 = p
        BY <1>6, <3>1
      <4> QED
        BY <4>1
    <3> QED
      BY <3>1, <3>2, <3>3, <3>4
  <2>5. PICK z \in Nat : z = Len(w) /\ m <= z
    <3>1. m \in 1 .. m
      BY <1>3, <1>10
    <3> QED
      BY <2>3, <2>4, <3>1
  <2>6. Min({m, z}) = m
    <3>1. m \in {m, z} /\ \A y \in {m, z} : m =< y
      BY <1>3, <2>5
    <3>2. \A x \in {m, z} : (\A y \in {m, z} : x =< y) => x = m
      BY <1>3, <2>5
    <3> QED
      BY <3>1, <3>2 DEF Min
  <2>7. PICK one : /\ one = SubSeq(w, 1, m) /\ one \in Seq(Nat) /\ Len(one) = m
                   /\ \A k \in 1 .. m : one[k] = w[k]
    <3>1. \A i \in 1 .. m : w[i] \in Nat
      <4>1. \A i \in 1 .. m : i \in 1 .. Len(w)
        BY <1>3, <2>5
      <4> QED
        BY <2>3, <4>1, ElementOfSeq
    <3>2. /\ SubSeq(w, 1, m) \in Seq(Nat)
          /\ Len(SubSeq(w, 1, m)) = IF 1 <= m THEN m - 1 + 1 ELSE 0
          /\ \A k \in 1 .. m - 1 + 1 : SubSeq(w, 1, m)[k] = w[1 + k - 1]
      BY <1>3, <3>1, SubSeqProperties
    <3>3. 1 <= m /\ m - 1 + 1 = m /\ \A k \in 1 .. m : 1 + k - 1 = k
      BY <1>3, <1>10
    <3> QED
      BY <3>2, <3>3
  <2>8. one = sub
    <3>1. Len(one) = Len(sub) /\ \A k \in 1 .. Len(one) : one[k] = sub[k]
      <4>1. \A k \in 1 .. m : one[k] = sub[k]
        BY <1>8, <2>4, <2>7
      <4> QED
        BY <1>8, <2>7, <4>1
    <3>2. one \in Seq(Nat) /\ sub \in Seq(Nat)
      BY <1>8, <2>7
    <3> QED
      BY <3>1, <3>2, SeqEqual
  <2>9. BlockList(node, start, length) = SubSeq(w, 1, Min({m, Len(w)}))
    <3>1. ~(m <= 0)
      BY <1>3, <1>10
    <3> QED
      BY <1>5, <3>1
  <2> QED
    BY <1>6, <1>7, <1>8, <2>5, <2>6, <2>7, <2>8, <2>9
<1> QED
  BY <1>9, <1>10

(* block_list: reading from any position and for any length yields the      *)
(* blocks that push_block put there, whatever the level the position is at, *)
(* and although index blocks may name more than the file has.               *)
THEOREM ListCorrect == Spec => []ListIsExact
<1>1. IndexInv => ListIsExact
  <2> SUFFICES ASSUME IndexInv, NEW f \in Files, NEW node, node = Node(f),
                      NEW start \in 0 .. node.block_count,
                      NEW length \in -1 .. node.block_count - start
               PROVE  BlockList(node, start, length)
                        = SubSeq(ListOf(node), start + 1,
                                 IF length < 0 THEN node.block_count ELSE start + length)
    BY DEF ListIsExact, Nodes
  <2>1. Good(node, disk) /\ disk \in [Blocks -> Index]
    BY DEF IndexInv, Types
  <2> QED
    BY <2>1, BlockListIs
<1> QED
  BY <1>1, IndexInvariance, PTL
=============================================================================
