--------------------------- MODULE NamespaceProofs ---------------------------
(***************************************************************************)
(* For every number of names, inodes and blocks and every size of block:   *)
(* until an inode is deleted that had another entry, directories hold no   *)
(* name twice, sizes and block lists match, no block has two owners, every *)
(* entry names an inode in use and every inode in use has a path, a step   *)
(* changes one path with what is below it, and handles follow their paths. *)
(* Inductions go by least counterexamples: over the names of a path        *)
(* (FoundIs, FoundKept, FoundCut, OnePath), and over the levels of a tree  *)
(* that unlink removes (Below, FoundUnder).                                *)
(***************************************************************************)
EXTENDS Handles, CountingProofs, SequenceTheorems, TLAPS

D == DIRECTORY_PER_BLOCK

Node  == [type : {"DIR", "FILE"}, d_nlink : Nat, d_size : Nat, blocks : Seq(Blocks)]
Entry == [m_ino : Inodes, m_name : Names \cup {""}]

(* What block_count makes of the size of an inode.                          *)
Count(node) == IF node.type = "DIR" THEN Ceil(node.d_size) ELSE node.d_size

(* The places that have an entry, and those of the last of n blocks.        *)
UsedIn(es, low, high) == {p \in low + 1 .. high : es[p].m_ino # 0}
UsedLast(es, n) == UsedIn(es, (n - 1) * D, n * D)

(* An inode with the entries of its blocks, taken alone: size and list of   *)
(* blocks match, no block is listed twice, and a hole has no name.          *)
Listed(node) ==
  /\ node \in Node
  /\ Count(node) = Len(node.blocks)
  /\ \A k, l \in 1 .. Len(node.blocks) : node.blocks[k] = node.blocks[l] => k = l

Filled(es) ==
  /\ es \in Seq(Entry)
  /\ \A p \in 1 .. Len(es) : es[p].m_ino = 0 <=> es[p].m_name = ""
  /\ \A p, q \in 1 .. Len(es) : es[p].m_name = es[q].m_name /\ es[p].m_name # "" => p = q

(* The entries fit the blocks, and the size counts those of the last block. *)
Fits(node, es) ==
  /\ Len(es) = Len(node.blocks) * D
  /\ Len(node.blocks) > 0 =>
       (Len(node.blocks) - 1) * D + Cardinality(UsedLast(es, Len(node.blocks))) <= node.d_size

Whole(node, es) ==
  /\ Listed(node)
  /\ Filled(es)
  /\ node.type = "DIR" => Fits(node, es)

Sound == \A i \in Inodes : Whole(inode[i], entry[i])

(* The invariant: every inode is whole, those not in use have no entries,   *)
(* the root stays and is the only one without a link, blocks have one owner,*)
(* and entries name inodes in use.                                          *)
Basic ==
  /\ DOMAIN inode = Inodes /\ DOMAIN entry = Inodes
  /\ inode = [i \in Inodes |-> inode[i]] /\ entry = [i \in Inodes |-> entry[i]]
  /\ ialloc \subseteq Inodes /\ free \subseteq Blocks
  /\ pending \in Paths /\ leaked \subseteq Inodes /\ damaged \in BOOLEAN
  /\ 0 \in ialloc /\ inode[0].type = "DIR"

Unused == \A i \in Inodes \ ialloc : entry[i] = <<>>
Links  == \A i \in Inodes \ {0} : inode[i].d_nlink = 1

Owns(i) == Range(inode[i].blocks)
Owned ==
  /\ \A i, j \in ialloc : i # j => Owns(i) \cap Owns(j) = {}
  /\ \A i \in ialloc : Owns(i) \cap free = {}
  /\ (UNION {Owns(i) : i \in ialloc}) \cup free = Blocks

Ready == pending # <<>> => Exists(pending)

TreeInv == Basic /\ Sound /\ Unused /\ Links /\ Owned /\ DeletedWithLastLink /\ Ready
NameInv == damaged \in BOOLEAN /\ (~damaged => TreeInv)
-----------------------------------------------------------------------------
(* Division by the number of entries of a block.                            *)
LEMMA Division ==
  ASSUME NEW n \in Int
  PROVE  n \div D \in Int /\ (n \div D) * D <= n /\ n < (n \div D) * D + D
BY NamespaceAssumption DEF D

LEMMA Multiple ==
  ASSUME NEW a \in Int
  PROVE  /\ a * D \in Int /\ (a + 1) * D = a * D + D /\ (a - 1) * D = a * D - D
         /\ D \in Nat /\ D > 0 /\ 0 * D = 0
BY NamespaceAssumption DEF D

LEMMA Apart ==
  ASSUME NEW a \in Int, NEW b \in Int, a < b
  PROVE  a * D + D <= b * D
BY NamespaceAssumption DEF D

LEMMA DivisionUnique ==
  ASSUME NEW q \in Int, NEW n \in Int, q * D <= n, n < q * D + D
  PROVE  n \div D = q
<1>1. PICK r \in 0 .. D - 1 : n = q * D + r
  <2>1. q * D \in Int /\ D \in Int
    BY NamespaceAssumption DEF D
  <2> QED
    BY <2>1
<1> QED
  BY <1>1, NamespaceAssumption DEF D

LEMMA CeilIs ==
  ASSUME NEW n \in Int, NEW q \in Int, q * D - D < n, n <= q * D
  PROVE  Ceil(n) = q
<1>1. q * D \in Int /\ D \in Int
  BY NamespaceAssumption DEF D
<1>2. q * D <= n + D - 1 /\ n + D - 1 < q * D + D
  BY <1>1
<1> QED
  BY <1>1, <1>2, DivisionUnique DEF Ceil, D

LEMMA CeilHas ==
  ASSUME NEW n \in Int
  PROVE  Ceil(n) \in Int /\ Ceil(n) * D - D < n /\ n <= Ceil(n) * D
<1>1. D \in Int /\ n + D - 1 \in Int
  BY NamespaceAssumption DEF D
<1>2. PICK q \in Int : q = Ceil(n) /\ q * D <= n + D - 1 /\ n + D - 1 < q * D + D
  BY <1>1, Division DEF Ceil, D
<1>3. q * D \in Int
  BY <1>1, <1>2
<1> QED
  BY <1>1, <1>2, <1>3

LEMMA CeilNat ==
  ASSUME NEW n \in Nat
  PROVE  Ceil(n) \in Nat /\ (Ceil(n) = 0 <=> n = 0)
<1>1. PICK q \in Int : q = Ceil(n) /\ q * D - D < n /\ n <= q * D
  BY CeilHas
<1>2. D \in Int /\ D > 0 /\ 0 * D = 0 /\ q * D \in Int
  BY NamespaceAssumption DEF D
<1>3. ~(q < 0)
  BY <1>1, <1>2, Apart
<1>4. q > 0 => q * D >= D
  BY <1>1, <1>2, Apart
<1> QED
  BY <1>1, <1>2, <1>3, <1>4
-----------------------------------------------------------------------------
(* What the changes of an inode and its entries, taken alone, keep whole.   *)
LEMMA FreshWhole ==
  ASSUME NEW type \in {"DIR", "FILE"}
  PROVE  Whole(Fresh(type), <<>>)
<1>1. Ceil(0) = 0 /\ 0 * D = 0
  BY CeilNat, NamespaceAssumption DEF D
<1>2. <<>> \in Seq(Blocks) /\ <<>> \in Seq(Entry) /\ Len(<<>>) = 0
  BY EmptySeq
<1>3. Fresh(type) \in Node /\ Fresh(type).blocks = <<>> /\ Fresh(type).d_size = 0
  BY <1>2 DEF Fresh, Node
<1>4. Listed(Fresh(type))
  BY <1>1, <1>2, <1>3 DEF Listed, Count
<1>5. Filled(<<>>)
  BY <1>2 DEF Filled
<1>6. Fits(Fresh(type), <<>>)
  BY <1>1, <1>2, <1>3 DEF Fits
<1> QED
  BY <1>4, <1>5, <1>6 DEF Whole

LEMMA EmptyIsEntry == Empty \in Entry /\ Empty.m_ino = 0 /\ Empty.m_name = ""
<1>1. 0 \in Inodes
  BY NamespaceAssumption DEF Inodes
<1> QED
  BY <1>1 DEF Empty, Entry

LEMMA SeqReplaced ==
  ASSUME NEW S, NEW s \in Seq(S), NEW p \in 1 .. Len(s), NEW x \in S,
         NEW t, t = [s EXCEPT ![p] = x]
  PROVE  /\ t \in Seq(S) /\ Len(t) = Len(s) /\ Len(s) \in Nat
         /\ \A q \in 1 .. Len(s) : t[q] = IF q = p THEN x ELSE s[q]
<1>1. Len(s) \in Nat
  BY LenProperties
<1>2. t \in Seq(S) /\ Len(t) = Len(s)
  BY ExceptSeq
<1> QED
  BY <1>1, <1>2

(* The part of a set of numbers between two bounds that a test selects.     *)
LEMMA UsedFinite ==
  ASSUME NEW a \in Int, NEW b \in Int, NEW U, U \subseteq a .. b
  PROVE  IsFiniteSet(U) /\ Cardinality(U) \in Nat
<1>1. IsFiniteSet(a .. b)
  BY FS_Interval
<1>2. IsFiniteSet(U)
  BY <1>1, FS_Subset
<1> QED
  BY <1>2, FS_CardinalityType

LEMMA RemoveWhole ==
  ASSUME NEW node, NEW es, Whole(node, es), node.type = "DIR", NEW p \in 1 .. Len(es),
         NEW fs, fs = [es EXCEPT ![p] = Empty]
  PROVE  Whole(node, fs)
<1>1. es \in Seq(Entry) /\ Listed(node) /\ Filled(es) /\ Fits(node, es)
  BY DEF Whole, Filled
<1>2. Empty \in Entry /\ Empty.m_ino = 0 /\ Empty.m_name = ""
  BY EmptyIsEntry
<1>3. /\ fs \in Seq(Entry) /\ Len(fs) = Len(es)
      /\ \A q \in 1 .. Len(es) : fs[q] = IF q = p THEN Empty ELSE es[q]
  <2>0. es \in Seq(Entry) /\ Empty \in Entry
    BY <1>1, <1>2
  <2>1. fs \in Seq(Entry) /\ Len(fs) = Len(es)
    BY <2>0, SeqReplaced
  <2>2. \A q \in 1 .. Len(es) : fs[q] = IF q = p THEN Empty ELSE es[q]
    BY <2>0, SeqReplaced
  <2> QED
    BY <2>1, <2>2
<1>4. Filled(fs)
  <2>1. ASSUME NEW q \in 1 .. Len(es)
        PROVE  fs[q].m_ino = 0 <=> fs[q].m_name = ""
    <3>1. fs[q] = IF q = p THEN Empty ELSE es[q]
      BY <1>3
    <3>2. es[q].m_ino = 0 <=> es[q].m_name = ""
      BY <1>1 DEF Filled
    <3> QED
      BY <1>2, <3>1, <3>2
  <2>2. ASSUME NEW q \in 1 .. Len(es), NEW r \in 1 .. Len(es),
               fs[q].m_name = fs[r].m_name, fs[q].m_name # ""
        PROVE  q = r
    <3>1. q # p /\ r # p
      BY <1>2, <1>3, <2>2
    <3>2. fs[q] = es[q] /\ fs[r] = es[r]
      BY <1>3, <3>1
    <3> QED
      BY <1>1, <2>2, <3>2 DEF Filled
  <2> QED
    BY <1>3, <2>1, <2>2 DEF Filled
<1>5. PICK m \in Nat : m = Len(node.blocks)
  <2>1. node.blocks \in Seq(Blocks)
    BY <1>1 DEF Listed, Node
  <2> QED
    BY <2>1, LenProperties
<1>6. PICK last \in Int : last = (m - 1) * D /\ m * D = last + D /\ D \in Nat /\ D > 0
  <2>1. D \in Nat /\ D > 0
    BY NamespaceAssumption DEF D
  <2>2. m \in Int /\ m * D \in Int
    BY Multiple
  <2>3. (m - 1) * D = m * D - D
    BY <2>2, Multiple
  <2> QED
    BY <2>1, <2>2, <2>3
<1>7. node.d_size \in Nat /\ Len(es) = m * D
  <2>1. node.d_size \in Nat
    BY <1>1 DEF Listed, Node
  <2>2. Len(es) = m * D
    BY <1>1, <1>5 DEF Fits
  <2> QED
    BY <2>1, <2>2
<1>8. ASSUME m > 0
      PROVE  (m - 1) * D + Cardinality(UsedLast(fs, m)) <= node.d_size
  <2>1. last >= 0
    <3>1. m - 1 >= 0
      BY <1>8
    <3>2. m - 1 > 0 => 0 * D + D <= (m - 1) * D
      BY Apart
    <3> QED
      BY <1>6, <3>1, <3>2, Multiple
  <2>2. UsedLast(es, m) = {q \in last + 1 .. last + D : es[q].m_ino # 0}
    BY <1>6 DEF UsedLast, UsedIn
  <2>3. UsedLast(fs, m) \subseteq UsedLast(es, m)
    <3>1. SUFFICES ASSUME NEW q \in last + 1 .. last + D, fs[q].m_ino # 0
                   PROVE  es[q].m_ino # 0
      BY <1>6 DEF UsedLast, UsedIn
    <3>2. q \in 1 .. Len(es)
      BY <1>6, <1>7, <2>1
    <3> QED
      BY <1>2, <1>3, <3>1, <3>2
  <2>4. IsFiniteSet(UsedLast(es, m)) /\ Cardinality(UsedLast(es, m)) \in Nat
    <3>1. UsedLast(es, m) \subseteq last + 1 .. last + D /\ last + 1 \in Int /\ last + D \in Int
      BY <1>6, <2>2
    <3> QED
      BY <3>1, UsedFinite
  <2>5. /\ Cardinality(UsedLast(fs, m)) <= Cardinality(UsedLast(es, m))
        /\ Cardinality(UsedLast(fs, m)) \in Nat
    BY <2>3, <2>4, FS_Subset, FS_CardinalityType
  <2>6. last + Cardinality(UsedLast(es, m)) <= node.d_size
    BY <1>1, <1>5, <1>6, <1>8 DEF Fits
  <2> QED
    BY <1>6, <1>7, <2>4, <2>5, <2>6
<1>9. Fits(node, fs)
  BY <1>3, <1>5, <1>7, <1>8 DEF Fits
<1> QED
  BY <1>1, <1>4, <1>9 DEF Whole

(* An entry put into a place, its name being new.                           *)
EntryOf(i, name) == [m_ino |-> i, m_name |-> name]
Put(es, p, e)    == [es EXCEPT ![p] = e]

LEMMA PutFilled ==
  ASSUME NEW es, Filled(es), NEW p \in 1 .. Len(es),
         NEW name \in Names, NEW i \in Inodes \ {0},
         \A q \in 1 .. Len(es) : es[q].m_name # name,
         NEW e, e = EntryOf(i, name),
         NEW fs, fs = Put(es, p, e)
  PROVE  /\ Filled(fs) /\ Len(fs) = Len(es) /\ Len(es) \in Nat /\ e.m_ino # 0
         /\ \A q \in 1 .. Len(es) : fs[q] = IF q = p THEN e ELSE es[q]
<1>1. es \in Seq(Entry)
  BY DEF Filled
<1>2. e \in Entry /\ e.m_ino # 0 /\ e.m_name = name /\ name # ""
  BY NamesAssumption DEF Entry, EntryOf
<1>3. e \in Entry
  BY <1>2
<1>4. fs \in Seq(Entry) /\ Len(fs) = Len(es) /\ Len(es) \in Nat
  BY <1>1, <1>3, SeqReplaced DEF Put
<1>5. \A q \in 1 .. Len(es) : fs[q] = IF q = p THEN e ELSE es[q]
  BY <1>1, <1>3, SeqReplaced DEF Put
<1>6. ASSUME NEW q \in 1 .. Len(es)
      PROVE  fs[q].m_ino = 0 <=> fs[q].m_name = ""
  BY <1>2, <1>5 DEF Filled
<1>7. ASSUME NEW q \in 1 .. Len(es), NEW r \in 1 .. Len(es),
             fs[q].m_name = fs[r].m_name, fs[q].m_name # ""
      PROVE  q = r
  <2>1. CASE q = p
    BY <1>2, <1>5, <1>7, <2>1
  <2>2. CASE r = p
    BY <1>2, <1>5, <1>7, <2>2
  <2>3. CASE q # p /\ r # p
    <3>1. fs[q] = es[q] /\ fs[r] = es[r]
      BY <1>5, <2>3
    <3> QED
      BY <1>7, <3>1 DEF Filled
  <2> QED
    BY <2>1, <2>2, <2>3
<1>8. Filled(fs)
  BY <1>4, <1>6, <1>7 DEF Filled
<1> QED
  BY <1>2, <1>4, <1>5, <1>8

(* What a directory that fits says of its size and its places.              *)
LEMMA DirectorySize ==
  ASSUME NEW node, NEW es, Whole(node, es), node.type = "DIR"
  PROVE  /\ node \in Node /\ Filled(es) /\ es \in Seq(Entry)
         /\ Len(node.blocks) \in Nat /\ node.d_size \in Nat
         /\ Ceil(node.d_size) = Len(node.blocks)
         /\ Len(es) = Len(node.blocks) * D /\ Len(es) \in Nat
         /\ Len(es) - D < node.d_size /\ node.d_size <= Len(es)
<1>1. node \in Node /\ Filled(es) /\ es \in Seq(Entry)
  BY DEF Whole, Listed, Filled
<1>2. node.d_size \in Nat /\ node.blocks \in Seq(Blocks)
  BY <1>1 DEF Node
<1>3. Len(node.blocks) \in Nat /\ Len(es) \in Nat
  BY <1>1, <1>2, LenProperties
<1>4. Ceil(node.d_size) = Len(node.blocks)
  BY DEF Whole, Listed, Count
<1>5. Len(es) = Len(node.blocks) * D
  BY DEF Whole, Fits
<1>6. PICK n \in Int : n = node.d_size
  BY <1>2
<1>7. Ceil(n) * D - D < n /\ n <= Ceil(n) * D
  BY CeilHas
<1>8. Ceil(n) * D = Len(es)
  BY <1>4, <1>5, <1>6
<1>9. Len(es) - D < node.d_size /\ node.d_size <= Len(es)
  BY <1>6, <1>7, <1>8
<1> QED
  BY <1>1, <1>2, <1>3, <1>4, <1>5, <1>9

LEMMA LastPlaces ==
  ASSUME NEW m \in Nat, m > 0
  PROVE  \E last \in Nat :
           /\ last = (m - 1) * D /\ m * D = last + D
           /\ \A es : UsedLast(es, m) = UsedIn(es, last, last + D)
<1>1. m \in Int /\ m - 1 \in Int
  OBVIOUS
<1>2. /\ m * D \in Int /\ (m - 1) * D = m * D - D /\ (m - 1) * D \in Int
      /\ D \in Nat /\ D > 0 /\ 0 * D = 0
  BY <1>1, Multiple
<1>3. m - 1 > 0 => 0 * D + D <= (m - 1) * D
  BY <1>1, Apart
<1>4. m - 1 = 0 \/ m - 1 > 0
  OBVIOUS
<1>5. (m - 1) * D >= 0
  BY <1>2, <1>3, <1>4
<1>6. PICK last \in Nat : last = (m - 1) * D
  BY <1>2, <1>5
<1>7. m * D = last + D
  BY <1>2, <1>6
<1>8. ASSUME NEW es
      PROVE  UsedLast(es, m) = UsedIn(es, last, last + D)
  BY <1>6, <1>7 DEF UsedLast
<1> QED
  BY <1>6, <1>7, <1>8

(* The block that has a place.                                              *)
LEMMA BlockOf ==
  ASSUME NEW m \in Nat, NEW len, len = m * D, NEW p \in 1 .. len
  PROVE  \E low \in Nat, high \in Nat :
           /\ low = ((p - 1) \div D) * D /\ high = low + D
           /\ p \in low + 1 .. high
           /\ high = len \/ high <= len - D
<1>1. len \in Int /\ D \in Nat /\ D > 0 /\ 0 * D = 0
  <2>1. m \in Int
    OBVIOUS
  <2> QED
    BY <2>1, Multiple
<1>2. PICK k \in Int : k = (p - 1) \div D /\ k * D <= p - 1 /\ p - 1 < k * D + D
  <2>1. p - 1 \in Int
    BY <1>1
  <2> QED
    BY <2>1, Division
<1>3. PICK low \in Int : low = k * D
  BY <1>2, Multiple
<1>4. PICK high \in Int : high = low + D
  BY <1>1
<1>5. p \in Int /\ 1 <= p /\ p <= len
  BY <1>1
<1>6. k >= 0
  <2>1. SUFFICES ASSUME k < 0
                 PROVE  FALSE
    OBVIOUS
  <2>2. k * D + D <= 0 * D
    BY <2>1, Apart
  <2> QED
    BY <1>1, <1>2, <1>3, <1>5, <2>2
<1>7. low >= 0
  <2>1. CASE k = 0
    BY <1>1, <1>3, <2>1
  <2>2. CASE k > 0
    <3>1. 0 * D + D <= k * D
      BY <2>2, Apart
    <3> QED
      BY <1>1, <1>3, <3>1
  <2> QED
    BY <1>6, <2>1, <2>2
<1>8. k < m
  <2>1. k # m
    BY <1>1, <1>2, <1>3, <1>5
  <2>2. SUFFICES ASSUME m < k
                 PROVE  FALSE
    BY <2>1
  <2>3. m * D + D <= k * D
    BY <2>2, Apart
  <2> QED
    BY <1>1, <1>2, <1>3, <1>5, <2>3
<1>9. m - 1 \in Int /\ m \in Int /\ m * D = (m - 1) * D + D /\ (m - 1) * D \in Int
  <2>1. m - 1 \in Int /\ m \in Int
    OBVIOUS
  <2>2. (m - 1) * D = m * D - D /\ m * D \in Int /\ (m - 1) * D \in Int
    BY <2>1, Multiple
  <2> QED
    BY <1>1, <2>1, <2>2
<1>10. high = len \/ high <= len - D
  <2>1. CASE k = m - 1
    BY <1>3, <1>4, <1>9, <2>1
  <2>2. CASE k < m - 1
    <3>1. k * D + D <= (m - 1) * D
      BY <1>9, <2>2, Apart
    <3> QED
      BY <1>1, <1>3, <1>4, <1>9, <3>1
  <2> QED
    BY <1>8, <2>1, <2>2
<1>11. p \in low + 1 .. high
  BY <1>2, <1>3, <1>4, <1>5
<1> QED
  BY <1>1, <1>2, <1>3, <1>4, <1>7, <1>10, <1>11

(* Without a hole the size is that of whole blocks.                         *)
LEMMA FullSize ==
  ASSUME NEW node, NEW es, Whole(node, es), node.type = "DIR",
         \A p \in 1 .. Len(es) : es[p].m_ino # 0
  PROVE  node.d_size = Len(es)
<1>1. PICK m \in Nat, len \in Nat, old \in Nat :
        /\ m = Len(node.blocks) /\ len = Len(es) /\ old = node.d_size /\ len = m * D
        /\ len - D < old /\ old <= len
  BY DirectorySize
<1>2. CASE m = 0
  <2>1. 0 * D = 0
    BY Multiple
  <2> QED
    BY <1>1, <1>2, <2>1
<1>3. CASE m > 0
  <2>1. PICK last \in Nat :
          /\ last = (m - 1) * D /\ m * D = last + D
          /\ UsedLast(es, m) = UsedIn(es, last, last + D)
    BY <1>3, LastPlaces
  <2>2. D \in Nat /\ D > 0 /\ len = last + D
    <3>1. D \in Nat /\ D > 0
      BY NamespaceAssumption DEF D
    <3> QED
      BY <1>1, <2>1, <3>1
  <2>3. UsedLast(es, m) = last + 1 .. len
    <3>1. last + 1 .. len \subseteq 1 .. Len(es)
      BY <1>1, <2>2
    <3> QED
      BY <2>1, <2>2, <3>1 DEF UsedIn
  <2>4. Cardinality(UsedLast(es, m)) = D
    <3>1. /\ last + 1 \in Int /\ len \in Int
          /\ ~(last + 1 > len) /\ len - (last + 1) + 1 = D
      BY <1>1, <2>1, <2>2
    <3> QED
      BY <2>3, <3>1, FS_Interval
  <2>5. last + Cardinality(UsedLast(es, m)) <= old
    <3>1. Fits(node, es)
      BY DEF Whole
    <3> QED
      BY <1>1, <1>3, <2>1, <2>2, <3>1 DEF Fits
  <2> QED
    BY <1>1, <2>1, <2>2, <2>4, <2>5
<1> QED
  BY <1>2, <1>3

(* A hole takes an entry, and the size follows as _add_to_dir sets it from  *)
(* the number of entries in the block of the hole.                          *)
Sized(node, n)   == [node EXCEPT !.d_size = n]
FillSize(old, es, p) ==
  LET before == ((p - 1) \div D) * D
  IN  SizeAfterFill(old, before + (1 + Cardinality(UsedIn(es, before, before + D))))

LEMMA FillNumbers ==
  ASSUME NEW m \in Nat, NEW len \in Nat, len = m * D, NEW old \in Nat,
         len - D < old, old <= len,
         NEW es, NEW p \in 1 .. len, es[p].m_ino = 0
  PROVE  \E low \in Nat, high \in Nat, size \in Nat, count \in Nat :
           /\ high = low + D /\ p \in low + 1 .. high
           /\ high = len \/ high <= len - D
           /\ IsFiniteSet(UsedIn(es, low, high))
           /\ count = Cardinality(UsedIn(es, low, high))
           /\ size = FillSize(old, es, p)
           /\ size >= old /\ size >= low + (1 + count) /\ size <= len
<1>1. PICK low \in Nat, high \in Nat :
        /\ low = ((p - 1) \div D) * D /\ high = low + D
        /\ p \in low + 1 .. high
        /\ high = len \/ high <= len - D
  BY BlockOf
<1>2. D \in Nat /\ D > 0
  BY NamespaceAssumption DEF D
<1>3. PICK used : used = UsedIn(es, low, high)
  OBVIOUS
<1>4. PICK count \in Nat : count = Cardinality(used) /\ count + 1 <= D /\ IsFiniteSet(used)
  <2>1. PICK block : block = low + 1 .. high
    OBVIOUS
  <2>2. IsFiniteSet(block) /\ Cardinality(block) = D
    <3>1. ~(low + 1 > high) /\ high - (low + 1) + 1 = D /\ low + 1 \in Int
      BY <1>1, <1>2
    <3> QED
      BY <2>1, <3>1, FS_Interval
  <2>3. p \in block /\ used \subseteq block \ {p}
    BY <1>1, <1>3, <2>1 DEF UsedIn
  <2>4. PICK rest : rest = block \ {p}
    OBVIOUS
  <2>5. IsFiniteSet(used) /\ Cardinality(used) <= D - 1
    <3>1. IsFiniteSet(rest) /\ Cardinality(rest) = D - 1
      BY <2>2, <2>3, <2>4, FS_RemoveElement
    <3>2. used \subseteq rest
      BY <2>3, <2>4
    <3>3. IsFiniteSet(used) /\ Cardinality(used) <= Cardinality(rest)
      BY <3>1, <3>2, FS_Subset
    <3> QED
      BY <3>1, <3>3
  <2>6. Cardinality(used) \in Nat
    BY <2>5, FS_CardinalityType
  <2> QED
    BY <1>2, <2>5, <2>6
<1>5. PICK supposed \in Nat : supposed = low + (1 + count)
  OBVIOUS
<1>6. supposed <= len
  BY <1>1, <1>2, <1>4, <1>5
<1>7. FillSize(old, es, p) = SizeAfterFill(old, supposed)
  BY <1>1, <1>3, <1>4, <1>5 DEF FillSize
<1>8. PICK size \in Nat : size = SizeAfterFill(old, supposed)
  BY DEF SizeAfterFill
<1>9. size >= old /\ size >= supposed /\ size <= len
  BY <1>6, <1>8 DEF SizeAfterFill
<1>10. size = FillSize(old, es, p) /\ size >= low + (1 + count)
  BY <1>5, <1>7, <1>8, <1>9
<1> QED
  BY <1>1, <1>3, <1>4, <1>9, <1>10

LEMMA FillWhole ==
  ASSUME NEW node, NEW es, Whole(node, es), node.type = "DIR",
         NEW name \in Names, NEW i \in Inodes \ {0},
         \A q \in 1 .. Len(es) : es[q].m_name # name,
         NEW p \in 1 .. Len(es), es[p].m_ino = 0
  PROVE  Whole(Sized(node, FillSize(node.d_size, es, p)), Put(es, p, EntryOf(i, name)))
<1>1. PICK e, fs : e = EntryOf(i, name) /\ fs = Put(es, p, e)
  OBVIOUS
<1>2. /\ Filled(fs) /\ Len(fs) = Len(es) /\ Len(es) \in Nat /\ e.m_ino # 0
      /\ \A q \in 1 .. Len(es) : fs[q] = IF q = p THEN e ELSE es[q]
  <2>1. Filled(es)
    BY DEF Whole
  <2> QED
    BY <1>1, <2>1, PutFilled
<1>3. PICK m \in Nat, len \in Nat, old \in Nat :
        /\ m = Len(node.blocks) /\ len = Len(es) /\ old = node.d_size /\ len = m * D
        /\ len - D < old /\ old <= len
  BY DirectorySize
<1>4. PICK low \in Nat, high \in Nat, size \in Nat, count \in Nat :
        /\ high = low + D /\ p \in low + 1 .. high
        /\ high = len \/ high <= len - D
        /\ IsFiniteSet(UsedIn(es, low, high))
        /\ count = Cardinality(UsedIn(es, low, high))
        /\ size = FillSize(old, es, p)
        /\ size >= old /\ size >= low + (1 + count) /\ size <= len
  <2>1. len = m * D /\ len - D < old /\ old <= len /\ p \in 1 .. len
    BY <1>3
  <2> QED
    BY <2>1, FillNumbers
<1>5. D \in Nat /\ D > 0
  BY NamespaceAssumption DEF D
<1>6. PICK new : new = Sized(node, size) /\ new = Sized(node, FillSize(node.d_size, es, p))
  BY <1>3, <1>4
<1>7. Ceil(size) = m
  <2>1. len - D < size /\ size <= len
    <3>1. len - D < old
      BY <1>3
    <3>2. size >= old /\ size <= len
      BY <1>4
    <3> QED
      BY <1>5, <3>1, <3>2
  <2>2. m * D - D < size /\ size <= m * D
    BY <1>3, <2>1
  <2>3. size \in Int /\ m \in Int
    OBVIOUS
  <2> QED
    BY <2>2, <2>3, CeilIs
<1>8. /\ new \in Node /\ new.type = "DIR" /\ new.d_size = size
      /\ new.blocks = node.blocks
  <2>1. node \in Node
    BY DirectorySize
  <2> QED
    BY <1>6, <2>1 DEF Node, Sized
<1>9. Listed(new)
  <2>1. Count(new) = Len(new.blocks)
    BY <1>3, <1>7, <1>8 DEF Count
  <2>2. \A j, l \in 1 .. Len(node.blocks) : node.blocks[j] = node.blocks[l] => j = l
    BY DEF Whole, Listed
  <2> QED
    BY <1>8, <2>1, <2>2 DEF Listed
<1>10. ASSUME m > 0
       PROVE  (m - 1) * D + Cardinality(UsedLast(fs, m)) <= size
  <2>1. PICK last \in Nat :
          /\ last = (m - 1) * D /\ m * D = last + D
          /\ \A gs : UsedLast(gs, m) = UsedIn(gs, last, last + D)
    BY <1>10, LastPlaces
  <2>2. len = last + D
    BY <1>3, <2>1
  <2>3. last + 1 .. len \subseteq 1 .. Len(es)
    BY <1>3, <2>2
  <2>4. CASE high = len
    <3>1. low = last
      BY <1>4, <1>5, <2>2, <2>4
    <3>2. UsedIn(fs, low, high) = UsedIn(es, low, high) \cup {p}
      <4>1. \A q \in low + 1 .. high : fs[q].m_ino # 0 <=> es[q].m_ino # 0 \/ q = p
        BY <1>2, <2>3, <2>4, <3>1
      <4> QED
        BY <1>4, <4>1 DEF UsedIn
    <3>3. p \notin UsedIn(es, low, high)
      BY DEF UsedIn
    <3>4. Cardinality(UsedIn(es, low, high) \cup {p}) = count + 1
      BY <1>4, <3>3, FS_AddElement
    <3>5. UsedLast(fs, m) = UsedIn(fs, low, high)
      BY <2>1, <2>2, <2>4, <3>1
    <3>6. Cardinality(UsedLast(fs, m)) = count + 1
      BY <3>2, <3>4, <3>5
    <3>7. last + (count + 1) <= size
      BY <1>4, <3>1
    <3> QED
      BY <2>1, <3>6, <3>7
  <2>5. CASE high <= len - D
    <3>1. high <= last
      BY <1>4, <1>5, <2>2, <2>5
    <3>2. \A q \in last + 1 .. len : fs[q] = es[q]
      <4>1. SUFFICES ASSUME NEW q \in last + 1 .. len
                     PROVE  q \in 1 .. Len(es) /\ q # p
        BY <1>2
      <4>2. p <= high /\ last >= 0 /\ last \in Int
        BY <1>4, <2>3
      <4> QED
        BY <1>3, <3>1, <4>2
    <3>3. UsedIn(fs, last, len) = UsedIn(es, last, len)
      BY <3>2 DEF UsedIn
    <3>4. UsedLast(fs, m) = UsedLast(es, m)
      BY <2>1, <2>2, <3>3
    <3>5. PICK c \in Nat : c = Cardinality(UsedLast(es, m))
      <4>1. UsedIn(es, last, len) \subseteq last + 1 .. len
        BY DEF UsedIn
      <4>2. last + 1 \in Int /\ len \in Int
        OBVIOUS
      <4>3. Cardinality(UsedIn(es, last, len)) \in Nat
        BY <4>1, <4>2, UsedFinite
      <4> QED
        BY <2>1, <2>2, <4>3
    <3>6. last + c <= old
      <4>1. Fits(node, es)
        BY DEF Whole
      <4> QED
        BY <1>3, <1>10, <2>1, <3>5, <4>1 DEF Fits
    <3>7. last + c <= size
      BY <1>4, <3>6
    <3> QED
      BY <2>1, <3>4, <3>5, <3>7
  <2> QED
    BY <1>4, <2>4, <2>5
<1>11. Fits(new, fs)
  BY <1>2, <1>3, <1>8, <1>10 DEF Fits
<1>12. Whole(new, fs)
  BY <1>2, <1>9, <1>11 DEF Whole
<1> QED
  BY <1>1, <1>6, <1>12

(* A block more, at the end of an inode's list.                             *)
Grown(node, b) == [node EXCEPT !.blocks = Append(@, b), !.d_size = @ + 1]

LEMMA GrownListed ==
  ASSUME NEW node, Listed(node), NEW b \in Blocks, b \notin Range(node.blocks),
         Count(Grown(node, b)) = Len(node.blocks) + 1
  PROVE  /\ Listed(Grown(node, b)) /\ Len(Grown(node, b).blocks) = Len(node.blocks) + 1
         /\ Range(Grown(node, b).blocks) = Range(node.blocks) \cup {b}
<1>1. PICK s : s = node.blocks
  OBVIOUS
<1>2. node \in Node /\ s \in Seq(Blocks) /\ node.d_size \in Nat
  BY <1>1 DEF Listed, Node
<1>3. PICK m \in Nat : m = Len(s)
  BY <1>2, LenProperties
<1>4. PICK t : t = Append(s, b)
  OBVIOUS
<1>5. /\ t \in Seq(Blocks) /\ Len(t) = m + 1
      /\ \A k \in 1 .. m : t[k] = s[k]
      /\ t[m + 1] = b
  BY <1>2, <1>3, <1>4, AppendProperties
<1>6. Grown(node, b) \in Node /\ Grown(node, b).blocks = t
  <2>1. PICK n \in Nat : n = node.d_size + 1
    BY <1>2
  <2>2. Grown(node, b) = [node EXCEPT !.blocks = t, !.d_size = n]
    BY <1>1, <1>4, <2>1 DEF Grown
  <2> QED
    BY <1>2, <1>5, <2>2 DEF Node
<1>7. DOMAIN s = 1 .. m /\ DOMAIN t = 1 .. m + 1
  BY <1>2, <1>3, <1>5, LenProperties
<1>8. \A k \in 1 .. m : s[k] # b
  BY <1>1, <1>7 DEF Range
<1>9. ASSUME NEW k \in 1 .. m + 1, NEW l \in 1 .. m + 1, t[k] = t[l]
      PROVE  k = l
  <2>1. \A j, h \in 1 .. m : s[j] = s[h] => j = h
    BY <1>1, <1>3 DEF Listed
  <2> QED
    BY <1>5, <1>8, <1>9, <2>1
<1>10. Range(t) = Range(s) \cup {b}
  <2>1. 1 .. m + 1 = (1 .. m) \cup {m + 1}
    OBVIOUS
  <2> QED
    BY <1>5, <1>7, <2>1 DEF Range
<1>11. Listed(Grown(node, b))
  BY <1>1, <1>3, <1>5, <1>6, <1>9 DEF Listed
<1> QED
  BY <1>1, <1>3, <1>5, <1>6, <1>10, <1>11

LEMMA AppendRange ==
  ASSUME NEW s \in Seq(Blocks), NEW b \in Blocks
  PROVE  Range(Append(s, b)) = Range(s) \cup {b}
<1>1. PICK m \in Nat : m = Len(s)
  BY LenProperties
<1>2. PICK t : t = Append(s, b)
  OBVIOUS
<1>3. /\ t \in Seq(Blocks) /\ Len(t) = m + 1
      /\ \A k \in 1 .. m : t[k] = s[k]
      /\ t[m + 1] = b
  BY <1>1, <1>2, AppendProperties
<1>4. DOMAIN s = 1 .. m /\ DOMAIN t = 1 .. m + 1
  BY <1>1, <1>3, LenProperties
<1>5. 1 .. m + 1 = (1 .. m) \cup {m + 1}
  OBVIOUS
<1> QED
  BY <1>2, <1>3, <1>4, <1>5 DEF Range

(* A block whose first entry is the new one, after blocks without a hole.   *)
NewBlock(e) == [p \in 1 .. D |-> IF p = 1 THEN e ELSE Empty]
Started(es, e) == es \o NewBlock(e)

LEMMA StartFilled ==
  ASSUME NEW es, Filled(es), NEW name \in Names, NEW i \in Inodes \ {0},
         \A q \in 1 .. Len(es) : es[q].m_name # name,
         NEW e, e = EntryOf(i, name),
         NEW fs, fs = Started(es, e)
  PROVE  /\ Filled(fs) /\ Len(fs) = Len(es) + D /\ Len(es) \in Nat /\ e.m_ino # 0
         /\ \A q \in 1 .. Len(es) : fs[q] = es[q]
         /\ fs[Len(es) + 1] = e
         /\ \A q \in Len(es) + 2 .. Len(es) + D : fs[q] = Empty
<1>1. es \in Seq(Entry)
  BY DEF Filled
<1>2. e \in Entry /\ e.m_ino # 0 /\ e.m_name = name /\ name # ""
  BY NamesAssumption DEF Entry, EntryOf
<1>3. Empty \in Entry /\ Empty.m_ino = 0 /\ Empty.m_name = ""
  BY EmptyIsEntry
<1>4. D \in Nat /\ D > 0
  BY NamespaceAssumption DEF D
<1>5. PICK new : new = NewBlock(e)
  OBVIOUS
<1>6. new \in Seq(Entry) /\ Len(new) = D /\ new[1] = e /\ \A q \in 2 .. D : new[q] = Empty
  <2>1. new = [p \in 1 .. D |-> IF p = 1 THEN e ELSE Empty]
    BY <1>5 DEF NewBlock
  <2>2. e \in Entry /\ Empty \in Entry
    BY <1>2, <1>3
  <2>3. new \in [1 .. D -> Entry]
    BY <2>1, <2>2
  <2>4. new \in Seq(Entry) /\ Len(new) = D
    BY <1>4, <2>3
  <2>5. new[1] = e
    BY <1>4, <2>1
  <2>6. \A q \in 2 .. D : new[q] = Empty
    BY <1>4, <2>1
  <2> QED
    BY <2>4, <2>5, <2>6
<1>7. PICK len \in Nat : len = Len(es)
  BY <1>1, LenProperties
<1>8. /\ fs \in Seq(Entry) /\ Len(fs) = len + D
      /\ \A q \in 1 .. len + D : fs[q] = IF q <= len THEN es[q] ELSE new[q - len]
  <2>1. fs = es \o new
    BY <1>5 DEF Started
  <2>2. fs \in Seq(Entry) /\ Len(fs) = len + D
    BY <1>1, <1>6, <1>7, <2>1, ConcatProperties
  <2>3. \A q \in 1 .. len + D : fs[q] = IF q <= len THEN es[q] ELSE new[q - len]
    BY <1>1, <1>6, <1>7, <2>1, ConcatProperties
  <2> QED
    BY <2>2, <2>3
<1>9. \A q \in 1 .. len : fs[q] = es[q]
  BY <1>4, <1>8
<1>10. fs[len + 1] = e
  <2>1. len + 1 \in 1 .. len + D /\ ~(len + 1 <= len) /\ (len + 1) - len = 1
    BY <1>4
  <2> QED
    BY <1>6, <1>8, <2>1
<1>11. ASSUME NEW q \in len + 2 .. len + D
       PROVE  fs[q] = Empty
  <2>1. q \in 1 .. len + D /\ ~(q <= len) /\ q - len \in 2 .. D
    BY <1>4
  <2> QED
    BY <1>6, <1>8, <2>1
<1>12. \A q \in 1 .. len + D : q \in 1 .. len \/ q = len + 1 \/ q \in len + 2 .. len + D
  BY <1>4
<1>13. ASSUME NEW q \in 1 .. len + D
       PROVE  fs[q].m_ino = 0 <=> fs[q].m_name = ""
  <2>1. CASE q \in 1 .. len
    BY <1>7, <1>9, <2>1 DEF Filled
  <2>2. CASE q = len + 1
    BY <1>2, <1>10, <2>2
  <2>3. CASE q \in len + 2 .. len + D
    BY <1>3, <1>11, <2>3
  <2> QED
    BY <1>12, <2>1, <2>2, <2>3
<1>14. ASSUME NEW q \in 1 .. len + D, NEW r \in 1 .. len + D,
              fs[q].m_name = fs[r].m_name, fs[q].m_name # ""
       PROVE  q = r
  <2>1. q \notin len + 2 .. len + D /\ r \notin len + 2 .. len + D
    BY <1>3, <1>11, <1>14
  <2>2. CASE q = len + 1 /\ r # len + 1
    <3>1. r \in 1 .. len
      BY <1>12, <2>1, <2>2
    <3>2. fs[r] = es[r] /\ es[r].m_name # name
      BY <1>7, <1>9, <3>1
    <3>3. fs[q].m_name = name
      BY <1>2, <1>10, <2>2
    <3> QED
      BY <1>14, <3>2, <3>3
  <2>3. CASE r = len + 1 /\ q # len + 1
    <3>1. q \in 1 .. len
      BY <1>12, <2>1, <2>3
    <3>2. fs[q] = es[q] /\ es[q].m_name # name
      BY <1>7, <1>9, <3>1
    <3>3. fs[r].m_name = name
      BY <1>2, <1>10, <2>3
    <3> QED
      BY <1>14, <3>2, <3>3
  <2>4. CASE q # len + 1 /\ r # len + 1
    <3>1. q \in 1 .. len /\ r \in 1 .. len
      BY <1>12, <2>1, <2>4
    <3>2. fs[q] = es[q] /\ fs[r] = es[r]
      BY <1>9, <3>1
    <3> QED
      BY <1>7, <1>14, <3>1, <3>2 DEF Filled
  <2> QED
    BY <2>2, <2>3, <2>4
<1>15. Filled(fs)
  BY <1>8, <1>13, <1>14 DEF Filled
<1> QED
  BY <1>2, <1>7, <1>8, <1>9, <1>10, <1>11, <1>15

LEMMA StartWhole ==
  ASSUME NEW node, NEW es, Whole(node, es), node.type = "DIR",
         NEW name \in Names, NEW i \in Inodes \ {0},
         \A q \in 1 .. Len(es) : es[q].m_name # name,
         \A q \in 1 .. Len(es) : es[q].m_ino # 0,
         NEW b \in Blocks, b \notin Range(node.blocks)
  PROVE  Whole(Grown(node, b), Started(es, EntryOf(i, name)))
<1>1. PICK e, fs : e = EntryOf(i, name) /\ fs = Started(es, e)
  OBVIOUS
<1>2. /\ Filled(fs) /\ Len(fs) = Len(es) + D /\ e.m_ino # 0
      /\ fs[Len(es) + 1] = e
      /\ \A q \in Len(es) + 2 .. Len(es) + D : fs[q] = Empty
  <2>1. Filled(es)
    BY DEF Whole
  <2> QED
    BY <1>1, <2>1, StartFilled
<1>3. PICK m \in Nat, len \in Nat : m = Len(node.blocks) /\ len = Len(es) /\ len = m * D
  BY DirectorySize
<1>4. node.d_size = len
  BY <1>3, FullSize
<1>5. D \in Nat /\ D > 0
  BY NamespaceAssumption DEF D
<1>6. PICK new : new = Grown(node, b)
  OBVIOUS
<1>7. new.type = "DIR" /\ new.d_size = len + 1
  <2>1. node \in Node
    BY DirectorySize
  <2> QED
    BY <1>4, <1>6, <2>1 DEF Node, Grown
<1>8. m \in Int /\ m + 1 \in Int /\ (m + 1) * D = len + D
  <2>1. m \in Int /\ m + 1 \in Int
    OBVIOUS
  <2>2. (m + 1) * D = m * D + D
    BY <2>1, Multiple
  <2> QED
    BY <1>3, <2>1, <2>2
<1>9. Ceil(len + 1) = m + 1
  <2>1. (m + 1) * D - D < len + 1 /\ len + 1 <= (m + 1) * D
    BY <1>5, <1>8
  <2>2. len + 1 \in Int
    OBVIOUS
  <2> QED
    BY <1>8, <2>1, <2>2, CeilIs
<1>10. Listed(new) /\ Len(new.blocks) = m + 1
  <2>1. Listed(node)
    BY DEF Whole
  <2>2. Count(Grown(node, b)) = Len(node.blocks) + 1
    BY <1>3, <1>6, <1>7, <1>9 DEF Count
  <2> QED
    BY <1>3, <1>6, <2>1, <2>2, GrownListed
<1>11. ((m + 1) - 1) * D + Cardinality(UsedLast(fs, m + 1)) <= len + 1
  <2>1. UsedLast(fs, m + 1) = UsedIn(fs, len, len + D)
    <3>1. (m + 1) - 1 = m
      OBVIOUS
    <3> QED
      BY <1>3, <1>8, <3>1 DEF UsedLast
  <2>2. UsedIn(fs, len, len + D) = {len + 1}
    <3>1. Empty.m_ino = 0
      BY EmptyIsEntry
    <3>2. \A q \in len + 1 .. len + D : q = len + 1 \/ q \in len + 2 .. len + D
      OBVIOUS
    <3>3. len + 1 \in len + 1 .. len + D
      BY <1>5
    <3> QED
      BY <1>2, <1>3, <3>1, <3>2, <3>3 DEF UsedIn
  <2>3. Cardinality(UsedLast(fs, m + 1)) = 1
    BY <2>1, <2>2, FS_Singleton
  <2>4. ((m + 1) - 1) * D = len
    BY <1>3
  <2> QED
    BY <2>3, <2>4
<1>12. Fits(new, fs)
  <2>1. Len(fs) = (m + 1) * D
    BY <1>2, <1>3, <1>8
  <2> QED
    BY <1>7, <1>10, <1>11, <2>1 DEF Fits
<1>13. Whole(new, fs)
  BY <1>2, <1>10, <1>12 DEF Whole
<1> QED
  BY <1>1, <1>6, <1>13

LEMMA AppendWhole ==
  ASSUME NEW node, NEW es, Whole(node, es), node.type = "FILE",
         NEW b \in Blocks, b \notin Range(node.blocks)
  PROVE  Whole(Grown(node, b), es)
<1>1. Listed(node) /\ Filled(es) /\ node \in Node
  BY DEF Whole, Listed
<1>2. Grown(node, b).type = "FILE" /\ Grown(node, b).d_size = node.d_size + 1
  BY <1>1 DEF Grown, Node
<1>3. Count(Grown(node, b)) = Len(node.blocks) + 1
  BY <1>1, <1>2 DEF Count, Listed
<1>4. Listed(Grown(node, b))
  BY <1>1, <1>3, GrownListed
<1> QED
  BY <1>1, <1>2, <1>4 DEF Whole
-----------------------------------------------------------------------------
(* Paths: what is found at a path is looked up in what is found at its      *)
(* parent.  Found is written as a function of the number of names.          *)
After(S, name) == UNION {Lookup(d, name) : d \in S}
Reaches(g, path, m) ==
  g = [n \in 0 .. m |-> IF n = 0 THEN {0} ELSE UNION {Lookup(d, path[n]) : d \in g[n - 1]}]
Reached(path) ==
  CHOOSE g : g = [n \in 0 .. Len(path) |->
                    IF n = 0 THEN {0} ELSE UNION {Lookup(d, path[n]) : d \in g[n - 1]}]

LEMMA FoundIsReached == \A path : Found(path) = Reached(path)[Len(path)]
BY DEF Found, Reached

LEMMA ReachesValues ==
  ASSUME NEW path, NEW m \in Nat, NEW g, Reaches(g, path, m)
  PROVE  /\ DOMAIN g = 0 .. m /\ g[0] = {0}
         /\ \A n \in 1 .. m : g[n] = After(g[n - 1], path[n])
<1>1. DOMAIN g = 0 .. m
  BY DEF Reaches
<1>2. \A n \in 0 .. m :
        g[n] = IF n = 0 THEN {0} ELSE UNION {Lookup(d, path[n]) : d \in g[n - 1]}
  BY DEF Reaches
<1>3. g[0] = {0}
  <2>1. 0 \in 0 .. m
    OBVIOUS
  <2> QED
    BY <1>2, <2>1
<1>4. ASSUME NEW n \in 1 .. m
      PROVE  g[n] = After(g[n - 1], path[n])
  <2>1. n \in 0 .. m /\ n # 0
    OBVIOUS
  <2> QED
    BY <1>2, <2>1 DEF After
<1> QED
  BY <1>1, <1>3, <1>4

LEMMA ReachesExtends ==
  ASSUME NEW path, NEW m \in Nat \ {0}, NEW g, Reaches(g, path, m - 1)
  PROVE  \E h : Reaches(h, path, m)
<1>1. g[0] = {0} /\ \A n \in 1 .. m - 1 : g[n] = After(g[n - 1], path[n])
  <2>1. PICK k \in Nat : k = m - 1
    OBVIOUS
  <2>2. Reaches(g, path, k)
    BY <2>1
  <2>3. g[0] = {0}
    BY <2>2, ReachesValues
  <2>4. \A n \in 1 .. k : g[n] = After(g[n - 1], path[n])
    BY <2>2, ReachesValues
  <2> QED
    BY <2>1, <2>3, <2>4
<1> DEFINE h == [n \in 0 .. m |-> IF n = m THEN After(g[m - 1], path[m]) ELSE g[n]]
<1>2. \A n \in 0 .. m - 1 : h[n] = g[n]
  OBVIOUS
<1>3. h[m] = After(g[m - 1], path[m])
  OBVIOUS
<1>4. h = [n \in 0 .. m |-> h[n]]
  OBVIOUS
<1> HIDE DEF h
<1>5. ASSUME NEW n \in 0 .. m
      PROVE  h[n] = IF n = 0 THEN {0} ELSE After(h[n - 1], path[n])
  <2>1. CASE n = 0
    <3>1. 0 \in 0 .. m - 1
      OBVIOUS
    <3> QED
      BY <1>1, <1>2, <2>1, <3>1
  <2>2. CASE n = m /\ n # 0
    <3>1. m - 1 \in 0 .. m - 1
      OBVIOUS
    <3>2. h[m - 1] = g[m - 1]
      BY <1>2, <3>1
    <3> QED
      BY <1>3, <2>2, <3>2
  <2>3. CASE n # 0 /\ n # m
    <3>1. n \in 1 .. m - 1 /\ n \in 0 .. m - 1 /\ n - 1 \in 0 .. m - 1
      BY <2>3
    <3>2. h[n] = g[n] /\ h[n - 1] = g[n - 1]
      BY <1>2, <3>1
    <3> QED
      BY <1>1, <2>3, <3>1, <3>2
  <2> QED
    BY <2>1, <2>2, <2>3
<1>6. h = [n \in 0 .. m |-> IF n = 0 THEN {0} ELSE After(h[n - 1], path[n])]
  BY <1>4, <1>5
<1>7. Reaches(h, path, m)
  BY <1>6 DEF Reaches, After
<1> QED
  BY <1>7

LEMMA ReachedValues ==
  ASSUME NEW path, Len(path) \in Nat
  PROVE  Reaches(Reached(path), path, Len(path))
<1> DEFINE Missing == {m \in Nat : ~ \E g : Reaches(g, path, m)}
<1>1. Missing = {}
  <2>1. SUFFICES ASSUME Missing # {}
                 PROVE  FALSE
    OBVIOUS
  <2>2. PICK m \in Missing : \A n \in Missing : m <= n
    <3>1. Missing \subseteq Nat
      OBVIOUS
    <3> HIDE DEF Missing
    <3> QED
      BY <2>1, <3>1, LeastNumber
  <2>3. m \in Nat /\ ~ \E g : Reaches(g, path, m)
    OBVIOUS
  <2>4. m # 0
    <3>1. PICK g : g = [n \in 0 .. 0 |-> {0}]
      OBVIOUS
    <3>2. g = [n \in 0 .. 0 |->
                 IF n = 0 THEN {0} ELSE UNION {Lookup(d, path[n]) : d \in g[n - 1]}]
      BY <3>1
    <3>3. Reaches(g, path, 0)
      BY <3>2 DEF Reaches
    <3> QED
      BY <2>3, <3>3
  <2>5. m - 1 \in Nat /\ m - 1 \notin Missing
    <3>1. m - 1 \in Nat /\ ~(m <= m - 1)
      BY <2>3, <2>4
    <3> HIDE DEF Missing
    <3> QED
      BY <2>2, <3>1
  <2>6. PICK g : Reaches(g, path, m - 1)
    BY <2>5
  <2> QED
    BY <2>3, <2>4, <2>6, ReachesExtends
<1>2. \E g : Reaches(g, path, Len(path))
  BY <1>1
<1>3. \E g : g = [n \in 0 .. Len(path) |->
                    IF n = 0 THEN {0} ELSE UNION {Lookup(d, path[n]) : d \in g[n - 1]}]
  BY <1>2 DEF Reaches
<1> QED
  BY <1>3 DEF Reached, Reaches

PathsFound ==
  /\ Found(<<>>) = {0}
  /\ \A path \in Paths \ {<<>>} :
       Front(path) \in Paths /\ Found(path) = After(Found(Front(path)), Last(path))

LEMMA PathParts ==
  ASSUME NEW path \in Paths
  PROVE  /\ path \in Seq(Names) /\ Len(path) \in 0 .. MAX_DEPTH
         /\ path # <<>> => /\ Len(path) > 0 /\ Last(path) \in Names
                           /\ Front(path) \in Paths
                           /\ Front(path) \in Seq(Names) /\ Len(Front(path)) = Len(path) - 1
                           /\ \A k \in 1 .. Len(path) - 1 : Front(path)[k] = path[k]
<1>1. PICK m \in 0 .. MAX_DEPTH : path \in [1 .. m -> Names]
  BY DEF Paths
<1>2. m \in Nat /\ m <= MAX_DEPTH
  BY NamespaceAssumption
<1>3. path \in Seq(Names) /\ Len(path) = m
  BY <1>1, <1>2
<1>4. ASSUME path # <<>>
      PROVE  m > 0
  BY <1>2, <1>3, <1>4, EmptySeq
<1>5. ASSUME m > 0
      PROVE  /\ Last(path) \in Names
             /\ Front(path) \in Seq(Names) /\ Len(Front(path)) = m - 1
             /\ \A k \in 1 .. m - 1 : Front(path)[k] = path[k]
  <2>1. Last(path) \in Names
    BY <1>1, <1>2, <1>3, <1>5 DEF Last
  <2>2. \A k \in 1 .. m - 1 : path[k] \in Names
    BY <1>1, <1>2
  <2>3. /\ SubSeq(path, 1, m - 1) \in Seq(Names)
        /\ Len(SubSeq(path, 1, m - 1)) = IF 1 <= m - 1 THEN (m - 1) - 1 + 1 ELSE 0
        /\ \A k \in 1 .. (m - 1) - 1 + 1 : SubSeq(path, 1, m - 1)[k] = path[1 + k - 1]
    <3>1. 1 \in Int /\ m - 1 \in Int
      BY <1>2
    <3> QED
      BY <2>2, <3>1, SubSeqProperties
  <2>4. Front(path) = SubSeq(path, 1, m - 1)
    BY <1>3 DEF Front
  <2>5. Len(Front(path)) = m - 1
    BY <1>2, <1>5, <2>3, <2>4
  <2>6. ASSUME NEW k \in 1 .. m - 1
        PROVE  Front(path)[k] = path[k]
    <3>1. k \in 1 .. (m - 1) - 1 + 1 /\ 1 + k - 1 = k
      BY <1>2
    <3> QED
      BY <2>3, <2>4, <3>1
  <2> QED
    BY <2>1, <2>3, <2>4, <2>5, <2>6
<1>6. ASSUME m > 0
      PROVE  Front(path) \in Paths
  <2>1. Front(path) \in [1 .. m - 1 -> Names]
    BY <1>2, <1>5, <1>6, LenProperties
  <2>2. m - 1 \in 0 .. MAX_DEPTH
    BY <1>2, <1>6, NamespaceAssumption
  <2> QED
    BY <2>1, <2>2 DEF Paths
<1> QED
  BY <1>2, <1>3, <1>4, <1>5, <1>6

LEMMA FoundStep == PathsFound
<1>1. Found(<<>>) = {0}
  <2>1. Len(<<>>) = 0 /\ 0 \in Nat
    OBVIOUS
  <2>2. Reaches(Reached(<<>>), <<>>, 0)
    BY <2>1, ReachedValues
  <2>3. Reached(<<>>)[0] = {0}
    BY <2>1, <2>2, ReachesValues
  <2> QED
    BY <2>1, <2>3, FoundIsReached
<1>2. ASSUME NEW path \in Paths \ {<<>>}
      PROVE  Front(path) \in Paths /\ Found(path) = After(Found(Front(path)), Last(path))
  <2>1. PICK m \in Nat, q \in Paths : m = Len(path) /\ q = Front(path) /\ m > 0
    BY PathParts
  <2>2. Len(q) = m - 1 /\ m - 1 \in Nat /\ \A k \in 1 .. m - 1 : q[k] = path[k]
    BY <2>1, PathParts
  <2>3. PICK g, h : g = Reached(path) /\ h = Reached(q)
    OBVIOUS
  <2>4. Reaches(g, path, m) /\ Reaches(h, q, m - 1)
    BY <2>1, <2>2, <2>3, ReachedValues
  <2>5. g[0] = {0} /\ \A n \in 1 .. m : g[n] = After(g[n - 1], path[n])
    BY <2>4, ReachesValues
  <2>6. h[0] = {0} /\ \A n \in 1 .. m - 1 : h[n] = After(h[n - 1], q[n])
    BY <2>2, <2>4, ReachesValues
  <2> DEFINE Bad == {n \in 0 .. m - 1 : g[n] # h[n]}
  <2>7. Bad = {}
    <3>1. SUFFICES ASSUME Bad # {}
                   PROVE  FALSE
      OBVIOUS
    <3>2. PICK n \in Bad : \A l \in Bad : n <= l
      <4>1. Bad \subseteq Nat
        OBVIOUS
      <4> HIDE DEF Bad
      <4> QED
        BY <3>1, <4>1, LeastNumber
    <3>3. n \in 0 .. m - 1 /\ g[n] # h[n]
      OBVIOUS
    <3>4. n # 0
      BY <2>5, <2>6, <3>3
    <3>5. n \in 1 .. m /\ n \in 1 .. m - 1 /\ n - 1 \in 0 .. m - 1 /\ ~(n <= n - 1)
      BY <3>3, <3>4
    <3>6. n - 1 \notin Bad
      <4> HIDE DEF Bad
      <4> QED
        BY <3>2, <3>5
    <3>7. g[n - 1] = h[n - 1]
      BY <3>5, <3>6
    <3> QED
      BY <2>2, <2>5, <2>6, <3>3, <3>5, <3>7
  <2>8. g[m - 1] = h[m - 1]
    <3>1. m - 1 \in 0 .. m - 1
      BY <2>2
    <3> QED
      BY <2>7, <3>1
  <2>9. g[m] = After(g[m - 1], path[m])
    <3>1. m \in 1 .. m
      BY <2>1
    <3> QED
      BY <2>5, <3>1
  <2>10. Found(path) = g[m] /\ Found(q) = h[m - 1] /\ Last(path) = path[m]
    BY <2>1, <2>2, <2>3, FoundIsReached DEF Last
  <2> QED
    BY <2>1, <2>8, <2>9, <2>10
<1> QED
  BY <1>1, <1>2 DEF PathsFound
-----------------------------------------------------------------------------
(* What lookups give where the invariant holds.                             *)
LEMMA MinIs ==
  ASSUME NEW S, S \subseteq Nat, S # {}
  PROVE  Min(S) \in S /\ \A x \in S : Min(S) <= x
<1>1. \E x \in S : \A y \in S : x <= y
  BY LeastNumber
<1> QED
  BY <1>1 DEF Min

LEMMA DirectoryPlaces ==
  ASSUME Sound, NEW d \in Inodes, inode[d].type = "DIR"
  PROVE  /\ Places(d) = 1 .. Len(entry[d]) /\ Len(entry[d]) \in Nat
         /\ Whole(inode[d], entry[d])
<1>1. Whole(inode[d], entry[d])
  BY DEF Sound
<1>2. BlockCount(d) = Len(inode[d].blocks)
  BY <1>1 DEF Whole, Listed, Count, BlockCount
<1>3. Len(entry[d]) = Len(inode[d].blocks) * D /\ Len(entry[d]) \in Nat
  BY <1>1, DirectorySize
<1>4. Places(d) = 1 .. Len(entry[d])
  BY <1>2, <1>3 DEF Places, D
<1> QED
  BY <1>1, <1>3, <1>4

LookupSound(d, name) ==
  \/ Lookup(d, name) = {}
  \/ /\ inode[d].type = "DIR"
     /\ \E p \in Places(d) :
          /\ p = Min(Named(d, name)) /\ entry[d][p].m_name = name
          /\ entry[d][p].m_ino \in ialloc \ {0}
          /\ Lookup(d, name) = {entry[d][p].m_ino}

LEMMA LookupIs ==
  ASSUME Sound, ialloc \subseteq Inodes, DeletedWithLastLink,
         NEW d \in ialloc, NEW name \in Names
  PROVE  LookupSound(d, name)
<1>1. SUFFICES ASSUME inode[d].type = "DIR", Named(d, name) # {}
               PROVE  LookupSound(d, name)
  BY DEF LookupSound, Lookup
<1>2. /\ Places(d) = 1 .. Len(entry[d]) /\ Len(entry[d]) \in Nat
      /\ Whole(inode[d], entry[d])
  BY <1>1, DirectoryPlaces
<1>3. Named(d, name) \subseteq Nat
  BY <1>2 DEF Named
<1>4. PICK p \in Named(d, name) : p = Min(Named(d, name))
  BY <1>1, <1>3, MinIs
<1>5. p \in Places(d) /\ entry[d][p].m_name = name
  BY <1>4 DEF Named
<1>6. entry[d][p].m_ino # 0
  <2>1. name # ""
    BY NamesAssumption
  <2> QED
    BY <1>2, <1>5, <2>1 DEF Whole, Filled
<1>7. entry[d][p].m_ino \in ialloc
  <2>1. d \in Directories /\ p \notin Holes(d)
    BY <1>1, <1>6 DEF Directories, Holes
  <2> QED
    BY <1>5, <2>1 DEF DeletedWithLastLink
<1>8. Lookup(d, name) = {entry[d][p].m_ino}
  BY <1>1, <1>4 DEF Lookup
<1> QED
  BY <1>1, <1>4, <1>5, <1>6, <1>7, <1>8 DEF LookupSound

(* A path leads to one inode, which is in use, or to none.                  *)
FoundSound(path) ==
  \/ Found(path) = {}
  \/ \E i \in ialloc : Found(path) = {i} /\ (path # <<>> => i # 0)

LEMMA FoundIs ==
  ASSUME Sound, ialloc \subseteq Inodes, 0 \in ialloc, DeletedWithLastLink
  PROVE  \A path \in Paths : FoundSound(path)
<1> DEFINE Bad == {n \in Nat : \E path \in Paths : Len(path) = n /\ ~FoundSound(path)}
<1>1. Bad = {}
  <2>1. SUFFICES ASSUME Bad # {}
                 PROVE  FALSE
    OBVIOUS
  <2>2. PICK n \in Bad : \A m \in Bad : n <= m
    <3>1. Bad \subseteq Nat
      OBVIOUS
    <3> HIDE DEF Bad
    <3> QED
      BY <2>1, <3>1, LeastNumber
  <2>3. PICK path \in Paths : Len(path) = n /\ ~FoundSound(path)
    OBVIOUS
  <2>4. path # <<>>
    BY <2>3, FoundStep DEF PathsFound, FoundSound
  <2>5. PICK q \in Paths, name \in Names :
          /\ q = Front(path) /\ name = Last(path) /\ Len(q) = n - 1 /\ n - 1 \in Nat
    BY <2>3, <2>4, PathParts
  <2>6. FoundSound(q)
    <3>1. n - 1 \notin Bad
      <4>1. ~(n <= n - 1)
        BY <2>5
      <4> HIDE DEF Bad
      <4> QED
        BY <2>2, <4>1
    <3> QED
      BY <2>5, <3>1
  <2>7. Found(path) = After(Found(q), name)
    BY <2>4, <2>5, FoundStep DEF PathsFound
  <2>8. CASE Found(q) = {}
    <3>1. Found(path) = {}
      BY <2>7, <2>8 DEF After
    <3> QED
      BY <2>3, <3>1 DEF FoundSound
  <2>9. ASSUME NEW d \in ialloc, Found(q) = {d}
        PROVE  FALSE
    <3>1. Found(path) = Lookup(d, name)
      BY <2>7, <2>9 DEF After
    <3>2. LookupSound(d, name)
      BY LookupIs
    <3> QED
      BY <2>3, <3>1, <3>2 DEF FoundSound, LookupSound
  <2> QED
    BY <2>6, <2>8, <2>9 DEF FoundSound
<1>2. ASSUME NEW path \in Paths
      PROVE  FoundSound(path)
  <2>1. Len(path) \in Nat
    BY PathParts, NamespaceAssumption
  <2> QED
    BY <1>1, <2>1
<1> QED
  BY <1>2

(* What is at a path, and at its parent.                                    *)
LEMMA ThingAtPath ==
  ASSUME Sound, ialloc \subseteq Inodes, 0 \in ialloc, DeletedWithLastLink,
         NEW path \in Paths, Exists(path)
  PROVE  GetInode(path) \in ialloc /\ Found(path) = {GetInode(path)}
<1>1. FoundSound(path) /\ Found(path) # {}
  BY FoundIs DEF Exists
<1>2. PICK i \in ialloc : Found(path) = {i}
  BY <1>1 DEF FoundSound
<1>3. GetInode(path) = i
  BY <1>2 DEF GetInode
<1> QED
  BY <1>2, <1>3

LEMMA EntryAtPath ==
  ASSUME Sound, ialloc \subseteq Inodes, 0 \in ialloc, DeletedWithLastLink,
         NEW path \in Paths \ {<<>>}, Exists(path)
  PROVE  LET d == GetInode(Parent(path))
             p == Min(Named(d, Name(path)))
         IN  /\ d \in Directories /\ p \in Places(d)
             /\ GetInode(path) \in ialloc \ {0}
             /\ entry[d][p].m_ino = GetInode(path)
<1>1. PICK q \in Paths, name \in Names : q = Front(path) /\ name = Last(path)
  BY PathParts
<1>2. Found(path) = After(Found(q), name)
  BY <1>1, FoundStep DEF PathsFound
<1>3. Exists(q)
  BY <1>2 DEF Exists, After
<1>4. PICK d \in ialloc : d = GetInode(q) /\ Found(q) = {d}
  BY <1>3, ThingAtPath
<1>5. Found(path) = Lookup(d, name)
  BY <1>2, <1>4 DEF After
<1>6. LookupSound(d, name) /\ Lookup(d, name) # {}
  BY <1>5, LookupIs DEF Exists
<1>7. PICK p \in Places(d) :
        /\ inode[d].type = "DIR" /\ p = Min(Named(d, name))
        /\ entry[d][p].m_ino \in ialloc \ {0}
        /\ Lookup(d, name) = {entry[d][p].m_ino}
  BY <1>6 DEF LookupSound
<1>8. GetInode(path) = entry[d][p].m_ino
  BY <1>5, <1>7 DEF GetInode
<1>9. GetInode(Parent(path)) = d /\ Name(path) = name
  BY <1>1, <1>4 DEF Parent, Name
<1> QED
  BY <1>7, <1>8, <1>9 DEF Directories

LEMMA VacantPath ==
  ASSUME Sound, ialloc \subseteq Inodes, 0 \in ialloc, DeletedWithLastLink,
         NEW path \in Vacant
  PROVE  LET d == GetInode(Parent(path))
         IN  /\ d \in Directories /\ Name(path) \in Names
             /\ path \in Paths /\ path # <<>> /\ Parent(path) \in Paths
             /\ Found(Parent(path)) = {d}
             /\ Named(d, Name(path)) = {} /\ Lookup(d, Name(path)) = {}
<1>1. path \in Paths /\ ~Exists(path) /\ path # <<>>
      /\ \E d \in Found(Parent(path)) : inode[d].type = "DIR"
  BY DEF Vacant, ParentIsDir
<1>2. PICK q \in Paths, name \in Names : q = Front(path) /\ name = Last(path)
  BY <1>1, PathParts
<1>3. Parent(path) = q /\ Name(path) = name
  BY <1>2 DEF Parent, Name
<1>4. Exists(q)
  BY <1>1, <1>3 DEF Exists
<1>5. PICK d \in ialloc : d = GetInode(q) /\ Found(q) = {d}
  BY <1>4, ThingAtPath
<1>6. inode[d].type = "DIR"
  BY <1>1, <1>3, <1>5
<1>7. Found(path) = After(Found(q), name)
  BY <1>1, <1>2, FoundStep DEF PathsFound
<1>8. Lookup(d, name) = {}
  BY <1>1, <1>5, <1>7 DEF After, Exists
<1>9. Named(d, name) = {}
  BY <1>6, <1>8 DEF Lookup
<1> QED
  BY <1>1, <1>3, <1>5, <1>6, <1>8, <1>9 DEF Directories
-----------------------------------------------------------------------------
(* The inodes that unlink visits below an inode: each but the first has an  *)
(* entry in another of them.                                                *)
Grows(g, i, m) ==
  g = [n \in 0 .. m |->
         IF n = 0 THEN {i}
         ELSE g[n - 1] \cup UNION {Children(d) : d \in g[n - 1]}]
Levels(i) ==
  CHOOSE g : g = [n \in 0 .. MAX_DEPTH |->
                    IF n = 0 THEN {i}
                    ELSE g[n - 1] \cup UNION {Children(d) : d \in g[n - 1]}]

LEMMA SubtreeIsLevels == \A i : Subtree(i) = Levels(i)[MAX_DEPTH]
BY DEF Subtree, Levels

Wider(S) == S \cup UNION {Children(d) : d \in S}

Widens(g, m) == \A n \in 1 .. m : g[n] = Wider(g[n - 1])

LEMMA GrowsValues ==
  ASSUME NEW i, NEW m \in Nat, NEW g, Grows(g, i, m)
  PROVE  g[0] = {i} /\ Widens(g, m)
<1>1. \A n \in 0 .. m :
        g[n] = IF n = 0 THEN {i}
               ELSE g[n - 1] \cup UNION {Children(d) : d \in g[n - 1]}
  BY DEF Grows
<1>2. g[0] = {i}
  <2>1. 0 \in 0 .. m
    OBVIOUS
  <2> QED
    BY <1>1, <2>1
<1>3. ASSUME NEW n \in 1 .. m
      PROVE  g[n] = Wider(g[n - 1])
  <2>1. n \in 0 .. m /\ n # 0
    OBVIOUS
  <2> QED
    BY <1>1, <2>1 DEF Wider
<1> QED
  BY <1>2, <1>3 DEF Widens

LEMMA GrowsExtends ==
  ASSUME NEW i, NEW m \in Nat \ {0}, NEW g, Grows(g, i, m - 1)
  PROVE  \E h : Grows(h, i, m)
<1>1. g[0] = {i} /\ \A n \in 1 .. m - 1 : g[n] = Wider(g[n - 1])
  <2>1. PICK k \in Nat : k = m - 1
    OBVIOUS
  <2>2. Grows(g, i, k)
    BY <2>1
  <2>3. g[0] = {i}
    BY <2>2, GrowsValues
  <2>4. Widens(g, k)
    BY <2>2, GrowsValues
  <2> QED
    BY <2>1, <2>3, <2>4 DEF Widens
<1> DEFINE h == [n \in 0 .. m |-> IF n = m THEN Wider(g[m - 1]) ELSE g[n]]
<1>2. \A n \in 0 .. m - 1 : h[n] = g[n]
  OBVIOUS
<1>3. h[m] = Wider(g[m - 1])
  OBVIOUS
<1>4. h = [n \in 0 .. m |-> h[n]]
  OBVIOUS
<1> HIDE DEF h
<1>5. ASSUME NEW n \in 0 .. m
      PROVE  h[n] = IF n = 0 THEN {i} ELSE Wider(h[n - 1])
  <2>1. CASE n = 0
    <3>1. 0 \in 0 .. m - 1
      OBVIOUS
    <3> QED
      BY <1>1, <1>2, <2>1, <3>1
  <2>2. CASE n = m /\ n # 0
    <3>1. m - 1 \in 0 .. m - 1
      OBVIOUS
    <3>2. h[m - 1] = g[m - 1]
      BY <1>2, <3>1
    <3> QED
      BY <1>3, <2>2, <3>2
  <2>3. CASE n # 0 /\ n # m
    <3>1. n \in 1 .. m - 1 /\ n \in 0 .. m - 1 /\ n - 1 \in 0 .. m - 1
      BY <2>3
    <3>2. h[n] = g[n] /\ h[n - 1] = g[n - 1]
      BY <1>2, <3>1
    <3> QED
      BY <1>1, <2>3, <3>1, <3>2
  <2> QED
    BY <2>1, <2>2, <2>3
<1>6. h = [n \in 0 .. m |-> IF n = 0 THEN {i} ELSE Wider(h[n - 1])]
  BY <1>4, <1>5
<1>7. Grows(h, i, m)
  BY <1>6 DEF Grows, Wider
<1> QED
  BY <1>7

LEMMA LevelsValues == \A i : Grows(Levels(i), i, MAX_DEPTH)
<1> SUFFICES ASSUME NEW i
             PROVE  Grows(Levels(i), i, MAX_DEPTH)
  OBVIOUS
<1> DEFINE Missing == {m \in Nat : ~ \E g : Grows(g, i, m)}
<1>1. Missing = {}
  <2>1. SUFFICES ASSUME Missing # {}
                 PROVE  FALSE
    OBVIOUS
  <2>2. PICK m \in Missing : \A n \in Missing : m <= n
    <3>1. Missing \subseteq Nat
      OBVIOUS
    <3> HIDE DEF Missing
    <3> QED
      BY <2>1, <3>1, LeastNumber
  <2>3. m \in Nat /\ ~ \E g : Grows(g, i, m)
    OBVIOUS
  <2>4. m # 0
    <3>1. PICK g : g = [n \in 0 .. 0 |-> {i}]
      OBVIOUS
    <3>2. g = [n \in 0 .. 0 |->
                 IF n = 0 THEN {i}
                 ELSE g[n - 1] \cup UNION {Children(d) : d \in g[n - 1]}]
      BY <3>1
    <3>3. Grows(g, i, 0)
      BY <3>2 DEF Grows
    <3> QED
      BY <2>3, <3>3
  <2>5. m - 1 \in Nat /\ m - 1 \notin Missing
    <3>1. m - 1 \in Nat /\ ~(m <= m - 1)
      BY <2>3, <2>4
    <3> HIDE DEF Missing
    <3> QED
      BY <2>2, <3>1
  <2>6. PICK g : Grows(g, i, m - 1)
    BY <2>5
  <2> QED
    BY <2>3, <2>4, <2>6, GrowsExtends
<1>2. \E g : Grows(g, i, MAX_DEPTH)
  BY <1>1, NamespaceAssumption
<1>3. \E g : g = [n \in 0 .. MAX_DEPTH |->
                    IF n = 0 THEN {i}
                    ELSE g[n - 1] \cup UNION {Children(d) : d \in g[n - 1]}]
  BY <1>2 DEF Grows
<1> QED
  BY <1>3 DEF Levels, Grows

(* What is known of the inodes that an unlink of inode i deletes.           *)
Below(i, S) ==
  /\ i \in S /\ S \subseteq ialloc \ {0}
  /\ \A j \in S \ {i} : \E d \in S : d \in Directories /\ \E p \in Places(d) : entry[d][p].m_ino = j

LEMMA WiderIsBelow ==
  ASSUME Sound, ialloc \subseteq Inodes, DeletedWithLastLink,
         NEW i, NEW S, Below(i, S)
  PROVE  Below(i, Wider(S))
<1>1. ASSUME NEW j \in Wider(S), j \notin S
      PROVE  j \in ialloc \ {0} /\ \E d \in S :
               d \in Directories /\ \E p \in Places(d) : entry[d][p].m_ino = j
  <2>1. PICK d \in S, name \in Names : j \in Lookup(d, name)
    BY <1>1 DEF Wider, Children
  <2>2. d \in ialloc
    BY DEF Below
  <2>3. LookupSound(d, name)
    BY <2>2, LookupIs
  <2> QED
    BY <2>1, <2>2, <2>3 DEF LookupSound, Directories
<1>2. S \subseteq Wider(S)
  BY DEF Wider
<1>3. i \in Wider(S) /\ Wider(S) \subseteq ialloc \ {0}
  BY <1>1, <1>2 DEF Below
<1>4. ASSUME NEW j \in Wider(S) \ {i}
      PROVE  \E d \in Wider(S) :
               d \in Directories /\ \E p \in Places(d) : entry[d][p].m_ino = j
  <2>1. \E d \in S : d \in Directories /\ \E p \in Places(d) : entry[d][p].m_ino = j
    BY <1>1, <1>4 DEF Below
  <2> QED
    BY <1>2, <2>1
<1> QED
  BY <1>3, <1>4 DEF Below

LEMMA SubtreeIsBelow ==
  ASSUME Sound, ialloc \subseteq Inodes, DeletedWithLastLink, NEW i \in ialloc \ {0}
  PROVE  Below(i, Subtree(i))
<1>1. PICK g : g = Levels(i)
  OBVIOUS
<1>2. g[0] = {i} /\ \A n \in 1 .. MAX_DEPTH : g[n] = Wider(g[n - 1])
  <2>1. Grows(g, i, MAX_DEPTH) /\ MAX_DEPTH \in Nat
    BY <1>1, LevelsValues, NamespaceAssumption
  <2>2. g[0] = {i}
    BY <2>1, GrowsValues
  <2>3. Widens(g, MAX_DEPTH)
    BY <2>1, GrowsValues
  <2> QED
    BY <2>2, <2>3 DEF Widens
<1> DEFINE Bad == {n \in 0 .. MAX_DEPTH : ~Below(i, g[n])}
<1>3. Bad = {}
  <2>1. SUFFICES ASSUME Bad # {}
                 PROVE  FALSE
    OBVIOUS
  <2>2. PICK n \in Bad : \A m \in Bad : n <= m
    <3>1. Bad \subseteq Nat
      BY NamespaceAssumption
    <3> HIDE DEF Bad
    <3> QED
      BY <2>1, <3>1, LeastNumber
  <2>3. n \in 0 .. MAX_DEPTH /\ ~Below(i, g[n])
    OBVIOUS
  <2>4. n # 0
    <3>1. Below(i, {i})
      BY DEF Below
    <3> QED
      BY <1>2, <2>3, <3>1
  <2>5. n \in 1 .. MAX_DEPTH /\ n - 1 \in 0 .. MAX_DEPTH /\ ~(n <= n - 1)
    BY <2>3, <2>4, NamespaceAssumption
  <2>6. n - 1 \notin Bad
    <3> HIDE DEF Bad
    <3> QED
      BY <2>2, <2>5
  <2>7. Below(i, g[n - 1])
    BY <2>5, <2>6
  <2>8. Below(i, Wider(g[n - 1]))
    BY <2>7, WiderIsBelow
  <2> QED
    BY <1>2, <2>3, <2>5, <2>8
<1>4. Below(i, g[MAX_DEPTH])
  <2>1. MAX_DEPTH \in 0 .. MAX_DEPTH
    BY NamespaceAssumption
  <2> QED
    BY <1>3, <2>1
<1> QED
  BY <1>1, <1>4, SubtreeIsLevels

(* At most one entry of an inode means any two are the same.                *)
LEMMA PairSize ==
  ASSUME NEW x, NEW y, x # y
  PROVE  Cardinality({x, y}) = 2
<1>1. IsFiniteSet({x}) /\ Cardinality({x}) = 1
  BY FS_Singleton
<1>2. y \notin {x} /\ {x, y} = {x} \cup {y}
  OBVIOUS
<1>3. Cardinality({x} \cup {y}) = IF y \in {x} THEN Cardinality({x}) ELSE Cardinality({x}) + 1
  BY <1>1, FS_AddElement
<1>4. Cardinality({x} \cup {y}) = Cardinality({x}) + 1
  BY <1>2, <1>3
<1>5. Cardinality({x} \cup {y}) = 2
  BY <1>1, <1>4
<1> QED
  BY <1>2, <1>5

LEMMA OneEntry ==
  ASSUME Sound, ialloc \subseteq Inodes, NEW j, ~(Cardinality(EntriesOf(j)) > 1),
         NEW d \in Directories, NEW p \in Places(d), entry[d][p].m_ino = j,
         NEW e \in Directories, NEW q \in Places(e), entry[e][q].m_ino = j
  PROVE  d = e /\ p = q
<1> DEFINE All == UNION {{x} \X Places(x) : x \in {y \in ialloc : inode[y].type = "DIR"}}
<1>1. EntriesOf(j) = {x \in All : entry[x[1]][x[2]].m_ino = j}
  BY DEF EntriesOf
<1>2. <<d, p>> \in EntriesOf(j) /\ <<e, q>> \in EntriesOf(j)
  <2>1. <<d, p>> \in {d} \X Places(d) /\ <<e, q>> \in {e} \X Places(e)
    OBVIOUS
  <2>2. d \in {y \in ialloc : inode[y].type = "DIR"} /\ e \in {y \in ialloc : inode[y].type = "DIR"}
    BY DEF Directories
  <2>3. <<d, p>> \in All /\ <<e, q>> \in All
    BY <2>1, <2>2
  <2> QED
    BY <1>1, <2>3
<1>3. IsFiniteSet(EntriesOf(j))
  <2>1. IsFiniteSet(Directories)
    <3>1. IsFiniteSet(Inodes)
      BY NamespaceAssumption, FS_Interval DEF Inodes
    <3>2. Directories \subseteq Inodes
      BY DEF Directories
    <3> QED
      BY <3>1, <3>2, FS_Subset
  <2> DEFINE f == [x \in Directories |-> {x} \X Places(x)]
             T == {{x} \X Places(x) : x \in Directories}
  <2>2. f \in Surjection(Directories, T)
    BY DEF Surjection
  <2>3. IsFiniteSet(T)
    <3> HIDE DEF f, T
    <3> QED
      BY <2>1, <2>2, FS_Surjection
  <2>4. ASSUME NEW x \in Directories
        PROVE  IsFiniteSet({x} \X Places(x))
    <3>1. Places(x) = 1 .. Len(entry[x]) /\ Len(entry[x]) \in Nat
      BY DirectoryPlaces DEF Directories
    <3>2. PICK m \in Nat : Places(x) = 1 .. m
      BY <3>1
    <3>3. IsFiniteSet(1 .. m)
      BY FS_Interval
    <3>4. IsFiniteSet({x})
      BY FS_Singleton
    <3> QED
      BY <3>2, <3>3, <3>4, FS_Product
  <2>5. \A t \in T : IsFiniteSet(t)
    BY <2>4
  <2>6. IsFiniteSet(UNION T)
    <3> HIDE DEF T
    <3> QED
      BY <2>3, <2>5, FS_UNION
  <2>7. EntriesOf(j) \subseteq UNION T
    BY DEF EntriesOf, Directories
  <2> QED
    <3> HIDE DEF T
    <3> QED
      BY <2>6, <2>7, FS_Subset
<1>4. Cardinality(EntriesOf(j)) \in Nat
  BY <1>3, FS_CardinalityType
<1>5. SUFFICES ASSUME <<d, p>> # <<e, q>>
               PROVE  FALSE
  OBVIOUS
<1>6. Cardinality({<<d, p>>, <<e, q>>}) = 2
  <2>1. PICK x, y : x = <<d, p>> /\ y = <<e, q>> /\ x # y
    BY <1>5
  <2>2. Cardinality({x, y}) = 2
    BY <2>1, PairSize
  <2> QED
    BY <2>1, <2>2
<1>7. {<<d, p>>, <<e, q>>} \subseteq EntriesOf(j)
  BY <1>2
<1>8. 2 <= Cardinality(EntriesOf(j))
  BY <1>3, <1>6, <1>7, FS_Subset
<1> QED
  BY <1>4, <1>8
-----------------------------------------------------------------------------
(* The inodes that the entries of a directory name, and what they are when  *)
(* an entry is added: those there were, at their places, and the new one.   *)
Targets(es) == {es[q].m_ino : q \in 1 .. Len(es)} \ {0}
EntriesInUse == \A d \in Directories : Targets(entry[d]) \subseteq ialloc

Gains(es, fs, e) ==
  /\ Len(es) \in Nat /\ Len(fs) \in Nat /\ Len(es) <= Len(fs) /\ e.m_ino # 0
  /\ \A q \in 1 .. Len(es) : es[q].m_ino # 0 => fs[q] = es[q]
  /\ \A q \in 1 .. Len(fs) :
       fs[q].m_ino # 0 => fs[q] = e \/ (q \in 1 .. Len(es) /\ fs[q] = es[q])
  /\ \E q \in 1 .. Len(fs) : fs[q] = e

DanglingIs == Sound /\ ialloc \subseteq Inodes => (DeletedWithLastLink <=> EntriesInUse)

LEMMA DanglingIsTargets == DanglingIs
<1>1. SUFFICES ASSUME Sound, ialloc \subseteq Inodes
               PROVE  DeletedWithLastLink <=> EntriesInUse
  BY DEF DanglingIs
<1>2. ASSUME NEW d \in Directories
      PROVE  Places(d) = 1 .. Len(entry[d])
  <2>1. d \in Inodes /\ inode[d].type = "DIR"
    BY <1>1 DEF Directories
  <2> QED
    BY <1>1, <2>1, DirectoryPlaces
<1>3. ASSUME DeletedWithLastLink, NEW d \in Directories, NEW q \in 1 .. Len(entry[d]),
             entry[d][q].m_ino # 0
      PROVE  entry[d][q].m_ino \in ialloc
  BY <1>2, <1>3 DEF DeletedWithLastLink, Holes
<1>4. ASSUME EntriesInUse, NEW d \in Directories, NEW q \in Places(d) \ Holes(d)
      PROVE  entry[d][q].m_ino \in ialloc
  BY <1>2, <1>4 DEF EntriesInUse, Holes, Targets
<1>5. DeletedWithLastLink => EntriesInUse
  BY <1>3 DEF EntriesInUse, Targets
<1>6. EntriesInUse => DeletedWithLastLink
  BY <1>4 DEF DeletedWithLastLink
<1> QED
  BY <1>5, <1>6

LEMMA PutGains ==
  ASSUME NEW es, Filled(es), NEW p \in 1 .. Len(es), es[p].m_ino = 0,
         NEW name \in Names, NEW i \in Inodes \ {0},
         \A q \in 1 .. Len(es) : es[q].m_name # name
  PROVE  Gains(es, Put(es, p, EntryOf(i, name)), EntryOf(i, name))
<1>1. PICK e, fs : e = EntryOf(i, name) /\ fs = Put(es, p, e)
  OBVIOUS
<1>2. /\ Len(fs) = Len(es) /\ Len(es) \in Nat /\ e.m_ino # 0
      /\ \A q \in 1 .. Len(es) : fs[q] = IF q = p THEN e ELSE es[q]
  BY <1>1, PutFilled
<1>3. Gains(es, fs, e)
  BY <1>2 DEF Gains
<1> QED
  BY <1>1, <1>3

LEMMA StartGains ==
  ASSUME NEW es, Filled(es), NEW name \in Names, NEW i \in Inodes \ {0},
         \A q \in 1 .. Len(es) : es[q].m_name # name
  PROVE  Gains(es, Started(es, EntryOf(i, name)), EntryOf(i, name))
<1>1. PICK e, fs : e = EntryOf(i, name) /\ fs = Started(es, e)
  OBVIOUS
<1>2. /\ Len(fs) = Len(es) + D /\ Len(es) \in Nat /\ e.m_ino # 0
      /\ \A q \in 1 .. Len(es) : fs[q] = es[q]
      /\ fs[Len(es) + 1] = e
      /\ \A q \in Len(es) + 2 .. Len(es) + D : fs[q] = Empty
  BY <1>1, StartFilled
<1>3. D \in Nat /\ D > 0 /\ Empty.m_ino = 0
  <2>1. D \in Nat /\ D > 0
    BY NamespaceAssumption DEF D
  <2>2. Empty.m_ino = 0
    BY EmptyIsEntry
  <2> QED
    BY <2>1, <2>2
<1>4. ASSUME NEW q \in 1 .. Len(fs), fs[q].m_ino # 0
      PROVE  fs[q] = e \/ (q \in 1 .. Len(es) /\ fs[q] = es[q])
  <2>1. q \in 1 .. Len(es) \/ q = Len(es) + 1 \/ q \in Len(es) + 2 .. Len(es) + D
    BY <1>2, <1>3
  <2> QED
    BY <1>2, <1>3, <1>4, <2>1
<1>5. \E q \in 1 .. Len(fs) : fs[q] = e
  <2>1. Len(es) + 1 \in 1 .. Len(fs)
    BY <1>2, <1>3
  <2> QED
    BY <1>2, <2>1
<1>6. Gains(es, fs, e)
  BY <1>2, <1>3, <1>4, <1>5 DEF Gains
<1> QED
  BY <1>1, <1>6

(* What _add_to_dir does, the other inodes being those it is given.         *)
Added(nodes, d, name, i) ==
  /\ inode' = [j \in Inodes |-> inode'[j]] /\ entry' = [j \in Inodes |-> entry'[j]]
  /\ \A j \in Inodes \ {d} : inode'[j] = nodes[j] /\ entry'[j] = entry[j]
  /\ Whole(inode'[d], entry'[d])
  /\ inode'[d].type = "DIR" /\ inode'[d].d_nlink = inode[d].d_nlink
  /\ Gains(entry[d], entry'[d], EntryOf(i, name))
  /\ free' \subseteq free /\ Range(inode'[d].blocks) = Range(inode[d].blocks) \cup (free \ free')

LEMMA FilledHole ==
  ASSUME Basic, Sound, NEW nodes, nodes = [j \in Inodes |-> nodes[j]],
         NEW d \in Directories, nodes[d] = inode[d],
         NEW name \in Names, Named(d, name) = {}, NEW i \in Inodes \ {0},
         FillHole(nodes, d, name, i)
  PROVE  Added(nodes, d, name, i)
<1>1. d \in Inodes /\ inode[d].type = "DIR"
  BY DEF Basic, Directories
<1>2. PICK node, es : node = inode[d] /\ es = entry[d]
  OBVIOUS
<1>3. Places(d) = 1 .. Len(es) /\ Len(es) \in Nat /\ Whole(node, es) /\ node.type = "DIR"
  BY <1>1, <1>2, DirectoryPlaces
<1>4. PICK p \in 1 .. Len(es) : p = Min(Holes(d)) /\ es[p].m_ino = 0
  <2>1. Holes(d) \subseteq Nat /\ Holes(d) # {}
    BY <1>3 DEF Holes, FillHole
  <2>2. Min(Holes(d)) \in Holes(d)
    BY <2>1, MinIs
  <2> QED
    BY <1>2, <1>3, <2>2 DEF Holes
<1>5. \A q \in 1 .. Len(es) : es[q].m_name # name
  BY <1>2, <1>3 DEF Named
<1>6. PICK e, fs : e = EntryOf(i, name) /\ fs = Put(es, p, e)
  OBVIOUS
<1>7. entry' = [entry EXCEPT ![d] = fs]
  BY <1>2, <1>4, <1>6 DEF FillHole, Put, EntryOf
<1>8. PICK new : new = Sized(node, FillSize(node.d_size, es, p))
  OBVIOUS
<1>9. inode' = [nodes EXCEPT ![d] = new]
  <2>1. PICK before \in Int : before = ((p - 1) \div D) * D
    <3>1. p - 1 \in Int
      OBVIOUS
    <3>2. (p - 1) \div D \in Int
      BY <3>1, Division
    <3> QED
      BY <3>2, Multiple
  <2>2. PICK block, length :
          /\ block = before + 1 .. before + D
          /\ length = 1 + Cardinality(block \ Holes(d))
    OBVIOUS
  <2>3. inode' = [nodes EXCEPT ![d].d_size = SizeAfterFill(@, before + length)]
    BY <1>4, <2>1, <2>2 DEF FillHole, D
  <2>4. PICK low \in Nat, high \in Nat :
          /\ low = ((p - 1) \div D) * D /\ high = low + D
          /\ high = Len(es) \/ high <= Len(es) - D
    <3>1. PICK m \in Nat, len \in Nat : m = Len(node.blocks) /\ len = Len(es) /\ len = m * D
      BY <1>3, DirectorySize
    <3>2. p \in 1 .. len
      BY <3>1
    <3> QED
      BY <3>1, <3>2, BlockOf
  <2>5. block \subseteq Places(d)
    <3>1. D \in Nat /\ D > 0
      BY NamespaceAssumption DEF D
    <3>2. PICK len \in Nat : len = Len(es) /\ Places(d) = 1 .. len
      BY <1>3
    <3>3. before = low /\ high = low + D /\ high <= len
      BY <2>1, <2>4, <3>1, <3>2
    <3>4. block = low + 1 .. high
      BY <2>2, <3>3
    <3> QED
      BY <3>2, <3>3, <3>4
  <2>6. block \ Holes(d) = UsedIn(es, before, before + D)
    BY <1>2, <2>2, <2>5 DEF Holes, UsedIn
  <2>7. SizeAfterFill(node.d_size, before + length) = FillSize(node.d_size, es, p)
    BY <2>1, <2>2, <2>6 DEF FillSize
  <2> QED
    BY <1>2, <1>8, <2>3, <2>7 DEF Sized
<1>10. Whole(new, fs)
  BY <1>3, <1>4, <1>5, <1>6, <1>8, FillWhole
<1>11. new.type = "DIR" /\ new.d_nlink = node.d_nlink /\ new.blocks = node.blocks
  <2>1. node \in Node
    BY <1>3, DirectorySize
  <2> QED
    BY <1>3, <1>8, <2>1 DEF Sized, Node
<1>12. Gains(es, fs, e)
  <2>1. Filled(es)
    BY <1>3 DEF Whole
  <2> QED
    BY <1>4, <1>5, <1>6, <2>1, PutGains
<1>13. inode'[d] = new /\ entry'[d] = fs
  <2>1. DOMAIN nodes = Inodes /\ DOMAIN entry = Inodes
    BY DEF Basic
  <2> QED
    BY <1>1, <1>7, <1>9, <2>1
<1>14. \A j \in Inodes \ {d} : inode'[j] = nodes[j] /\ entry'[j] = entry[j]
  BY <1>7, <1>9 DEF Basic
<1>15. inode' = [j \in Inodes |-> inode'[j]] /\ entry' = [j \in Inodes |-> entry'[j]]
  BY <1>7, <1>9 DEF Basic
<1>16. free' = free
  BY DEF FillHole
<1> QED
  BY <1>2, <1>6, <1>10, <1>11, <1>12, <1>13, <1>14, <1>15, <1>16 DEF Added

LEMMA StartedBlock ==
  ASSUME Basic, Sound, Owned, NEW nodes, nodes = [j \in Inodes |-> nodes[j]],
         NEW d \in Directories, nodes[d] = inode[d],
         NEW name \in Names, Named(d, name) = {}, NEW i \in Inodes \ {0},
         StartBlock(nodes, d, name, i)
  PROVE  Added(nodes, d, name, i)
<1>1. d \in Inodes /\ d \in ialloc /\ inode[d].type = "DIR"
  BY DEF Basic, Directories
<1>2. PICK node, es : node = inode[d] /\ es = entry[d]
  OBVIOUS
<1>3. Places(d) = 1 .. Len(es) /\ Len(es) \in Nat /\ Whole(node, es) /\ node.type = "DIR"
  BY <1>1, <1>2, DirectoryPlaces
<1>4. \A q \in 1 .. Len(es) : es[q].m_ino # 0
  BY <1>2, <1>3 DEF StartBlock, Holes
<1>5. \A q \in 1 .. Len(es) : es[q].m_name # name
  BY <1>2, <1>3 DEF Named
<1>6. PICK e, fs : e = EntryOf(i, name) /\ fs = Started(es, e)
  OBVIOUS
<1>7. entry' = [entry EXCEPT ![d] = fs]
  BY <1>2, <1>6 DEF StartBlock, Started, NewBlock, EntryOf, D
<1>8. PICK b \in free :
        /\ free' = free \ {b}
        /\ inode' = [nodes EXCEPT ![d].blocks = Append(@, b), ![d].d_size = @ + 1]
  BY DEF StartBlock
<1>9. PICK new : new = Grown(node, b)
  OBVIOUS
<1>10. inode' = [nodes EXCEPT ![d] = new]
  BY <1>1, <1>2, <1>8, <1>9 DEF Grown
<1>11. b \in Blocks /\ b \notin Range(node.blocks)
  <2>1. free \subseteq Blocks /\ Owns(d) \cap free = {}
    BY <1>1 DEF Basic, Owned
  <2> QED
    BY <1>2, <2>1 DEF Owns
<1>12. Whole(new, fs)
  BY <1>3, <1>4, <1>5, <1>6, <1>9, <1>11, StartWhole
<1>13. node \in Node /\ Listed(node) /\ Filled(es)
  BY <1>3 DEF Whole, Listed
<1>14. new.type = "DIR" /\ new.d_nlink = node.d_nlink
  BY <1>3, <1>9, <1>13 DEF Grown, Node
<1>15. Range(new.blocks) = Range(node.blocks) \cup {b}
  <2>1. PICK s : s = node.blocks
    OBVIOUS
  <2>2. new.blocks = Append(s, b) /\ s \in Seq(Blocks)
    BY <1>9, <1>13, <2>1 DEF Grown, Node
  <2> QED
    BY <1>11, <2>1, <2>2, AppendRange
<1>16. Gains(es, fs, e)
  BY <1>5, <1>6, <1>13, StartGains
<1>17. inode'[d] = new /\ entry'[d] = fs
  <2>1. DOMAIN nodes = Inodes /\ DOMAIN entry = Inodes
    BY DEF Basic
  <2> QED
    BY <1>1, <1>7, <1>10, <2>1
<1>18. \A j \in Inodes \ {d} : inode'[j] = nodes[j] /\ entry'[j] = entry[j]
  BY <1>7, <1>10 DEF Basic
<1>19. inode' = [j \in Inodes |-> inode'[j]] /\ entry' = [j \in Inodes |-> entry'[j]]
  BY <1>7, <1>10 DEF Basic
<1>20. free \ free' = {b} /\ free' \subseteq free
  BY <1>8
<1> QED
  BY <1>2, <1>6, <1>12, <1>14, <1>15, <1>16, <1>17, <1>18, <1>19, <1>20 DEF Added

LEMMA AddedEntry ==
  ASSUME Basic, Sound, Owned, NEW nodes, nodes = [j \in Inodes |-> nodes[j]],
         NEW d \in Directories, nodes[d] = inode[d],
         NEW name \in Names, Named(d, name) = {}, NEW i \in Inodes \ {0},
         AddToDir(nodes, d, name, i)
  PROVE  Added(nodes, d, name, i)
BY FilledHole, StartedBlock DEF AddToDir
-----------------------------------------------------------------------------
(* What the steps keep.  Blocks have one owner if those that leave the free *)
(* list go to one inode.                                                    *)
LEMMA OwnedTakes ==
  ASSUME Owned, NEW d \in ialloc, free' \subseteq free,
         Owns(d)' = Owns(d) \cup (free \ free'),
         \A j \in ialloc \ {d} : Owns(j)' = Owns(j),
         NEW i, ialloc' = ialloc \cup {i}, i \in ialloc \/ Owns(i)' = {}
  PROVE  Owned'
<1>1. ASSUME NEW j \in ialloc', NEW k \in ialloc', j # k
      PROVE  Owns(j)' \cap Owns(k)' = {}
  <2>1. CASE Owns(j)' = {} \/ Owns(k)' = {}
    BY <2>1
  <2>2. CASE j \in ialloc /\ k \in ialloc
    <3>1. Owns(j) \cap Owns(k) = {} /\ Owns(j) \cap free = {} /\ Owns(k) \cap free = {}
      BY <1>1, <2>2 DEF Owned
    <3> QED
      BY <1>1, <2>2, <3>1
  <2> QED
    BY <1>1, <2>1, <2>2
<1>2. ASSUME NEW j \in ialloc'
      PROVE  Owns(j)' \cap free' = {}
  <2>1. CASE j \in ialloc
    <3>1. Owns(j) \cap free = {}
      BY <2>1 DEF Owned
    <3> QED
      BY <2>1, <3>1
  <2> QED
    BY <1>2, <2>1
<1>3. (UNION {Owns(j)' : j \in ialloc'}) \cup free' = Blocks
  <2>1. \A b : b \in Blocks <=> b \in free \/ \E j \in ialloc : b \in Owns(j)
    BY DEF Owned
  <2>2. \A b : b \in free' \/ (\E j \in ialloc' : b \in Owns(j)')
               <=> b \in free \/ \E j \in ialloc : b \in Owns(j)
    OBVIOUS
  <2> QED
    BY <2>1, <2>2
<1> QED
  BY <1>1, <1>2, <1>3 DEF Owned

(* The entries of a directory that gained one name inodes in use.           *)
LEMMA GainedTargets ==
  ASSUME NEW es, NEW fs, NEW e, Gains(es, fs, e)
  PROVE  Targets(fs) \subseteq Targets(es) \cup {e.m_ino}
BY DEF Gains, Targets

LEMMA NoTargets == Targets(<<>>) = {}
<1>1. Len(<<>>) = 0
  OBVIOUS
<1> QED
  BY <1>1 DEF Targets

Taking(nodes, i) ==
  /\ ialloc' = ialloc \cup {i}
  /\ \A j \in Inodes \ {i} : nodes[j] = inode[j]
  /\ \/ i \in ialloc /\ nodes[i] = inode[i]
     \/ i \notin ialloc /\ \E type \in {"DIR", "FILE"} : nodes[i] = Fresh(type)
  /\ pending' \in Paths /\ leaked' \subseteq Inodes /\ damaged' \in BOOLEAN

LEMMA FreshOwns ==
  ASSUME NEW type
  PROVE  Range(Fresh(type).blocks) = {} /\ Fresh(type).d_nlink = 1 /\ Fresh(type).type = type
BY DEF Fresh, Range

LEMMA AddedKeeps ==
  ASSUME Basic, Sound, Unused, Links, Owned, EntriesInUse,
         NEW nodes, NEW d \in Directories, NEW name, NEW i \in Inodes \ {0},
         Taking(nodes, i), Added(nodes, d, name, i)
  PROVE  Basic' /\ Sound' /\ Unused' /\ Links' /\ Owned' /\ EntriesInUse'
<1>1. d \in Inodes /\ d \in ialloc /\ inode[d].type = "DIR" /\ i \in Inodes /\ i # 0
  BY DEF Basic, Directories
<1>2. /\ \A j \in Inodes \ {d} : inode'[j] = nodes[j] /\ entry'[j] = entry[j]
      /\ Whole(inode'[d], entry'[d])
      /\ inode'[d].type = "DIR" /\ inode'[d].d_nlink = inode[d].d_nlink
      /\ Gains(entry[d], entry'[d], EntryOf(i, name))
      /\ free' \subseteq free
      /\ Range(inode'[d].blocks) = Range(inode[d].blocks) \cup (free \ free')
  BY DEF Added
<1>3. \A j \in Inodes \ {d, i} : inode'[j] = inode[j] /\ entry'[j] = entry[j]
  BY <1>2 DEF Taking
<1>4. i # d => /\ entry'[i] = entry[i]
               /\ \/ i \in ialloc /\ inode'[i] = inode[i]
                  \/ i \notin ialloc /\ \E type \in {"DIR", "FILE"} : inode'[i] = Fresh(type)
  BY <1>1, <1>2 DEF Taking
<1>5. ialloc' = ialloc \cup {i}
  BY DEF Taking
<1>6. Basic'
  <2>1. DOMAIN inode' = Inodes /\ DOMAIN entry' = Inodes
    BY DEF Added
  <2>2. inode' = [j \in Inodes |-> inode'[j]] /\ entry' = [j \in Inodes |-> entry'[j]]
    BY DEF Added
  <2>3. ialloc' \subseteq Inodes /\ free' \subseteq Blocks /\ 0 \in ialloc'
    BY <1>1, <1>2, <1>5 DEF Basic
  <2>4. inode'[0].type = "DIR"
    <3>1. 0 \in Inodes /\ inode[0].type = "DIR"
      BY DEF Basic
    <3> QED
      BY <1>1, <1>2, <1>3, <3>1
  <2>5. pending' \in Paths /\ leaked' \subseteq Inodes /\ damaged' \in BOOLEAN
    BY DEF Taking
  <2> QED
    BY <2>1, <2>2, <2>3, <2>4, <2>5 DEF Basic
<1>7. Sound'
  <2>1. ASSUME NEW j \in Inodes
        PROVE  Whole(inode'[j], entry'[j])
    <3>1. CASE j = d
      BY <1>2, <3>1
    <3>2. CASE j # d /\ inode'[j] = inode[j] /\ entry'[j] = entry[j]
      BY <3>2 DEF Sound
    <3>3. CASE j = i /\ j # d /\ i \notin ialloc
      <4>1. entry'[i] = <<>>
        BY <1>1, <1>4, <3>3 DEF Unused
      <4>2. PICK type \in {"DIR", "FILE"} : inode'[i] = Fresh(type)
        BY <1>4, <3>3
      <4> QED
        BY <3>3, <4>1, <4>2, FreshWhole
    <3> QED
      BY <1>3, <1>4, <3>1, <3>2, <3>3
  <2> QED
    BY <2>1 DEF Sound
<1>8. Unused'
  <2>1. ASSUME NEW j \in Inodes \ ialloc'
        PROVE  entry'[j] = <<>>
    <3>1. j # d /\ j # i /\ j \notin ialloc
      BY <1>1, <1>5, <2>1
    <3> QED
      BY <1>3, <3>1 DEF Unused
  <2> QED
    BY <2>1 DEF Unused
<1>9. Links'
  <2>1. ASSUME NEW j \in Inodes \ {0}
        PROVE  inode'[j].d_nlink = 1
    <3>1. inode[j].d_nlink = 1
      BY DEF Links
    <3>2. CASE j = d
      BY <1>2, <3>1, <3>2
    <3>3. CASE j # d
      <4>1. inode'[j] = inode[j] \/ \E type \in {"DIR", "FILE"} : inode'[j] = Fresh(type)
        BY <1>3, <1>4, <3>3
      <4> QED
        BY <3>1, <4>1, FreshOwns
    <3> QED
      BY <3>2, <3>3
  <2> QED
    BY <2>1 DEF Links
<1>10. Owned'
  <2>1. Owns(d)' = Owns(d) \cup (free \ free')
    BY <1>2 DEF Owns
  <2>2. ASSUME NEW j \in ialloc \ {d}
        PROVE  Owns(j)' = Owns(j)
    <3>1. j \in Inodes
      BY DEF Basic
    <3>2. inode'[j] = inode[j]
      BY <1>3, <1>4, <2>2, <3>1
    <3> QED
      BY <3>2 DEF Owns
  <2>3. i \in ialloc \/ Owns(i)' = {}
    <3>1. SUFFICES ASSUME i \notin ialloc
                   PROVE  Owns(i)' = {}
      OBVIOUS
    <3>2. PICK type : inode'[i] = Fresh(type)
      BY <1>1, <1>4, <3>1
    <3> QED
      BY <3>2, FreshOwns DEF Owns
  <2> QED
    BY <1>1, <1>2, <1>5, <2>1, <2>2, <2>3, OwnedTakes
<1>11. EntriesInUse'
  <2>1. ASSUME NEW x \in ialloc', inode'[x].type = "DIR"
        PROVE  Targets(entry'[x]) \subseteq ialloc'
    <3>1. CASE x = d
      <4>1. Targets(entry[d]) \subseteq ialloc
        BY DEF EntriesInUse
      <4>2. Targets(entry'[d]) \subseteq Targets(entry[d]) \cup {EntryOf(i, name).m_ino}
        BY <1>2, GainedTargets
      <4>3. EntryOf(i, name).m_ino = i
        BY DEF EntryOf
      <4> QED
        BY <1>5, <3>1, <4>1, <4>2, <4>3
    <3>2. CASE x # d /\ x \in ialloc
      <4>1. x \in Inodes
        BY <3>2 DEF Basic
      <4>2. inode'[x] = inode[x] /\ entry'[x] = entry[x]
        BY <1>3, <1>4, <3>2, <4>1
      <4>3. x \in Directories
        BY <2>1, <3>2, <4>2 DEF Directories
      <4> QED
        BY <1>5, <4>2, <4>3 DEF EntriesInUse
    <3>3. CASE x # d /\ x \notin ialloc
      <4>1. x = i
        BY <1>5, <2>1, <3>3
      <4>2. entry'[x] = <<>>
        BY <1>1, <1>4, <3>3, <4>1 DEF Unused
      <4> QED
        BY <4>2, NoTargets
    <3> QED
      BY <3>1, <3>2, <3>3
  <2> QED
    BY <2>1 DEF EntriesInUse, Directories
<1> QED
  BY <1>6, <1>7, <1>8, <1>9, <1>10, <1>11

(* The two ways to say that entries name inodes in use, in both states.     *)
LEMMA InUseBefore ==
  ASSUME TreeInv
  PROVE  Basic /\ Sound /\ Unused /\ Links /\ Owned /\ EntriesInUse
BY DanglingIsTargets DEF TreeInv, DanglingIs, Basic

LEMMA InUseAfter ==
  ASSUME Basic', Sound', Unused', Links', Owned', EntriesInUse', Ready'
  PROVE  TreeInv'
<1>1. DanglingIs'
  BY DanglingIsTargets, PTL
<1>2. DeletedWithLastLink'
  BY <1>1 DEF DanglingIs, Basic
<1> QED
  BY <1>2 DEF TreeInv

LEMMA TreeParts ==
  ASSUME TreeInv
  PROVE  Sound /\ ialloc \subseteq Inodes /\ 0 \in ialloc /\ DeletedWithLastLink
BY DEF TreeInv, Basic

LEMMA ReadyAtRest ==
  ASSUME pending' = <<>>
  PROVE  Ready'
BY DEF Ready

LEMMA EmptyPath == <<>> \in Paths
<1>1. <<>> \in [1 .. 0 -> Names] /\ 0 \in 0 .. MAX_DEPTH
  BY NamespaceAssumption
<1> QED
  BY <1>1 DEF Paths

LEMMA CreateStep ==
  ASSUME TreeInv, NEW path \in Vacant, NEW type \in {"FILE", "DIR"}, pending = <<>>,
         Create(path, type)
  PROVE  TreeInv'
<1>1. Basic /\ Sound /\ Unused /\ Links /\ Owned /\ EntriesInUse
  BY InUseBefore
<1>2. PICK i \in Inodes :
        /\ NewInode(i)
        /\ AddToDir(Created(i, type), GetInode(Parent(path)), Name(path), i)
        /\ ialloc' = ialloc \cup {i}
  BY DEF Create
<1>3. PICK d, name : d = GetInode(Parent(path)) /\ name = Name(path)
  OBVIOUS
<1>4. d \in Directories /\ name \in Names /\ Named(d, name) = {}
  BY <1>3, TreeParts, VacantPath
<1>5. i \notin ialloc /\ i # 0 /\ i \in Inodes
  BY <1>1, <1>2 DEF NewInode, Basic
<1>6. PICK nodes : nodes = Created(i, type)
  OBVIOUS
<1>7. /\ nodes = [j \in Inodes |-> nodes[j]] /\ nodes[i] = Fresh(type)
      /\ \A j \in Inodes \ {i} : nodes[j] = inode[j]
  <2>1. nodes = [inode EXCEPT ![i] = Fresh(type)] /\ DOMAIN inode = Inodes
    BY <1>1, <1>6 DEF Created, Basic
  <2> QED
    BY <1>5, <2>1
<1>8. d \in Inodes /\ nodes[d] = inode[d]
  BY <1>1, <1>4, <1>5, <1>7 DEF Directories, Basic
<1>9. AddToDir(nodes, d, name, i)
  BY <1>2, <1>3, <1>6
<1>10. Added(nodes, d, name, i)
  BY <1>1, <1>4, <1>5, <1>7, <1>8, <1>9, AddedEntry
<1>11. pending' = <<>> /\ leaked' = leaked /\ damaged' = damaged
  BY DEF Create
<1>12. Taking(nodes, i)
  BY <1>1, <1>2, <1>5, <1>7, <1>11, EmptyPath DEF Taking, Basic
<1> QED
  BY <1>1, <1>4, <1>5, <1>10, <1>11, <1>12, AddedKeeps, ReadyAtRest, InUseAfter

LEMMA LinkStep ==
  ASSUME TreeInv, NEW src \in Taken, NEW dst \in Vacant, pending = <<>>, Link(src, dst)
  PROVE  TreeInv'
<1>1. Basic /\ Sound /\ Unused /\ Links /\ Owned /\ EntriesInUse
  BY InUseBefore
<1>2. PICK i : i = GetInode(src)
  OBVIOUS
<1>3. i \in ialloc /\ i # 0 /\ i \in Inodes
  <2>1. i \in ialloc
    BY <1>2, TreeParts, ThingAtPath DEF Taken
  <2>2. inode[i].type = "FILE"
    BY <1>2 DEF Link
  <2> QED
    BY <1>1, <2>1, <2>2 DEF Basic
<1>4. PICK d, name : d = GetInode(Parent(dst)) /\ name = Name(dst)
  OBVIOUS
<1>5. d \in Directories /\ name \in Names /\ Named(d, name) = {}
  BY <1>4, TreeParts, VacantPath
<1>6. Added(inode, d, name, i)
  <2>1. AddToDir(inode, d, name, i)
    BY <1>2, <1>4 DEF Link
  <2>2. inode = [j \in Inodes |-> inode[j]]
    BY <1>1 DEF Basic
  <2> QED
    BY <1>1, <1>3, <1>5, <2>1, <2>2, AddedEntry
<1>7. ialloc' = ialloc /\ pending' = <<>> /\ leaked' = leaked /\ damaged' = damaged
  BY DEF Link
<1>8. Taking(inode, i)
  BY <1>1, <1>3, <1>7, EmptyPath DEF Taking, Basic
<1> QED
  BY <1>1, <1>3, <1>5, <1>6, <1>7, <1>8, AddedKeeps, ReadyAtRest, InUseAfter

LEMMA CreateFailsStep ==
  ASSUME TreeInv, NEW path, NEW type \in {"FILE", "DIR"}, pending = <<>>,
         CreateFails(path, type)
  PROVE  TreeInv'
<1>1. Basic /\ Sound /\ Unused /\ Links /\ Owned /\ EntriesInUse
  BY InUseBefore
<1>2. PICK i \in Inodes :
        /\ NewInode(i) /\ inode' = Created(i, type)
        /\ ialloc' = ialloc \cup {i} /\ leaked' = leaked \cup {i}
  BY DEF CreateFails
<1>3. i \notin ialloc /\ i # 0
  BY <1>1, <1>2 DEF NewInode, Basic
<1>4. entry' = entry /\ free' = free /\ pending' = <<>> /\ damaged' = damaged
  BY DEF CreateFails
<1>5. /\ DOMAIN inode' = Inodes /\ inode' = [j \in Inodes |-> inode'[j]]
      /\ inode'[i] = Fresh(type) /\ \A j \in Inodes \ {i} : inode'[j] = inode[j]
  <2>1. inode' = [inode EXCEPT ![i] = Fresh(type)] /\ DOMAIN inode = Inodes
    BY <1>1, <1>2 DEF Created, Basic
  <2> QED
    BY <2>1
<1>6. Basic'
  <2>1. inode'[0].type = "DIR"
    BY <1>1, <1>3, <1>5 DEF Basic
  <2>2. ialloc' \subseteq Inodes /\ leaked' \subseteq Inodes /\ 0 \in ialloc'
    BY <1>1, <1>2 DEF Basic
  <2>3. DOMAIN entry' = Inodes /\ entry' = [j \in Inodes |-> entry'[j]]
    BY <1>1, <1>4 DEF Basic
  <2>4. free' \subseteq Blocks /\ pending' \in Paths /\ damaged' \in BOOLEAN
    BY <1>1, <1>4, EmptyPath DEF Basic
  <2> QED
    BY <1>5, <2>1, <2>2, <2>3, <2>4 DEF Basic
<1>7. Sound'
  <2>1. ASSUME NEW j \in Inodes
        PROVE  Whole(inode'[j], entry'[j])
    <3>1. CASE j = i
      <4>1. entry'[j] = <<>>
        BY <1>1, <1>3, <1>4, <3>1 DEF Unused
      <4> QED
        BY <1>5, <3>1, <4>1, FreshWhole
    <3>2. CASE j # i
      BY <1>1, <1>4, <1>5, <3>2 DEF Sound
    <3> QED
      BY <3>1, <3>2
  <2> QED
    BY <2>1 DEF Sound
<1>8. Unused'
  BY <1>1, <1>2, <1>4 DEF Unused
<1>9. Links'
  <2>1. Fresh(type).d_nlink = 1
    BY FreshOwns
  <2> QED
    BY <1>1, <1>5, <2>1 DEF Links
<1>10. Owned'
  <2>1. \A j \in ialloc : Owns(j)' = Owns(j)
    BY <1>1, <1>3, <1>5 DEF Owns, Basic
  <2>2. Owns(i)' = {}
    BY <1>5, FreshOwns DEF Owns
  <2>3. 0 \in ialloc /\ free' \subseteq free
    BY <1>1, <1>4 DEF Basic
  <2>4. Owns(0)' = Owns(0) \cup (free \ free')
    BY <1>4, <2>1, <2>3
  <2> QED
    BY <1>1, <1>2, <2>1, <2>2, <2>3, <2>4, OwnedTakes
<1>11. EntriesInUse'
  <2>1. ASSUME NEW x \in ialloc', inode'[x].type = "DIR"
        PROVE  Targets(entry'[x]) \subseteq ialloc'
    <3>1. CASE x = i
      <4>1. entry'[x] = <<>>
        BY <1>1, <1>3, <1>4, <3>1 DEF Unused
      <4> QED
        BY <4>1, NoTargets
    <3>2. CASE x # i
      <4>1. x \in ialloc /\ x \in Inodes
        BY <1>1, <1>2, <3>2 DEF Basic
      <4>2. x \in Directories
        BY <1>5, <2>1, <3>2, <4>1 DEF Directories
      <4> QED
        BY <1>1, <1>2, <1>4, <4>2 DEF EntriesInUse
    <3> QED
      BY <3>1, <3>2
  <2> QED
    BY <2>1 DEF EntriesInUse, Directories
<1> QED
  BY <1>4, <1>6, <1>7, <1>8, <1>9, <1>10, <1>11, ReadyAtRest, InUseAfter

LEMMA AppendBlockStep ==
  ASSUME TreeInv, NEW path \in Taken, pending = <<>>, AppendBlock(path)
  PROVE  TreeInv'
<1>1. Basic /\ Sound /\ Unused /\ Links /\ Owned /\ EntriesInUse
  BY InUseBefore
<1>2. PICK i : i = GetInode(path)
  OBVIOUS
<1>3. i \in ialloc /\ i \in Inodes /\ inode[i].type = "FILE"
  <2>1. i \in ialloc
    BY <1>2, TreeParts, ThingAtPath DEF Taken
  <2> QED
    BY <1>1, <1>2, <2>1 DEF Basic, AppendBlock
<1>4. PICK b \in free :
        /\ free' = free \ {b}
        /\ inode' = [inode EXCEPT ![i].blocks = Append(@, b), ![i].d_size = @ + 1]
  BY <1>2 DEF AppendBlock
<1>5. PICK node, es : node = inode[i] /\ es = entry[i]
  OBVIOUS
<1>6. PICK new : new = Grown(node, b)
  OBVIOUS
<1>7. /\ DOMAIN inode' = Inodes /\ inode' = [j \in Inodes |-> inode'[j]]
      /\ inode'[i] = new /\ \A j \in Inodes \ {i} : inode'[j] = inode[j]
  <2>1. inode' = [inode EXCEPT ![i] = new] /\ DOMAIN inode = Inodes
    BY <1>1, <1>3, <1>4, <1>5, <1>6 DEF Grown, Basic
  <2> QED
    BY <1>3, <2>1
<1>8. /\ ialloc' = ialloc /\ entry' = entry /\ pending' = <<>>
      /\ leaked' = leaked /\ damaged' = damaged
  BY DEF AppendBlock
<1>9. b \in Blocks /\ b \notin Range(node.blocks)
  <2>1. free \subseteq Blocks /\ Owns(i) \cap free = {}
    BY <1>1, <1>3 DEF Basic, Owned
  <2> QED
    BY <1>5, <2>1 DEF Owns
<1>10. Whole(node, es) /\ node.type = "FILE"
  BY <1>1, <1>3, <1>5 DEF Sound
<1>11. Whole(new, es)
  BY <1>6, <1>9, <1>10, AppendWhole
<1>12. node \in Node
  BY <1>10 DEF Whole, Listed
<1>13. new.type = "FILE" /\ new.d_nlink = node.d_nlink
  BY <1>6, <1>10, <1>12 DEF Grown, Node
<1>14. Range(new.blocks) = Range(node.blocks) \cup {b}
  <2>1. PICK s : s = node.blocks
    OBVIOUS
  <2>2. new.blocks = Append(s, b) /\ s \in Seq(Blocks)
    BY <1>6, <1>12, <2>1 DEF Grown, Node
  <2> QED
    BY <1>9, <2>1, <2>2, AppendRange
<1>15. Basic'
  <2>1. inode'[0].type = "DIR" /\ 0 \in ialloc'
    <3>1. 0 \in ialloc /\ 0 \in Inodes /\ inode[0].type = "DIR"
      BY <1>1 DEF Basic
    <3> QED
      BY <1>3, <1>7, <1>8, <3>1
  <2>2. DOMAIN entry' = Inodes /\ entry' = [j \in Inodes |-> entry'[j]]
    BY <1>1, <1>8 DEF Basic
  <2>3. ialloc' \subseteq Inodes /\ leaked' \subseteq Inodes /\ damaged' \in BOOLEAN
    BY <1>1, <1>8 DEF Basic
  <2>4. free' \subseteq Blocks /\ pending' \in Paths
    BY <1>1, <1>4, <1>8, EmptyPath DEF Basic
  <2> QED
    BY <1>7, <2>1, <2>2, <2>3, <2>4 DEF Basic
<1>16. Sound'
  <2>1. ASSUME NEW j \in Inodes
        PROVE  Whole(inode'[j], entry'[j])
    <3>1. CASE j = i
      BY <1>5, <1>7, <1>8, <1>11, <3>1
    <3>2. CASE j # i
      BY <1>1, <1>7, <1>8, <3>2 DEF Sound
    <3> QED
      BY <3>1, <3>2
  <2> QED
    BY <2>1 DEF Sound
<1>17. Unused'
  BY <1>1, <1>8 DEF Unused
<1>18. Links'
  <2>1. ASSUME NEW j \in Inodes \ {0}
        PROVE  inode'[j].d_nlink = 1
    <3>1. inode[j].d_nlink = 1
      BY <1>1 DEF Links
    <3> QED
      BY <1>5, <1>7, <1>13, <3>1
  <2> QED
    BY <2>1 DEF Links
<1>19. Owned'
  <2>1. \A j \in ialloc \ {i} : Owns(j)' = Owns(j)
    BY <1>1, <1>7 DEF Owns, Basic
  <2>2. free' \subseteq free /\ free \ free' = {b}
    BY <1>4
  <2>3. Owns(i)' = Owns(i) \cup (free \ free')
    BY <1>5, <1>7, <1>14, <2>2 DEF Owns
  <2>4. ialloc' = ialloc \cup {i}
    BY <1>3, <1>8
  <2> QED
    BY <1>1, <1>3, <2>1, <2>2, <2>3, <2>4, OwnedTakes
<1>20. EntriesInUse'
  <2>1. Directories' = Directories
    BY <1>1, <1>3, <1>5, <1>7, <1>8, <1>10, <1>13 DEF Directories, Basic
  <2> QED
    BY <1>1, <1>8, <2>1 DEF EntriesInUse
<1> QED
  BY <1>8, <1>15, <1>16, <1>17, <1>18, <1>19, <1>20, ReadyAtRest, InUseAfter

(* unlink deletes the inode at the path and those below it.  As none of     *)
(* them has another entry, an entry that stays names an inode that stays.   *)
LEMMA UnlinkStep ==
  ASSUME TreeInv, NEW path \in Paths \ {<<>>}, Exists(path), UnlinkEntry(path), ~damaged',
         pending' = <<>>, leaked' = leaked
  PROVE  TreeInv'
<1>1. Basic /\ Sound /\ Unused /\ Links /\ Owned /\ EntriesInUse
  BY InUseBefore
<1>2. PICK i, d, p : /\ i = GetInode(path) /\ d = GetInode(Parent(path))
                     /\ p = Min(Named(d, Name(path)))
  OBVIOUS
<1>3. /\ d \in Directories /\ p \in Places(d) /\ i \in ialloc \ {0}
      /\ entry[d][p].m_ino = i
  BY <1>2, TreeParts, EntryAtPath
<1>4. i \in Inodes /\ d \in Inodes /\ d \in ialloc /\ inode[d].type = "DIR"
  BY <1>1, <1>3 DEF Basic, Directories
<1>5. PICK gone : gone = Deleted(i)
  OBVIOUS
<1>6. Below(i, gone)
  <2>1. inode[i].d_nlink = 1
    BY <1>1, <1>3, <1>4 DEF Links
  <2>2. gone = Subtree(i)
    BY <1>5, <2>1 DEF Deleted
  <2> QED
    BY <1>3, <2>2, TreeParts, SubtreeIsBelow
<1>7. i \in gone /\ gone \subseteq ialloc \ {0}
  BY <1>6 DEF Below
<1>8. PICK es, fs : es = entry[d] /\ fs = [es EXCEPT ![p] = Empty]
  OBVIOUS
<1>9. /\ ialloc' = ialloc \ gone /\ free' = free \cup Released(gone)
      /\ damaged' = (damaged \/ \E j \in gone : Cardinality(EntriesOf(j)) > 1)
  BY <1>2, <1>5 DEF UnlinkEntry
<1>10. /\ DOMAIN inode' = Inodes /\ inode' = [j \in Inodes |-> inode'[j]]
       /\ \A j \in Inodes : inode'[j] = IF j \in gone THEN Fresh("DIR") ELSE inode[j]
  <2>1. inode' = [j \in Inodes |->
                    IF j \in gone THEN Fresh("DIR")
                    ELSE IF j = i THEN [inode[j] EXCEPT !.d_nlink = @ - 1]
                    ELSE inode[j]]
    BY <1>2, <1>5 DEF UnlinkEntry
  <2> QED
    BY <1>7, <2>1
<1>11. /\ DOMAIN entry' = Inodes /\ entry' = [j \in Inodes |-> entry'[j]]
       /\ \A j \in Inodes :
            entry'[j] = IF j \in gone THEN <<>> ELSE IF j = d THEN fs ELSE entry[j]
  <2>1. PICK left : left = [entry EXCEPT ![d][p] = Empty]
    OBVIOUS
  <2>2. entry' = [j \in Inodes |-> IF j \in gone THEN <<>> ELSE left[j]]
    BY <1>2, <1>5, <2>1 DEF UnlinkEntry, EntryRemoved
  <2>3. \A j \in Inodes : left[j] = IF j = d THEN fs ELSE entry[j]
    BY <1>1, <1>4, <1>8, <2>1 DEF Basic
  <2> QED
    BY <2>2, <2>3
<1>12. /\ Places(d) = 1 .. Len(es) /\ Len(es) \in Nat /\ Whole(inode[d], es)
  BY <1>1, <1>4, <1>8, DirectoryPlaces
<1>13. Whole(inode[d], fs)
  BY <1>3, <1>4, <1>8, <1>12, RemoveWhole
<1>14. /\ Len(fs) = Len(es)
       /\ \A q \in 1 .. Len(es) : fs[q] = IF q = p THEN Empty ELSE es[q]
  <2>1. es \in Seq(Entry) /\ Empty \in Entry
    BY <1>12, EmptyIsEntry DEF Whole, Filled
  <2> QED
    BY <1>3, <1>8, <1>12, <2>1, SeqReplaced
<1>15. Basic'
  <2>1. 0 \in ialloc /\ 0 \in Inodes /\ inode[0].type = "DIR" /\ 0 \notin gone
    BY <1>1, <1>7 DEF Basic
  <2>2. 0 \in ialloc' /\ inode'[0].type = "DIR"
    BY <1>9, <1>10, <2>1
  <2>3. ialloc' \subseteq Inodes /\ leaked' \subseteq Inodes
    BY <1>1, <1>9 DEF Basic
  <2>4. free' \subseteq Blocks
    <3>1. \A j \in ialloc : Owns(j) \subseteq Blocks
      BY <1>1 DEF Owned
    <3>2. Released(gone) \subseteq Blocks
      BY <1>7, <3>1 DEF Released, BlocksOf, Owns
    <3> QED
      BY <1>1, <1>9, <3>2 DEF Basic
  <2>5. pending' \in Paths /\ damaged' \in BOOLEAN
    BY <1>9, EmptyPath
  <2> QED
    BY <1>10, <1>11, <2>2, <2>3, <2>4, <2>5 DEF Basic
<1>16. Sound'
  <2>1. ASSUME NEW j \in Inodes
        PROVE  Whole(inode'[j], entry'[j])
    <3>1. CASE j \in gone
      <4>1. Whole(Fresh("DIR"), <<>>)
        BY FreshWhole
      <4> QED
        BY <1>10, <1>11, <3>1, <4>1
    <3>2. CASE j \notin gone /\ j = d
      BY <1>10, <1>11, <1>13, <3>2
    <3>3. CASE j \notin gone /\ j # d
      BY <1>1, <1>10, <1>11, <3>3 DEF Sound
    <3> QED
      BY <3>1, <3>2, <3>3
  <2> QED
    BY <2>1 DEF Sound
<1>17. Unused'
  <2>1. ASSUME NEW j \in Inodes \ ialloc'
        PROVE  entry'[j] = <<>>
    BY <1>1, <1>4, <1>9, <1>11 DEF Unused
  <2> QED
    BY <2>1 DEF Unused
<1>18. Links'
  <2>1. Fresh("DIR").d_nlink = 1
    BY FreshOwns
  <2> QED
    BY <1>1, <1>10, <2>1 DEF Links
<1>19. Owned'
  <2>1. \A j \in ialloc' : Owns(j)' = Owns(j) /\ j \in ialloc /\ j \notin gone
    BY <1>1, <1>9, <1>10 DEF Owns, Basic
  <2>2. \A b : b \in free' <=> b \in free \/ \E j \in gone : b \in Owns(j)
    BY <1>9 DEF Released, BlocksOf, Owns
  <2>3. \A b : b \in Blocks <=> b \in free \/ \E j \in ialloc : b \in Owns(j)
    BY <1>1 DEF Owned
  <2>4. ASSUME NEW j \in ialloc', NEW k \in ialloc', j # k
        PROVE  Owns(j)' \cap Owns(k)' = {}
    BY <1>1, <2>1, <2>4 DEF Owned
  <2>5. ASSUME NEW j \in ialloc'
        PROVE  Owns(j)' \cap free' = {}
    <3>1. Owns(j) \cap free = {} /\ \A k \in gone : Owns(j) \cap Owns(k) = {}
      BY <1>1, <1>7, <2>1 DEF Owned
    <3> QED
      BY <2>1, <2>2, <3>1
  <2>6. \A b : b \in Blocks <=> b \in free' \/ \E j \in ialloc' : b \in Owns(j)'
    BY <1>7, <1>9, <2>1, <2>2, <2>3
  <2>7. (UNION {Owns(j)' : j \in ialloc'}) \cup free' = Blocks
    BY <2>6
  <2> QED
    BY <2>4, <2>5, <2>7 DEF Owned
<1>20. ASSUME NEW j \in gone, NEW x \in Directories, NEW q \in Places(x),
              NEW y \in Directories, NEW r \in Places(y),
              entry[x][q].m_ino = j, entry[y][r].m_ino = j
       PROVE  x = y /\ q = r
  <2>1. ~(Cardinality(EntriesOf(j)) > 1)
    BY <1>9
  <2> QED
    BY <1>20, <2>1, TreeParts, OneEntry
<1>21. ASSUME NEW x \in ialloc', inode'[x].type = "DIR",
              NEW q \in 1 .. Len(entry'[x]), entry'[x][q].m_ino # 0
       PROVE  entry'[x][q].m_ino \in ialloc'
  <2>1. x \in ialloc /\ x \in Inodes /\ x \notin gone /\ inode'[x] = inode[x]
    BY <1>1, <1>9, <1>10, <1>21 DEF Basic
  <2>2. x \in Directories /\ inode[x].type = "DIR"
    BY <1>21, <2>1 DEF Directories
  <2>3. Places(x) = 1 .. Len(entry[x])
    BY <1>1, <2>1, <2>2, DirectoryPlaces
  <2>4. q \in Places(x) /\ entry'[x][q] = entry[x][q] /\ ~(x = d /\ q = p)
    <3>1. CASE x = d
      <4>1. entry'[x] = fs
        BY <1>11, <2>1, <3>1
      <4>2. q \in 1 .. Len(es)
        BY <1>14, <4>1
      <4>3. Empty.m_ino = 0
        BY EmptyIsEntry
      <4>4. q # p
        BY <1>14, <1>21, <4>1, <4>2, <4>3
      <4> QED
        BY <1>8, <1>12, <1>14, <3>1, <4>1, <4>2, <4>4
    <3>2. CASE x # d
      <4>1. entry'[x] = entry[x]
        BY <1>11, <2>1, <3>2
      <4> QED
        BY <2>3, <3>2, <4>1
    <3> QED
      BY <3>1, <3>2
  <2>5. PICK j : j = entry[x][q].m_ino
    OBVIOUS
  <2>6. j \in ialloc
    BY <1>1, <1>21, <2>2, <2>3, <2>4, <2>5 DEF EntriesInUse, Targets
  <2>7. j \notin gone
    <3>1. SUFFICES ASSUME j \in gone
                   PROVE  FALSE
      OBVIOUS
    <3>2. CASE j = i
      BY <1>3, <1>20, <2>2, <2>4, <2>5, <3>1, <3>2
    <3>3. CASE j # i
      <4>1. PICK y \in gone : y \in Directories /\ \E r \in Places(y) : entry[y][r].m_ino = j
        BY <1>6, <3>1, <3>3 DEF Below
      <4>2. x = y
        BY <1>20, <2>2, <2>4, <2>5, <3>1, <4>1
      <4> QED
        BY <2>1, <4>1, <4>2
    <3> QED
      BY <3>2, <3>3
  <2> QED
    BY <1>9, <2>4, <2>5, <2>6, <2>7
<1>22. EntriesInUse'
  BY <1>21 DEF EntriesInUse, Directories, Targets
<1> QED
  BY <1>15, <1>16, <1>17, <1>18, <1>19, <1>22, ReadyAtRest, InUseAfter

(* A rename under way still finds what it has to unlink: an entry with a    *)
(* new name leaves every path that leads somewhere as it is.                *)
PlacesAre ==
  Sound => \A d \in Inodes : inode[d].type = "DIR" => Places(d) = 1 .. Len(entry[d])

LEMMA PlacesAreEntries == PlacesAre
BY DirectoryPlaces DEF PlacesAre

LEMMA LookupAdded ==
  ASSUME Basic, Sound, Sound', NEW nodes, NEW d \in Directories, NEW name \in Names, NEW i,
         \A j \in ialloc : nodes[j] = inode[j],
         Named(d, name) = {}, Added(nodes, d, name, i),
         NEW x \in ialloc, NEW other \in Names, ~(x = d /\ other = name)
  PROVE  Lookup(x, other)' = Lookup(x, other)
<1>1. x \in Inodes
  BY DEF Basic
<1>2. CASE x # d
  <2>1. inode'[x] = inode[x] /\ entry'[x] = entry[x]
    BY <1>1, <1>2 DEF Added
  <2>2. Named(x, other)' = Named(x, other)
    BY <2>1 DEF Named, Places, BlockCount
  <2> QED
    BY <2>1, <2>2 DEF Lookup
<1>3. CASE x = d
  <2>1. other # name /\ other # "" /\ inode[d].type = "DIR"
    BY <1>3, NamesAssumption DEF Directories
  <2>2. inode'[d].type = "DIR" /\ Gains(entry[d], entry'[d], EntryOf(i, name))
    BY DEF Added
  <2>3. PICK es, fs, e : es = entry[d] /\ fs = entry'[d] /\ e = EntryOf(i, name)
    OBVIOUS
  <2>4. Places(d) = 1 .. Len(es)
    BY <1>1, <1>3, <2>1, <2>3, PlacesAreEntries DEF PlacesAre
  <2>5. Places(d)' = 1 .. Len(fs)
    <3>1. PlacesAre'
      BY PlacesAreEntries, PTL
    <3> QED
      BY <1>1, <1>3, <2>2, <2>3, <3>1 DEF PlacesAre
  <2>6. /\ Len(es) \in Nat /\ Len(fs) \in Nat /\ Len(es) <= Len(fs)
        /\ \A q \in 1 .. Len(es) : es[q].m_ino # 0 => fs[q] = es[q]
        /\ \A q \in 1 .. Len(fs) :
             fs[q].m_ino # 0 => fs[q] = e \/ (q \in 1 .. Len(es) /\ fs[q] = es[q])
    BY <2>2, <2>3 DEF Gains
  <2>7. Filled(es) /\ Filled(fs)
    BY <1>1, <1>3, <2>3 DEF Sound, Whole
  <2>8. e.m_name = name
    BY <2>3 DEF EntryOf
  <2>9. ASSUME NEW q \in Places(d), es[q].m_name = other
        PROVE  q \in 1 .. Len(fs) /\ fs[q] = es[q]
    <3>1. q \in 1 .. Len(es)
      BY <2>4
    <3>2. es[q].m_ino # 0
      BY <2>1, <2>7, <2>9, <3>1 DEF Filled
    <3> QED
      BY <2>6, <3>1, <3>2
  <2>10. ASSUME NEW q \in 1 .. Len(fs), fs[q].m_name = other
         PROVE  q \in Places(d) /\ fs[q] = es[q]
    <3>1. fs[q].m_ino # 0
      BY <2>1, <2>7, <2>10 DEF Filled
    <3>2. fs[q] # e
      BY <2>1, <2>8, <2>10
    <3> QED
      BY <2>4, <2>6, <3>1, <3>2
  <2>11. Named(d, other)' = Named(d, other)
    BY <2>3, <2>5, <2>9, <2>10 DEF Named
  <2>12. CASE Named(d, other) = {}
    BY <1>3, <2>11, <2>12 DEF Lookup
  <2>13. CASE Named(d, other) # {}
    <3>1. PICK p \in Named(d, other) : p = Min(Named(d, other))
      <4>1. Named(d, other) \subseteq Nat
        BY <2>4, <2>6 DEF Named
      <4> QED
        BY <2>13, <4>1, MinIs
    <3>2. fs[p] = es[p]
      BY <2>3, <2>9, <3>1 DEF Named
    <3>3. Lookup(d, other) = {es[p].m_ino}
      BY <2>1, <2>3, <2>13, <3>1 DEF Lookup
    <3>4. Lookup(d, other)' = {fs[p].m_ino}
      BY <2>2, <2>3, <2>11, <2>13, <3>1 DEF Lookup
    <3> QED
      BY <1>3, <3>2, <3>3, <3>4
  <2> QED
    BY <2>12, <2>13
<1> QED
  BY <1>2, <1>3

LEMMA FoundKept ==
  ASSUME TreeInv, Sound', NEW nodes, NEW d \in Directories, NEW name \in Names, NEW i,
         \A j \in ialloc : nodes[j] = inode[j],
         Named(d, name) = {}, Added(nodes, d, name, i)
  PROVE  \A path \in Paths : Exists(path) => Found(path)' = Found(path)
<1> DEFINE Bad == {n \in Nat : \E path \in Paths :
                     Len(path) = n /\ Exists(path) /\ Found(path)' # Found(path)}
<1>1. Bad = {}
  <2>1. SUFFICES ASSUME Bad # {}
                 PROVE  FALSE
    OBVIOUS
  <2>2. PICK n \in Bad : \A m \in Bad : n <= m
    <3>1. Bad \subseteq Nat
      OBVIOUS
    <3> HIDE DEF Bad
    <3> QED
      BY <2>1, <3>1, LeastNumber
  <2>3. PICK path \in Paths : Len(path) = n /\ Exists(path) /\ Found(path)' # Found(path)
    OBVIOUS
  <2>4. PathsFound'
    BY FoundStep, PTL
  <2>5. path # <<>>
    <3>1. Found(<<>>) = {0}
      BY FoundStep DEF PathsFound
    <3>2. Found(<<>>)' = {0}
      BY <2>4 DEF PathsFound
    <3> QED
      BY <2>3, <3>1, <3>2
  <2>6. PICK q \in Paths, other \in Names :
          /\ q = Front(path) /\ other = Last(path) /\ Len(q) = n - 1 /\ n - 1 \in Nat
    BY <2>3, <2>5, PathParts
  <2>7. Found(path) = After(Found(q), other)
    BY <2>5, <2>6, FoundStep DEF PathsFound
  <2>8. Found(path)' = UNION {Lookup(x, other)' : x \in Found(q)'}
    BY <2>4, <2>5, <2>6 DEF PathsFound, After
  <2>9. Exists(q)
    BY <2>3, <2>7 DEF Exists, After
  <2>10. PICK x \in ialloc : Found(q) = {x}
    BY <2>9, TreeParts, ThingAtPath
  <2>11. Found(q)' = {x}
    <3>1. n - 1 \notin Bad
      <4>1. ~(n <= n - 1)
        BY <2>6
      <4> HIDE DEF Bad
      <4> QED
        BY <2>2, <4>1
    <3> QED
      BY <2>6, <2>9, <2>10, <3>1
  <2>12. Found(path) = Lookup(x, other) /\ Found(path)' = Lookup(x, other)'
    BY <2>7, <2>8, <2>10, <2>11 DEF After
  <2>13. Lookup(x, other) # {}
    BY <2>3, <2>12 DEF Exists
  <2>14. Lookup(x, other)' = Lookup(x, other)
    <3>1. Basic /\ Sound
      BY DEF TreeInv
    <3>2. ~(x = d /\ other = name)
      BY <2>13 DEF Lookup
    <3> QED
      BY <3>1, <3>2, LookupAdded
  <2> QED
    BY <2>3, <2>12, <2>14
<1>2. ASSUME NEW path \in Paths, Exists(path)
      PROVE  Found(path)' = Found(path)
  <2>1. Len(path) \in Nat
    BY PathParts, NamespaceAssumption
  <2> QED
    BY <1>1, <1>2, <2>1
<1> QED
  BY <1>2

LEMMA RenameStep ==
  ASSUME TreeInv, NEW src \in Taken, NEW dst \in Vacant, Rename(src, dst)
  PROVE  TreeInv'
<1>1. Basic /\ Sound /\ Unused /\ Links /\ Owned /\ EntriesInUse
  BY InUseBefore
<1>2. PICK i : i = GetInode(src)
  OBVIOUS
<1>3. src \in Paths /\ src # <<>> /\ Exists(src)
  BY DEF Taken, Rename
<1>4. i \in ialloc /\ i # 0 /\ i \in Inodes
  <2>1. i \in ialloc \ {0}
    BY <1>2, <1>3, TreeParts, EntryAtPath
  <2> QED
    BY <1>1, <2>1 DEF Basic
<1>5. PICK d, name : d = GetInode(Parent(dst)) /\ name = Name(dst)
  OBVIOUS
<1>6. d \in Directories /\ name \in Names /\ Named(d, name) = {}
  BY <1>5, TreeParts, VacantPath
<1>7. Added(inode, d, name, i)
  <2>1. AddToDir(inode, d, name, i)
    BY <1>2, <1>5 DEF Rename
  <2>2. inode = [j \in Inodes |-> inode[j]]
    BY <1>1 DEF Basic
  <2> QED
    BY <1>1, <1>4, <1>6, <2>1, <2>2, AddedEntry
<1>8. ialloc' = ialloc /\ pending' = src /\ leaked' = leaked /\ damaged' = damaged
  BY DEF Rename
<1>9. Taking(inode, i)
  BY <1>1, <1>3, <1>4, <1>8 DEF Taking, Basic
<1>10. Basic' /\ Sound' /\ Unused' /\ Links' /\ Owned' /\ EntriesInUse'
  BY <1>1, <1>4, <1>6, <1>7, <1>9, AddedKeeps
<1>11. Ready'
  <2>1. Found(src)' = Found(src) /\ Found(src) # {}
    BY <1>3, <1>6, <1>7, <1>10, FoundKept DEF Exists
  <2>2. Exists(src)'
    BY <2>1 DEF Exists
  <2>3. Exists(pending)' <=> Exists(src)'
    BY <1>8 DEF Exists, Found, Lookup, Named, Places, BlockCount
  <2> QED
    BY <2>2, <2>3 DEF Ready
<1> QED
  BY <1>10, <1>11, InUseAfter
-----------------------------------------------------------------------------
LEMMA InitTree == Init => TreeInv
<1>1. SUFFICES ASSUME Init
               PROVE  TreeInv
  OBVIOUS
<1>2. /\ inode = [i \in Inodes |-> [Fresh("DIR") EXCEPT !.d_nlink = IF i = 0 THEN 0 ELSE 1]]
      /\ ialloc = {0} /\ entry = [i \in Inodes |-> <<>>] /\ free = Blocks
      /\ pending = <<>> /\ leaked = {} /\ damaged = FALSE
  BY <1>1 DEF Init
<1>3. 0 \in Inodes
  BY NamespaceAssumption DEF Inodes
<1>4. PICK node : node = Fresh("DIR")
  OBVIOUS
<1>5. PICK root : root = [node EXCEPT !.d_nlink = 0]
  OBVIOUS
<1>6. node = [type |-> "DIR", d_nlink |-> 1, d_size |-> 0, blocks |-> <<>>]
  BY <1>4 DEF Fresh
<1>7. root = [type |-> "DIR", d_nlink |-> 0, d_size |-> 0, blocks |-> <<>>]
  BY <1>5, <1>6
<1>8. \A i \in Inodes : inode[i] = IF i = 0 THEN root ELSE node
  BY <1>2, <1>4, <1>5, <1>6, <1>7
<1>9. Whole(node, <<>>)
  BY <1>4, FreshWhole
<1>10. Whole(root, <<>>)
  <2>1. root \in Node
    <3>1. node \in Node
      BY <1>9 DEF Whole, Listed
    <3> QED
      BY <1>6, <1>7, <3>1 DEF Node
  <2>2. root.type = node.type /\ root.d_size = node.d_size /\ root.blocks = node.blocks
    BY <1>6, <1>7
  <2> QED
    BY <1>9, <2>1, <2>2 DEF Whole, Listed, Fits, Count
<1>11. Basic
  <2>1. DOMAIN inode = Inodes /\ inode = [i \in Inodes |-> inode[i]]
    BY <1>2
  <2>2. DOMAIN entry = Inodes /\ entry = [i \in Inodes |-> entry[i]]
    BY <1>2
  <2>3. inode[0].type = "DIR"
    BY <1>3, <1>7, <1>8
  <2>4. pending \in Paths
    BY <1>2, EmptyPath
  <2> QED
    BY <1>2, <1>3, <2>1, <2>2, <2>3, <2>4 DEF Basic
<1>12. Sound /\ Unused
  BY <1>2, <1>8, <1>9, <1>10 DEF Sound, Unused
<1>13. Links
  BY <1>6, <1>8 DEF Links
<1>14. Owned
  <2>1. Owns(0) = {}
    BY <1>3, <1>7, <1>8 DEF Owns, Range
  <2> QED
    BY <1>2, <2>1 DEF Owned
<1>15. EntriesInUse
  BY <1>2, <1>3, NoTargets DEF EntriesInUse, Directories
<1>16. DeletedWithLastLink
  BY <1>11, <1>12, <1>15, DanglingIsTargets DEF DanglingIs, Basic
<1>17. Ready
  BY <1>2 DEF Ready
<1> QED
  BY <1>11, <1>12, <1>13, <1>14, <1>16, <1>17 DEF TreeInv

(* What is found one name further on.                                       *)
LEMMA FoundNext ==
  ASSUME NEW q \in Paths \ {<<>>}
  PROVE  /\ Front(q) \in Paths /\ Last(q) \in Names /\ Len(q) \in Nat
         /\ Len(Front(q)) = Len(q) - 1 /\ Len(q) - 1 \in Nat
         /\ Found(Front(q)) = {} => Found(q) = {}
         /\ \A x : Found(Front(q)) = {x} => Found(q) = Lookup(x, Last(q))
<1>1. Found(q) = After(Found(Front(q)), Last(q))
  BY FoundStep DEF PathsFound
<1>2. /\ Front(q) \in Paths /\ Last(q) \in Names /\ Len(q) \in Nat
      /\ Len(Front(q)) = Len(q) - 1 /\ Len(q) - 1 \in Nat
  BY PathParts, NamespaceAssumption
<1>3. Found(Front(q)) = {} => Found(q) = {}
  BY <1>1 DEF After
<1>4. \A x : Found(Front(q)) = {x} => Found(q) = Lookup(x, Last(q))
  BY <1>1 DEF After
<1> QED
  BY <1>2, <1>3, <1>4

(* Where every lookup in an inode in use gives what it gave, so do paths.   *)
LEMMA FoundAlike ==
  ASSUME TreeInv, \A x \in ialloc, name \in Names : Lookup(x, name)' = Lookup(x, name)
  PROVE  \A q \in Paths : Found(q)' = Found(q)
<1> DEFINE Bad == {n \in Nat : \E q \in Paths : Len(q) = n /\ Found(q)' # Found(q)}
<1>1. Bad = {}
  <2>1. SUFFICES ASSUME Bad # {}
                 PROVE  FALSE
    OBVIOUS
  <2>2. PICK n \in Bad : \A m \in Bad : n <= m
    <3>1. Bad \subseteq Nat
      OBVIOUS
    <3> HIDE DEF Bad
    <3> QED
      BY <2>1, <3>1, LeastNumber
  <2>3. PICK q \in Paths : Len(q) = n /\ Found(q)' # Found(q)
    OBVIOUS
  <2>4. PathsFound'
    BY FoundStep, PTL
  <2>5. q # <<>>
    <3>1. Found(<<>>) = {0}
      BY FoundStep DEF PathsFound
    <3>2. Found(<<>>)' = {0}
      BY <2>4 DEF PathsFound
    <3> QED
      BY <2>3, <3>1, <3>2
  <2>6. PICK r \in Paths, name \in Names :
          r = Front(q) /\ name = Last(q) /\ Len(r) = n - 1 /\ n - 1 \in Nat
    BY <2>3, <2>5, FoundNext
  <2>7. Found(q)' = UNION {Lookup(x, name)' : x \in Found(r)'}
    BY <2>4, <2>5, <2>6 DEF PathsFound, After
  <2>8. Found(r)' = Found(r)
    <3>1. n - 1 \notin Bad
      <4>1. ~(n <= n - 1)
        BY <2>6
      <4> HIDE DEF Bad
      <4> QED
        BY <2>2, <4>1
    <3> QED
      BY <2>6, <3>1
  <2>9. CASE Found(r) = {}
    BY <2>3, <2>5, <2>6, <2>7, <2>8, <2>9, FoundNext
  <2>10. CASE Found(r) # {}
    <3>1. PICK x \in ialloc : Found(r) = {x}
      BY <2>10, TreeParts, ThingAtPath DEF Exists
    <3>2. Found(q) = Lookup(x, name) /\ Found(q)' = Lookup(x, name)'
      BY <2>5, <2>6, <2>7, <2>8, <3>1, FoundNext
    <3> QED
      BY <2>3, <3>1, <3>2
  <2> QED
    BY <2>9, <2>10
<1>2. ASSUME NEW q \in Paths
      PROVE  Found(q)' = Found(q)
  <2>1. Len(q) \in Nat
    BY PathParts, NamespaceAssumption
  <2> QED
    BY <1>1, <2>1
<1> QED
  BY <1>2

LEMMA NextTree == TreeInv /\ [Next]_vars /\ ~damaged' => TreeInv'
<1>1. SUFFICES ASSUME TreeInv, [Next]_vars, ~damaged'
               PROVE  TreeInv'
  OBVIOUS
<1>2. ASSUME pending = <<>>, NEW path \in Vacant, NEW type \in {"FILE", "DIR"},
             Create(path, type) \/ CreateFails(path, type)
      PROVE  TreeInv'
  BY <1>1, <1>2, CreateStep, CreateFailsStep
<1>3. ASSUME pending = <<>>, NEW path \in Taken, Unlink(path)
      PROVE  TreeInv'
  <2>1. path \in Paths \ {<<>>} /\ Exists(path)
    BY <1>3 DEF Taken, Unlink
  <2>2. UnlinkEntry(path) /\ pending' = <<>> /\ leaked' = leaked
    BY <1>3 DEF Unlink
  <2> QED
    BY <1>1, <2>1, <2>2, UnlinkStep
<1>4. ASSUME pending = <<>>, NEW path \in Taken, AppendBlock(path)
      PROVE  TreeInv'
  BY <1>1, <1>4, AppendBlockStep
<1>5. ASSUME pending = <<>>, NEW src \in Taken, NEW dst \in Vacant,
             Link(src, dst) \/ Rename(src, dst)
      PROVE  TreeInv'
  BY <1>1, <1>5, LinkStep, RenameStep
<1>6. ASSUME EndRename
      PROVE  TreeInv'
  <2>1. pending # <<>> /\ UnlinkEntry(pending) /\ pending' = <<>> /\ leaked' = leaked
    BY <1>6 DEF EndRename
  <2>2. PICK path \in Paths \ {<<>>} : path = pending
    BY <1>1, <2>1 DEF TreeInv, Basic
  <2>3. Exists(path) /\ UnlinkEntry(path)
    BY <1>1, <2>1, <2>2 DEF TreeInv, Ready
  <2> QED
    BY <1>1, <2>1, <2>3, UnlinkStep
<1>7. ASSUME UNCHANGED vars
      PROVE  TreeInv'
  <2>1. UNCHANGED <<inode, ialloc, entry, free, pending, leaked, damaged>>
    BY <1>7 DEF vars
  <2>2. Basic' /\ Sound' /\ Unused' /\ Links'
    BY <1>1, <2>1 DEF TreeInv, Basic, Sound, Unused, Links
  <2>3. Owned'
    BY <1>1, <2>1 DEF TreeInv, Owned, Owns
  <2>4. DeletedWithLastLink'
    BY <1>1, <2>1 DEF TreeInv, DeletedWithLastLink, Directories, Places, Holes, BlockCount
  <2>5. Ready'
    <3>1. \A d \in ialloc, name \in Names : Lookup(d, name)' = Lookup(d, name)
      BY <2>1 DEF Lookup, Named, Places, BlockCount
    <3>2. Found(pending)' = Found(pending)
      <4>1. \A path \in Paths : Found(path)' = Found(path)
        BY <1>1, <3>1, FoundAlike
      <4>2. PICK path \in Paths : path = pending
        BY <1>1 DEF TreeInv, Basic
      <4>3. Found(pending)' = Found(path)'
        BY <2>1, <4>2 DEF Found, Lookup, Named, Places, BlockCount
      <4> QED
        BY <4>1, <4>2, <4>3
    <3> QED
      BY <1>1, <2>1, <3>2 DEF TreeInv, Ready, Exists
  <2> QED
    BY <2>2, <2>3, <2>4, <2>5 DEF TreeInv
<1> QED
  BY <1>1, <1>2, <1>3, <1>4, <1>5, <1>6, <1>7 DEF Next

(* An inode once deleted while it had another entry stays on record.        *)
LEMMA DamageStays ==
  [Next]_vars /\ damaged \in BOOLEAN => damaged' \in BOOLEAN /\ (damaged => damaged')
<1>1. SUFFICES ASSUME [Next]_vars, damaged \in BOOLEAN
               PROVE  damaged' \in BOOLEAN /\ (damaged => damaged')
  OBVIOUS
<1>2. CASE UNCHANGED vars
  BY <1>1, <1>2 DEF vars
<1>3. CASE Next
  <2>1. damaged' = damaged \/ \E path : UnlinkEntry(path)
    BY <1>3 DEF Next, Create, CreateFails, Unlink, AppendBlock, Link, Rename, EndRename
  <2>2. ASSUME NEW path, UnlinkEntry(path)
        PROVE  damaged' \in BOOLEAN /\ (damaged => damaged')
    BY <2>2 DEF UnlinkEntry
  <2> QED
    BY <1>1, <2>1, <2>2
<1> QED
  BY <1>1, <1>2, <1>3

(* The invariant of create, unlink, link, rename and writes, on a tree of   *)
(* any size and depth, as long as no inode with another entry was deleted.  *)
THEOREM NameInvariant == Spec => []NameInv
<1>1. Init => NameInv
  BY InitTree DEF NameInv, Init
<1>2. NameInv /\ [Next]_vars => NameInv'
  <2>1. SUFFICES ASSUME NameInv, [Next]_vars
                 PROVE  NameInv'
    OBVIOUS
  <2>2. damaged' \in BOOLEAN /\ (damaged => damaged')
    BY <2>1, DamageStays DEF NameInv
  <2>3. ~damaged' => TreeInv'
    BY <2>1, <2>2, NextTree DEF NameInv
  <2> QED
    BY <2>2, <2>3 DEF NameInv
<1> QED
  BY <1>1, <1>2, PTL DEF Spec

(* The types of inodes, entries, free list and paths, as long as no inode   *)
(* was deleted that had another entry.                                      *)
THEOREM TypesHold == Spec => [](~damaged => TypeOK)
<1>1. NameInv /\ ~damaged => TypeOK
  <2>1. SUFFICES ASSUME Basic, Sound
                 PROVE  TypeOK
    BY DEF NameInv, TreeInv
  <2>2. inode \in [Inodes -> Node]
    <3>1. \A i \in Inodes : inode[i] \in Node
      BY <2>1 DEF Sound, Whole, Listed
    <3> QED
      BY <2>1, <3>1 DEF Basic
  <2>3. entry \in [Inodes -> Seq(Entry)]
    <3>1. \A i \in Inodes : entry[i] \in Seq(Entry)
      BY <2>1 DEF Sound, Whole, Filled
    <3> QED
      BY <2>1, <3>1 DEF Basic
  <2> QED
    BY <2>1, <2>2, <2>3 DEF TypeOK, Basic, Node, Entry
<1> QED
  BY <1>1, NameInvariant, PTL

(* A directory never holds a name twice, wherever removals left holes.      *)
LEMMA AtMostOne ==
  ASSUME NEW S, \A x, y \in S : x = y
  PROVE  Cardinality(S) <= 1
<1>1. CASE S = {}
  BY <1>1, FS_EmptySet
<1>2. CASE S # {}
  <2>1. PICK x : S = {x}
    BY <1>2
  <2>2. Cardinality(S) = 1
    BY <2>1, FS_Singleton
  <2> QED
    BY <2>2
<1> QED
  BY <1>1, <1>2

(* disk.py:211, 266: a directory never holds a name twice, wherever         *)
(* removals left holes.                                                     *)
THEOREM NamesAreUnique == Spec => []NamesUnique
<1>1. NameInv => NamesUnique
  <2>1. SUFFICES ASSUME Basic, Sound, NEW d \in Directories, NEW name \in Names
                 PROVE  Cardinality(Named(d, name)) <= 1
    BY DEF NameInv, TreeInv, NamesUnique, Named
  <2>2. d \in Inodes /\ inode[d].type = "DIR"
    BY <2>1 DEF Basic, Directories
  <2>3. Places(d) = 1 .. Len(entry[d]) /\ Filled(entry[d]) /\ name # ""
    <3>1. Places(d) = 1 .. Len(entry[d]) /\ Whole(inode[d], entry[d])
      BY <2>1, <2>2, DirectoryPlaces
    <3> QED
      BY <2>1, <3>1, NamesAssumption DEF Whole
  <2>4. \A p, q \in Named(d, name) : p = q
    BY <2>3 DEF Named, Filled
  <2> QED
    BY <2>4, AtMostOne
<1> QED
  BY <1>1, NameInvariant, PTL

(* inode.py:24: the size of an inode says as many blocks as its list has,   *)
(* through every hole filled and every block started.                       *)
THEOREM SizesMatch == Spec => []SizeMatchesBlocks
<1>1. NameInv => SizeMatchesBlocks
  <2>1. SUFFICES ASSUME Basic, Sound, NEW i \in ialloc
                 PROVE  Len(inode[i].blocks) = BlockCount(i)
    BY DEF NameInv, TreeInv, SizeMatchesBlocks
  <2>2. Listed(inode[i])
    BY <2>1 DEF Basic, Sound, Whole
  <2> QED
    BY <2>2 DEF Listed, Count, BlockCount
<1> QED
  BY <1>1, NameInvariant, PTL

(* Every block is free or has one owner, once, however trees are removed.   *)
LEMMA RangeSize ==
  ASSUME NEW s \in Seq(Blocks), \A k, l \in 1 .. Len(s) : s[k] = s[l] => k = l
  PROVE  Cardinality(Range(s)) = Len(s)
<1>1. PICK m \in Nat : m = Len(s) /\ DOMAIN s = 1 .. m
  BY LenProperties
<1>2. IsFiniteSet(1 .. m) /\ Cardinality(1 .. m) = m
  <2>1. m < 1 => m = 0
    OBVIOUS
  <2> QED
    BY <2>1, FS_Interval
<1>3. s \in Bijection(1 .. m, Range(s))
  <2>1. s \in [1 .. m -> Range(s)]
    BY <1>1 DEF Range
  <2>2. \A t \in Range(s) : \E k \in 1 .. m : s[k] = t
    BY <1>1 DEF Range
  <2>3. \A k, l \in 1 .. m : s[k] = s[l] => k = l
    BY <1>1
  <2> QED
    BY <1>1, <2>1, <2>2, <2>3 DEF Bijection, Injection, Surjection, IsInjective
<1>4. ExistsBijection(1 .. m, Range(s))
  BY <1>3 DEF ExistsBijection
<1>5. Cardinality(Range(s)) = Cardinality(1 .. m)
  BY <1>2, <1>4, FS_Bijection
<1> QED
  BY <1>1, <1>2, <1>5

(* Every block is free or belongs to one inode in use, however deep the     *)
(* trees that unlink removes.                                               *)
THEOREM BlocksHaveOneOwner == Spec => []BlocksOwnedOnce
<1>1. NameInv => BlocksOwnedOnce
  <2>1. SUFFICES ASSUME Basic, Sound, Owned, ~damaged
                 PROVE  BlocksOwnedOnce
    BY DEF NameInv, TreeInv, BlocksOwnedOnce
  <2>2. \A i : BlocksOf({i}) = Owns(i)
    BY DEF BlocksOf, Owns
  <2>3. \A i, j \in ialloc : i # j => BlocksOf({i}) \cap BlocksOf({j}) = {}
    BY <2>1, <2>2 DEF Owned
  <2>4. ASSUME NEW i \in ialloc
        PROVE  Cardinality(BlocksOf({i})) = Len(inode[i].blocks)
    <3>1. Listed(inode[i])
      BY <2>1 DEF Basic, Sound, Whole
    <3>2. PICK s : s = inode[i].blocks
      OBVIOUS
    <3>3. s \in Seq(Blocks) /\ \A k, l \in 1 .. Len(s) : s[k] = s[l] => k = l
      BY <3>1, <3>2 DEF Listed, Node
    <3> QED
      BY <2>2, <3>2, <3>3, RangeSize DEF Owns
  <2>5. BlocksOf(ialloc) = UNION {Owns(i) : i \in ialloc}
    BY DEF BlocksOf, Owns
  <2>6. BlocksOf(ialloc) \cap free = {}
    BY <2>1, <2>5 DEF Owned
  <2>7. BlocksOf(ialloc) \cup free = Blocks
    BY <2>1, <2>5 DEF Owned
  <2> QED
    BY <2>3, <2>4, <2>6, <2>7 DEF BlocksOwnedOnce
<1> QED
  BY <1>1, NameInvariant, PTL

(* disk.py:236: every entry names an inode in use, until one is deleted     *)
(* that another entry names, for link does not count.                       *)
THEOREM EntriesNameInodes == Spec => []NoDanglingEntry
<1>1. NameInv => NoDanglingEntry
  BY DEF NameInv, TreeInv, NoDanglingEntry
<1> QED
  BY <1>1, NameInvariant, PTL
-----------------------------------------------------------------------------
(* What the invariant adds about the tree: an inode in use that no create   *)
(* lost has a path, and only the inode that a rename is about to unlink may *)
(* have two entries if it is a directory.                                   *)
Alone(j) ==
  \A d, e \in Directories : \A p \in Places(d), q \in Places(e) :
    entry[d][p].m_ino = j /\ entry[e][q].m_ino = j => d = e /\ p = q

Placed == \A i \in ialloc \ leaked : \E path \in Paths : Found(path) = {i}
Single == \A j \in Directories \ {0} : Alone(j) \/ (pending # <<>> /\ j = GetInode(pending))

LEMMA AloneIs ==
  ASSUME Sound, ialloc \subseteq Inodes, NEW j, ~(Cardinality(EntriesOf(j)) > 1)
  PROVE  Alone(j)
BY OneEntry DEF Alone

(* Prefixes of paths, name by name and from the parent on.                  *)
Leads(path, q) == Len(path) <= Len(q) /\ \A k \in 1 .. Len(path) : path[k] = q[k]

LEMMA PrefixIsLeads ==
  ASSUME NEW path \in Paths, NEW q \in Paths
  PROVE  IsPrefix(path, q) <=> Leads(path, q)
<1>1. path \in Seq(Names) /\ q \in Seq(Names) /\ Len(path) \in Nat /\ Len(q) \in Nat
  BY PathParts, NamespaceAssumption
<1>2. SUFFICES ASSUME Len(path) <= Len(q)
               PROVE  IsPrefix(path, q) <=> Leads(path, q)
  BY DEF IsPrefix, Leads
<1>3. PICK m \in Nat : m = Len(path)
  BY <1>1
<1>4. PICK a, b : a = SubSeq(path, 1, m) /\ b = SubSeq(q, 1, m)
  OBVIOUS
<1>5. /\ a \in Seq(Names) /\ Len(a) = m /\ \A k \in 1 .. m : a[k] = path[k]
  <2>1. \A k \in 1 .. m : path[k] \in Names
    BY <1>1, <1>3, ElementOfSeq
  <2>2. 1 \in Int /\ m \in Int
    BY <1>3
  <2>3. /\ SubSeq(path, 1, m) \in Seq(Names)
        /\ Len(SubSeq(path, 1, m)) = IF 1 <= m THEN m - 1 + 1 ELSE 0
        /\ \A k \in 1 .. m - 1 + 1 : SubSeq(path, 1, m)[k] = path[1 + k - 1]
    BY <2>1, <2>2, SubSeqProperties
  <2>4. \A k \in 1 .. m : k \in 1 .. m - 1 + 1 /\ 1 + k - 1 = k
    BY <1>3
  <2> QED
    BY <1>3, <1>4, <2>3, <2>4
<1>6. /\ b \in Seq(Names) /\ Len(b) = m /\ \A k \in 1 .. m : b[k] = q[k]
  <2>1. \A k \in 1 .. m : q[k] \in Names
    BY <1>1, <1>2, <1>3, ElementOfSeq
  <2>2. 1 \in Int /\ m \in Int
    BY <1>3
  <2>3. /\ SubSeq(q, 1, m) \in Seq(Names)
        /\ Len(SubSeq(q, 1, m)) = IF 1 <= m THEN m - 1 + 1 ELSE 0
        /\ \A k \in 1 .. m - 1 + 1 : SubSeq(q, 1, m)[k] = q[1 + k - 1]
    BY <2>1, <2>2, SubSeqProperties
  <2>4. \A k \in 1 .. m : k \in 1 .. m - 1 + 1 /\ 1 + k - 1 = k
    BY <1>3
  <2> QED
    BY <1>3, <1>4, <2>3, <2>4
<1>7. a = b <=> \A k \in 1 .. m : path[k] = q[k]
  BY <1>5, <1>6, SeqEqual
<1> QED
  BY <1>2, <1>3, <1>4, <1>7 DEF IsPrefix, Leads

(* Paths that end below path, and those that do not.                        *)
LEMMA PrefixSteps ==
  ASSUME NEW path \in Paths \ {<<>>}
  PROVE  /\ IsPrefix(path, path) /\ ~IsPrefix(path, <<>>)
         /\ \A q \in Paths \ {<<>>} :
              /\ IsPrefix(path, Front(q)) => IsPrefix(path, q)
              /\ IsPrefix(path, q) => path = q \/ IsPrefix(path, Front(q))
              /\ Front(path) = Front(q) /\ Last(path) = Last(q) => path = q
<1>1. PICK m \in Nat : m = Len(path) /\ m > 0 /\ m <= MAX_DEPTH /\ path \in Seq(Names)
  BY PathParts, NamespaceAssumption
<1>2. Leads(path, path)
  BY <1>1 DEF Leads
<1>3. <<>> \in Paths /\ ~Leads(path, <<>>)
  BY <1>1, EmptyPath DEF Leads
<1>4. ASSUME NEW q \in Paths \ {<<>>}
      PROVE  /\ IsPrefix(path, Front(q)) => IsPrefix(path, q)
             /\ IsPrefix(path, q) => path = q \/ IsPrefix(path, Front(q))
             /\ Front(path) = Front(q) /\ Last(path) = Last(q) => path = q
  <2>1. PICK n \in Nat, r \in Paths :
          /\ n = Len(q) /\ n > 0 /\ r = Front(q) /\ Len(r) = n - 1 /\ q \in Seq(Names)
          /\ \A k \in 1 .. n - 1 : r[k] = q[k]
    BY PathParts, NamespaceAssumption
  <2>2. Leads(path, r) => Leads(path, q)
    BY <1>1, <2>1 DEF Leads
  <2>3. Leads(path, q) /\ path # q => Leads(path, r)
    <3>1. SUFFICES ASSUME Leads(path, q), path # q
                   PROVE  Leads(path, r)
      OBVIOUS
    <3>2. m <= n /\ \A k \in 1 .. m : path[k] = q[k]
      BY <1>1, <2>1, <3>1 DEF Leads
    <3>3. m # n
      BY <1>1, <2>1, <3>1, <3>2, SeqEqual
    <3>4. m <= n - 1 /\ \A k \in 1 .. m : k \in 1 .. n - 1
      BY <3>2, <3>3
    <3> QED
      BY <1>1, <2>1, <3>2, <3>4 DEF Leads
  <2>4. Front(path) = r /\ Last(path) = Last(q) => path = q
    <3>1. SUFFICES ASSUME Front(path) = r, Last(path) = Last(q)
                   PROVE  path = q
      OBVIOUS
    <3>2. Len(Front(path)) = m - 1 /\ \A k \in 1 .. m - 1 : Front(path)[k] = path[k]
      BY <1>1, PathParts
    <3>3. m = n
      BY <1>1, <2>1, <3>1, <3>2
    <3>4. path[m] = q[m]
      BY <1>1, <2>1, <3>1, <3>3 DEF Last
    <3>5. \A k \in 1 .. m : path[k] = q[k]
      <4>1. ASSUME NEW k \in 1 .. m
            PROVE  path[k] = q[k]
        <5>1. CASE k = m
          BY <3>4, <5>1
        <5>2. CASE k # m
          <6>1. k \in 1 .. m - 1
            BY <5>2
          <6> QED
            BY <2>1, <3>1, <3>2, <3>3, <6>1
        <5> QED
          BY <5>1, <5>2
      <4> QED
        BY <4>1
    <3> QED
      BY <1>1, <2>1, <3>3, <3>5, SeqEqual
  <2> QED
    BY <2>1, <2>2, <2>3, <2>4, PrefixIsLeads
<1> QED
  BY <1>2, <1>3, <1>4, PrefixIsLeads
-----------------------------------------------------------------------------
(* What leads to an inode: its parent, and the entry there.                 *)
StepTo(q, x, s, y) ==
  /\ x \in Directories /\ Found(Front(q)) = {x}
  /\ s \in Places(x) /\ s = Min(Named(x, Last(q)))
  /\ entry[x][s].m_name = Last(q) /\ entry[x][s].m_ino = y
  /\ y \in ialloc \ {0} /\ Lookup(x, Last(q)) = {y}

LEMMA LastStep ==
  ASSUME TreeInv, NEW q \in Paths \ {<<>>}, NEW y, Found(q) = {y}
  PROVE  \E x, s : StepTo(q, x, s, y)
<1>1. PICK r \in Paths, name \in Names : r = Front(q) /\ name = Last(q)
  BY PathParts
<1>2. Found(q) = After(Found(r), name)
  BY <1>1, FoundStep DEF PathsFound
<1>3. Exists(r)
  BY <1>2 DEF Exists, After
<1>4. PICK x \in ialloc : Found(r) = {x}
  BY <1>3, TreeParts, ThingAtPath
<1>5. Lookup(x, name) = {y}
  BY <1>2, <1>4 DEF After
<1>6. LookupSound(x, name)
  BY TreeParts, LookupIs
<1>7. PICK s \in Places(x) :
        /\ inode[x].type = "DIR" /\ s = Min(Named(x, name)) /\ entry[x][s].m_name = name
        /\ entry[x][s].m_ino \in ialloc \ {0}
        /\ Lookup(x, name) = {entry[x][s].m_ino}
  BY <1>5, <1>6 DEF LookupSound
<1>8. entry[x][s].m_ino = y
  BY <1>5, <1>7
<1>9. StepTo(q, x, s, y)
  BY <1>1, <1>4, <1>5, <1>7, <1>8 DEF StepTo, Directories
<1> QED
  BY <1>9

(* The root has no entry, so no other path leads to it.                     *)
LEMMA RootHasNoEntry ==
  ASSUME TreeInv, NEW q \in Paths, Found(q) = {0}
  PROVE  q = <<>>
<1>1. SUFFICES ASSUME q # <<>>
               PROVE  FALSE
  OBVIOUS
<1>2. PICK x, s : StepTo(q, x, s, 0)
  BY <1>1, LastStep
<1> QED
  BY <1>2 DEF StepTo

(* Where no directory has two entries one path leads to each.               *)
LEMMA OnePath ==
  ASSUME TreeInv, \A j \in Directories \ {0} : Alone(j)
  PROVE  \A u, v \in Paths : \A x \in Directories : Found(u) = {x} /\ Found(v) = {x} => u = v
<1> DEFINE Bad == {n \in Nat : \E u, v \in Paths : \E x \in Directories :
                     Len(u) = n /\ Found(u) = {x} /\ Found(v) = {x} /\ u # v}
<1>1. Bad = {}
  <2>1. SUFFICES ASSUME Bad # {}
                 PROVE  FALSE
    OBVIOUS
  <2>2. PICK n \in Bad : \A m \in Bad : n <= m
    <3>1. Bad \subseteq Nat
      OBVIOUS
    <3> HIDE DEF Bad
    <3> QED
      BY <2>1, <3>1, LeastNumber
  <2>3. PICK u \in Paths, v \in Paths, x \in Directories :
          Len(u) = n /\ Found(u) = {x} /\ Found(v) = {x} /\ u # v
    OBVIOUS
  <2>4. Found(<<>>) = {0}
    BY FoundStep DEF PathsFound
  <2>5. u # <<>> /\ v # <<>> /\ x # 0
    BY <2>3, <2>4, RootHasNoEntry
  <2>6. Alone(x)
    BY <2>5
  <2>7. PICK y, s : StepTo(u, y, s, x)
    BY <2>3, <2>5, LastStep
  <2>8. PICK z, t : StepTo(v, z, t, x)
    BY <2>3, <2>5, LastStep
  <2>9. y = z /\ s = t
    BY <2>6, <2>7, <2>8 DEF StepTo, Alone
  <2>10. /\ Last(u) = Last(v) /\ y \in Directories
         /\ Found(Front(u)) = {y} /\ Found(Front(v)) = {y}
    BY <2>7, <2>8, <2>9 DEF StepTo
  <2>11. /\ Front(u) \in Paths /\ Front(v) \in Paths
         /\ Len(Front(u)) = n - 1 /\ n - 1 \in Nat
    BY <2>3, <2>5, FoundNext
  <2>12. Front(u) = Front(v)
    <3>1. n - 1 \notin Bad
      <4>1. ~(n <= n - 1)
        OBVIOUS
      <4> HIDE DEF Bad
      <4> QED
        BY <2>2, <4>1
    <3> QED
      BY <2>10, <2>11, <3>1
  <2> QED
    BY <2>3, <2>5, <2>10, <2>12, PrefixSteps
<1>2. ASSUME NEW u \in Paths, NEW v \in Paths, NEW x \in Directories,
             Found(u) = {x}, Found(v) = {x}
      PROVE  u = v
  <2>1. Len(u) \in Nat
    BY PathParts, NamespaceAssumption
  <2> QED
    BY <1>1, <1>2, <2>1
<1> QED
  BY <1>2
-----------------------------------------------------------------------------
(* What unlink takes away: the entry at place p of d, which names i, and    *)
(* every inode that is gone.                                                *)
Cut(i, d, p, gone) ==
  /\ d \in Directories /\ p \in Places(d) /\ i \in ialloc \ {0} /\ entry[d][p].m_ino = i
  /\ gone = Subtree(i) /\ Below(i, gone)
  /\ ialloc' = ialloc \ gone
  /\ \A j \in Inodes \ gone : inode'[j] = inode[j] /\ (j # d => entry'[j] = entry[j])
  /\ d \notin gone => entry'[d] = [entry[d] EXCEPT ![p] = Empty]
  /\ \A j \in gone : inode'[j] = Fresh("DIR") /\ entry'[j] = <<>>
  /\ damaged' = (damaged \/ \E j \in gone : Cardinality(EntriesOf(j)) > 1)

LEMMA UnlinkCuts ==
  ASSUME TreeInv, NEW path \in Paths \ {<<>>}, Exists(path), UnlinkEntry(path)
  PROVE  \E x, s : /\ StepTo(path, x, s, GetInode(path))
                   /\ Cut(GetInode(path), x, s, Subtree(GetInode(path)))
<1>1. Basic /\ Sound /\ Links
  BY DEF TreeInv
<1>2. PICK i : i = GetInode(path) /\ Found(path) = {i}
  BY TreeParts, ThingAtPath
<1>3. PICK d, p : StepTo(path, d, p, i)
  BY <1>2, LastStep
<1>4. /\ d = GetInode(Parent(path)) /\ p = Min(Named(d, Name(path)))
      /\ d \in Directories /\ p \in Places(d) /\ i \in ialloc \ {0} /\ entry[d][p].m_ino = i
  BY <1>3 DEF StepTo, GetInode, Parent, Name
<1>5. i \in Inodes /\ d \in Inodes
  BY <1>1, <1>4 DEF Basic, Directories
<1>6. PICK gone : gone = Subtree(i)
  OBVIOUS
<1>7. Below(i, gone)
  BY <1>4, <1>6, TreeParts, SubtreeIsBelow
<1>8. i \in gone /\ gone \subseteq Inodes
  BY <1>1, <1>7 DEF Below, Basic
<1>9. Deleted(i) = gone
  BY <1>1, <1>4, <1>5, <1>6 DEF Deleted, Links
<1>10. /\ ialloc' = ialloc \ gone
       /\ damaged' = (damaged \/ \E j \in gone : Cardinality(EntriesOf(j)) > 1)
  BY <1>2, <1>9 DEF UnlinkEntry
<1>11. \A j \in Inodes : inode'[j] = IF j \in gone THEN Fresh("DIR") ELSE inode[j]
  <2>1. inode' = [j \in Inodes |->
                    IF j \in gone THEN Fresh("DIR")
                    ELSE IF j = i THEN [inode[j] EXCEPT !.d_nlink = @ - 1]
                    ELSE inode[j]]
    BY <1>2, <1>9 DEF UnlinkEntry
  <2> QED
    BY <1>8, <2>1
<1>12. PICK left : left = [entry EXCEPT ![d][p] = Empty]
  OBVIOUS
<1>13. entry' = [j \in Inodes |-> IF j \in gone THEN <<>> ELSE left[j]]
  BY <1>2, <1>4, <1>9, <1>12 DEF UnlinkEntry, EntryRemoved
<1>14. \A j \in Inodes : left[j] = IF j = d THEN [entry[d] EXCEPT ![p] = Empty] ELSE entry[j]
  BY <1>1, <1>5, <1>12 DEF Basic
<1>15. Cut(i, d, p, gone)
  BY <1>4, <1>5, <1>6, <1>7, <1>8, <1>10, <1>11, <1>13, <1>14 DEF Cut
<1> QED
  BY <1>2, <1>3, <1>6, <1>15

LEMMA LookupCut ==
  ASSUME TreeInv, NEW i, NEW d, NEW p, NEW gone, Cut(i, d, p, gone),
         NEW x \in ialloc \ gone, NEW other \in Names,
         ~(x = d /\ other = entry[d][p].m_name)
  PROVE  Lookup(x, other)' = Lookup(x, other)
<1>1. x \in Inodes /\ d \in Inodes /\ Sound
  BY DEF TreeInv, Basic, Cut, Directories
<1>2. inode'[x] = inode[x]
  BY <1>1 DEF Cut
<1>3. Places(x)' = Places(x)
  BY <1>2 DEF Places, BlockCount
<1>4. CASE x # d
  <2>1. entry'[x] = entry[x]
    BY <1>1, <1>4 DEF Cut
  <2>2. Named(x, other)' = Named(x, other)
    BY <1>3, <2>1 DEF Named
  <2> QED
    BY <1>2, <2>1, <2>2 DEF Lookup
<1>5. CASE x = d
  <2>1. p \in Places(d) /\ inode[d].type = "DIR" /\ entry'[d] = [entry[d] EXCEPT ![p] = Empty]
    BY <1>5 DEF Cut, Directories
  <2>2. /\ Places(d) = 1 .. Len(entry[d]) /\ Len(entry[d]) \in Nat
        /\ entry[d] \in Seq(Entry)
    BY <1>1, <2>1, DirectoryPlaces DEF Whole, Filled
  <2>3. PICK es, fs : es = entry[d] /\ fs = [es EXCEPT ![p] = Empty]
    OBVIOUS
  <2>4. \A q \in Places(d) : fs[q] = IF q = p THEN Empty ELSE es[q]
    <3>1. es \in Seq(Entry) /\ Empty \in Entry /\ p \in 1 .. Len(es)
      BY <2>1, <2>2, <2>3, EmptyIsEntry
    <3> QED
      BY <2>2, <2>3, <3>1, SeqReplaced
  <2>5. other # "" /\ Empty.m_name = ""
    BY NamesAssumption, EmptyIsEntry
  <2>6. Named(d, other)' = {q \in Places(d) : fs[q].m_name = other}
    BY <1>3, <1>5, <2>1, <2>3 DEF Named
  <2>7. Named(d, other) = {q \in Places(d) : es[q].m_name = other}
    BY <2>3 DEF Named
  <2>8. es[p].m_name # other
    BY <1>5, <2>3
  <2>9. Named(d, other)' = Named(d, other)
    BY <2>4, <2>5, <2>6, <2>7, <2>8
  <2>10. CASE Named(d, other) = {}
    BY <1>5, <2>9, <2>10 DEF Lookup
  <2>11. CASE Named(d, other) # {}
    <3>1. PICK q \in Named(d, other) : q = Min(Named(d, other))
      <4>1. Named(d, other) \subseteq Nat
        BY <2>2 DEF Named
      <4> QED
        BY <2>11, <4>1, MinIs
    <3>2. q \in Places(d) /\ q # p
      BY <2>7, <2>8, <3>1
    <3>3. fs[q] = es[q]
      BY <2>4, <3>2
    <3>4. Lookup(d, other) = {es[q].m_ino}
      BY <2>1, <2>3, <2>11, <3>1 DEF Lookup
    <3>5. inode'[d].type = "DIR" /\ entry'[d] = fs
      BY <1>2, <1>5, <2>1, <2>3
    <3>6. Lookup(d, other)' = {fs[q].m_ino}
      BY <2>9, <2>11, <3>1, <3>5 DEF Lookup
    <3> QED
      BY <1>5, <3>3, <3>4, <3>6
  <2> QED
    BY <2>10, <2>11
<1> QED
  BY <1>4, <1>5

(* Where nothing that is gone has another entry, the paths that do not lead *)
(* through the one that is unlinked lead where they led, and to nothing     *)
(* that is gone.                                                            *)
StaysFound(gone, q) == Found(q) \cap gone = {} /\ Found(q)' = Found(q)

LEMMA FoundCut ==
  ASSUME TreeInv, \A j \in Directories \ {0} : Alone(j),
         NEW path \in Paths \ {<<>>}, NEW i, NEW d, NEW p, NEW gone,
         StepTo(path, d, p, i), Cut(i, d, p, gone), \A j \in gone : Alone(j)
  PROVE  \A q \in Paths : ~IsPrefix(path, q) => StaysFound(gone, q)
<1> DEFINE Bad == {n \in Nat : \E q \in Paths :
                     Len(q) = n /\ ~IsPrefix(path, q) /\ ~StaysFound(gone, q)}
<1>1. Below(i, gone) /\ 0 \notin gone /\ gone \subseteq ialloc
  BY DEF Cut, Below
<1>2. Bad = {}
  <2>1. SUFFICES ASSUME Bad # {}
                 PROVE  FALSE
    OBVIOUS
  <2>2. PICK n \in Bad : \A m \in Bad : n <= m
    <3>1. Bad \subseteq Nat
      OBVIOUS
    <3> HIDE DEF Bad
    <3> QED
      BY <2>1, <3>1, LeastNumber
  <2>3. PICK q \in Paths : Len(q) = n /\ ~IsPrefix(path, q) /\ ~StaysFound(gone, q)
    OBVIOUS
  <2>4. PathsFound'
    BY FoundStep, PTL
  <2>5. q # <<>>
    <3>1. Found(<<>>) = {0}
      BY FoundStep DEF PathsFound
    <3>2. Found(<<>>)' = {0}
      BY <2>4 DEF PathsFound
    <3>3. StaysFound(gone, <<>>)
      BY <1>1, <3>1, <3>2 DEF StaysFound
    <3> QED
      BY <2>3, <3>3
  <2>6. PICK r \in Paths, other \in Names :
          /\ r = Front(q) /\ other = Last(q) /\ Len(r) = n - 1 /\ n - 1 \in Nat
    BY <2>3, <2>5, FoundNext
  <2>7. ~IsPrefix(path, r)
    BY <2>3, <2>5, <2>6, PrefixSteps
  <2>8. Found(r) \cap gone = {} /\ Found(r)' = Found(r)
    <3>1. n - 1 \notin Bad
      <4>1. ~(n <= n - 1)
        BY <2>6
      <4> HIDE DEF Bad
      <4> QED
        BY <2>2, <4>1
    <3> QED
      BY <2>6, <2>7, <3>1 DEF StaysFound
  <2>9. Found(q)' = UNION {Lookup(x, other)' : x \in Found(r)'}
    BY <2>4, <2>5, <2>6 DEF PathsFound, After
  <2>10. CASE Found(r) = {}
    <3>1. Found(q) = {} /\ Found(q)' = {}
      BY <2>5, <2>6, <2>8, <2>9, <2>10, FoundNext
    <3> QED
      BY <2>3, <3>1 DEF StaysFound
  <2>11. CASE Found(r) # {}
    <3>1. PICK x \in ialloc : Found(r) = {x}
      BY <2>11, TreeParts, ThingAtPath DEF Exists
    <3>2. x \notin gone
      BY <2>8, <3>1
    <3>3. Found(q) = Lookup(x, other) /\ Found(q)' = Lookup(x, other)'
      BY <2>5, <2>6, <2>8, <2>9, <3>1, FoundNext
    <3>4. ~(x = d /\ other = entry[d][p].m_name)
      <4>1. SUFFICES ASSUME x = d, other = entry[d][p].m_name
                     PROVE  FALSE
        OBVIOUS
      <4>2. Found(Front(path)) = {x} /\ x \in Directories /\ other = Last(path)
        BY <4>1 DEF StepTo
      <4>3. Front(path) = r
        <5>1. Front(path) \in Paths
          BY PathParts
        <5> QED
          BY <2>6, <3>1, <4>2, <5>1, OnePath
      <4>4. path = q
        BY <2>5, <2>6, <4>2, <4>3, PrefixSteps
      <4> QED
        BY <2>3, <4>4, PrefixSteps
    <3>5. Found(q)' = Found(q)
      BY <3>2, <3>3, <3>4, LookupCut
    <3>6. PICK y \in gone : Found(q) = {y}
      <4>1. Found(q) \cap gone # {}
        BY <2>3, <3>5 DEF StaysFound
      <4>2. Exists(q)
        BY <4>1 DEF Exists
      <4>3. PICK y : Found(q) = {y}
        BY <4>2, TreeParts, ThingAtPath
      <4> QED
        BY <4>1, <4>3
    <3>7. PICK z, s : StepTo(q, z, s, y)
      BY <2>5, <3>6, LastStep
    <3>8. z = x /\ x \in Directories /\ s \in Places(x) /\ entry[x][s].m_ino = y
          /\ entry[x][s].m_name = other
      BY <2>6, <3>1, <3>7 DEF StepTo
    <3>9. Alone(y)
      BY <3>6
    <3>10. CASE y = i
      <4>1. d \in Directories /\ p \in Places(d) /\ entry[d][p].m_ino = i
        BY DEF Cut
      <4>2. x = d /\ s = p
        BY <3>8, <3>9, <3>10, <4>1 DEF Alone
      <4> QED
        BY <3>4, <3>8, <4>2
    <3>11. CASE y # i
      <4>1. PICK w \in gone : w \in Directories /\ \E t \in Places(w) : entry[w][t].m_ino = y
        BY <1>1, <3>6, <3>11 DEF Below
      <4>2. w = x
        BY <3>8, <3>9, <4>1 DEF Alone
      <4> QED
        BY <3>2, <4>1, <4>2
    <3> QED
      BY <3>10, <3>11
  <2> QED
    BY <2>10, <2>11
<1>3. ASSUME NEW q \in Paths, ~IsPrefix(path, q)
      PROVE  StaysFound(gone, q)
  <2>1. Len(q) \in Nat
    BY PathParts, NamespaceAssumption
  <2> QED
    BY <1>2, <1>3, <2>1
<1> QED
  BY <1>3

(* unlink comes to everything that a path leads to through what it unlinks, *)
(* for it goes down as many levels as a path has names.                     *)
LEMMA FoundUnder ==
  ASSUME TreeInv, NEW path \in Paths, path # <<>>, NEW i, Found(path) = {i}
  PROVE  \A q \in Paths : IsPrefix(path, q) => Found(q) \subseteq Subtree(i)
<1>1. PICK g : g = Levels(i)
  OBVIOUS
<1>2. g[0] = {i} /\ \A n \in 1 .. MAX_DEPTH : g[n] = Wider(g[n - 1])
  <2>1. Grows(g, i, MAX_DEPTH) /\ MAX_DEPTH \in Nat
    BY <1>1, LevelsValues, NamespaceAssumption
  <2>2. g[0] = {i}
    BY <2>1, GrowsValues
  <2>3. Widens(g, MAX_DEPTH)
    BY <2>1, GrowsValues
  <2> QED
    BY <2>2, <2>3 DEF Widens
<1>3. PICK l \in Nat : l = Len(path)
  BY PathParts, NamespaceAssumption
<1> DEFINE Inside(n, q) == IsPrefix(path, q) /\ Len(q) <= l + n => Found(q) \subseteq g[n]
           Bad == {n \in 0 .. MAX_DEPTH : \E q \in Paths : ~Inside(n, q)}
<1>4. Bad = {}
  <2>1. SUFFICES ASSUME Bad # {}
                 PROVE  FALSE
    OBVIOUS
  <2>2. PICK n \in Bad : \A m \in Bad : n <= m
    <3>1. Bad \subseteq Nat
      BY NamespaceAssumption
    <3> HIDE DEF Bad
    <3> QED
      BY <2>1, <3>1, LeastNumber
  <2>3. PICK q \in Paths : n \in 0 .. MAX_DEPTH /\ ~Inside(n, q)
    OBVIOUS
  <2>4. IsPrefix(path, q) /\ Len(q) \in Nat /\ Len(q) <= l + n /\ ~(Found(q) \subseteq g[n])
    BY <2>3, PathParts, NamespaceAssumption
  <2>5. l <= Len(q) /\ q # <<>>
    <3>1. l <= Len(q)
      BY <1>3, <2>4 DEF IsPrefix
    <3> QED
      BY <2>4, <3>1, PrefixSteps
  <2>6. path # q
    <3>1. SUFFICES ASSUME path = q
                   PROVE  FALSE
      OBVIOUS
    <3>2. ~(Found(path) \subseteq g[n]) /\ Found(path) = {i}
      BY <2>4, <3>1
    <3>3. n # 0
      BY <1>2, <3>2
    <3>4. n \in 1 .. MAX_DEPTH /\ n - 1 \in 0 .. MAX_DEPTH /\ ~(n <= n - 1)
      BY <2>3, <3>3, NamespaceAssumption
    <3>5. n - 1 \notin Bad
      <4> HIDE DEF Bad
      <4> QED
        BY <2>2, <3>4
    <3>6. Inside(n - 1, path)
      BY <3>4, <3>5
    <3>7. Len(path) <= l + (n - 1) /\ IsPrefix(path, path)
      BY <1>3, <3>4, PrefixSteps, NamespaceAssumption
    <3>8. Found(path) \subseteq g[n - 1] /\ g[n - 1] \subseteq g[n]
      BY <1>2, <3>4, <3>6, <3>7 DEF Wider
    <3> QED
      BY <3>2, <3>8
  <2>7. PICK r \in Paths, other \in Names :
          /\ r = Front(q) /\ other = Last(q) /\ Len(r) = Len(q) - 1
    BY <2>5, FoundNext
  <2>8. IsPrefix(path, r)
    BY <2>4, <2>5, <2>6, <2>7, PrefixSteps
  <2>9. l <= Len(r)
    BY <1>3, <2>8 DEF IsPrefix
  <2>10. n \in 1 .. MAX_DEPTH /\ n - 1 \in 0 .. MAX_DEPTH /\ ~(n <= n - 1)
    BY <2>3, <2>4, <2>7, <2>9, NamespaceAssumption
  <2>11. Found(r) \subseteq g[n - 1]
    <3>1. n - 1 \notin Bad
      <4> HIDE DEF Bad
      <4> QED
        BY <2>2, <2>10
    <3>2. Inside(n - 1, r)
      BY <2>10, <3>1
    <3>3. Len(r) <= l + (n - 1)
      BY <2>4, <2>7, <2>10, NamespaceAssumption
    <3> QED
      BY <2>8, <3>2, <3>3
  <2>12. Found(q) = After(Found(r), other)
    BY <2>5, <2>7, FoundStep DEF PathsFound
  <2>13. Found(q) \subseteq Wider(g[n - 1])
    BY <2>11, <2>12 DEF After, Wider, Children
  <2> QED
    BY <1>2, <2>4, <2>10, <2>13
<1>5. ASSUME NEW q \in Paths, IsPrefix(path, q)
      PROVE  Found(q) \subseteq Subtree(i)
  <2>1. Len(q) \in 0 .. MAX_DEPTH /\ MAX_DEPTH \in 0 .. MAX_DEPTH
    BY PathParts, NamespaceAssumption
  <2>2. Inside(MAX_DEPTH, q)
    BY <1>4, <2>1
  <2>3. Len(q) <= l + MAX_DEPTH
    BY <2>1, NamespaceAssumption
  <2>4. Found(q) \subseteq g[MAX_DEPTH]
    BY <1>5, <2>2, <2>3
  <2> QED
    BY <1>1, <2>4, SubtreeIsLevels
<1> QED
  BY <1>5
-----------------------------------------------------------------------------
(* What a new entry does to paths: its own leads to the inode it names, and *)
(* the paths that do not go through it lead where they led.                 *)
LEMMA FoundNew ==
  ASSUME TreeInv, Sound', NEW nodes, NEW d \in Directories, NEW name \in Names,
         NEW i \in Inodes \ {0}, \A j \in ialloc : nodes[j] = inode[j],
         Named(d, name) = {}, Added(nodes, d, name, i),
         NEW dst \in Paths \ {<<>>}, Found(Front(dst)) = {d}, Last(dst) = name
  PROVE  Found(dst)' = {i}
<1>1. Front(dst) \in Paths /\ d \in Inodes
  BY PathParts DEF TreeInv, Basic, Directories
<1>2. Found(Front(dst))' = {d}
  BY <1>1, FoundKept DEF Exists
<1>3. PathsFound'
  BY FoundStep, PTL
<1>4. Found(dst)' = UNION {Lookup(x, name)' : x \in Found(Front(dst))'}
  BY <1>3 DEF PathsFound, After
<1>5. inode'[d].type = "DIR" /\ Gains(entry[d], entry'[d], EntryOf(i, name))
  BY DEF Added
<1>6. PICK fs, e : fs = entry'[d] /\ e = EntryOf(i, name)
  OBVIOUS
<1>7. Places(d)' = 1 .. Len(fs)
  <2>1. PlacesAre'
    BY PlacesAreEntries, PTL
  <2> QED
    BY <1>1, <1>5, <1>6, <2>1 DEF PlacesAre
<1>8. PICK q \in 1 .. Len(fs) : fs[q] = e
  BY <1>5, <1>6 DEF Gains
<1>9. e.m_ino = i /\ e.m_name = name /\ name # ""
  BY <1>6, NamesAssumption DEF EntryOf
<1>10. Filled(fs)
  BY <1>1, <1>6 DEF Sound, Whole
<1>11. \A s \in 1 .. Len(fs) : fs[s].m_name = name => s = q
  BY <1>8, <1>9, <1>10 DEF Filled
<1>12. Named(d, name)' = {q}
  BY <1>6, <1>7, <1>8, <1>9, <1>11 DEF Named
<1>13. Min({q}) = q
  <2>1. q \in Nat
    BY <1>5, <1>6 DEF Gains
  <2>2. PICK S : S = {q}
    OBVIOUS
  <2>3. Min(S) \in S
    BY <2>1, <2>2, MinIs
  <2> QED
    BY <2>2, <2>3
<1>14. Lookup(d, name)' = {i}
  BY <1>5, <1>6, <1>8, <1>9, <1>12, <1>13 DEF Lookup
<1> QED
  BY <1>2, <1>4, <1>14

LEMMA FoundBeside ==
  ASSUME TreeInv, Sound', NEW nodes, NEW d \in Directories, NEW name \in Names, NEW i,
         \A j \in ialloc : nodes[j] = inode[j],
         Named(d, name) = {}, Added(nodes, d, name, i),
         \A j \in Directories \ {0} : Alone(j),
         NEW dst \in Paths \ {<<>>}, Found(Front(dst)) = {d}, Last(dst) = name
  PROVE  \A q \in Paths : ~IsPrefix(dst, q) => Found(q)' = Found(q)
<1> DEFINE Bad == {n \in Nat : \E q \in Paths :
                     Len(q) = n /\ ~IsPrefix(dst, q) /\ Found(q)' # Found(q)}
<1>1. Bad = {}
  <2>1. SUFFICES ASSUME Bad # {}
                 PROVE  FALSE
    OBVIOUS
  <2>2. PICK n \in Bad : \A m \in Bad : n <= m
    <3>1. Bad \subseteq Nat
      OBVIOUS
    <3> HIDE DEF Bad
    <3> QED
      BY <2>1, <3>1, LeastNumber
  <2>3. PICK q \in Paths : Len(q) = n /\ ~IsPrefix(dst, q) /\ Found(q)' # Found(q)
    OBVIOUS
  <2>4. PathsFound'
    BY FoundStep, PTL
  <2>5. q # <<>>
    <3>1. Found(<<>>) = {0}
      BY FoundStep DEF PathsFound
    <3>2. Found(<<>>)' = {0}
      BY <2>4 DEF PathsFound
    <3> QED
      BY <2>3, <3>1, <3>2
  <2>6. PICK r \in Paths, other \in Names :
          /\ r = Front(q) /\ other = Last(q) /\ Len(r) = n - 1 /\ n - 1 \in Nat
    BY <2>3, <2>5, FoundNext
  <2>7. ~IsPrefix(dst, r)
    BY <2>3, <2>5, <2>6, PrefixSteps
  <2>8. Found(r)' = Found(r)
    <3>1. n - 1 \notin Bad
      <4>1. ~(n <= n - 1)
        BY <2>6
      <4> HIDE DEF Bad
      <4> QED
        BY <2>2, <4>1
    <3> QED
      BY <2>6, <2>7, <3>1
  <2>9. Found(q)' = UNION {Lookup(x, other)' : x \in Found(r)'}
    BY <2>4, <2>5, <2>6 DEF PathsFound, After
  <2>10. Found(r) # {}
    <3>1. SUFFICES ASSUME Found(r) = {}
                   PROVE  FALSE
      OBVIOUS
    <3>2. Found(q) = {} /\ Found(q)' = {}
      BY <2>5, <2>6, <2>8, <2>9, <3>1, FoundNext
    <3> QED
      BY <2>3, <3>2
  <2>11. PICK x \in ialloc : Found(r) = {x}
    BY <2>10, TreeParts, ThingAtPath DEF Exists
  <2>12. Found(q) = Lookup(x, other) /\ Found(q)' = Lookup(x, other)'
    BY <2>5, <2>6, <2>8, <2>9, <2>11, FoundNext
  <2>13. ~(x = d /\ other = name)
    <3>1. SUFFICES ASSUME x = d, other = name
                   PROVE  FALSE
      OBVIOUS
    <3>2. Front(dst) \in Paths
      BY PathParts
    <3>3. Front(dst) = r
      BY <2>6, <2>11, <3>1, <3>2, OnePath
    <3>4. dst = q
      BY <2>5, <2>6, <3>1, <3>3, PrefixSteps
    <3> QED
      BY <2>3, <3>4, PrefixSteps
  <2>14. Lookup(x, other)' = Lookup(x, other)
    BY <2>13, LookupAdded DEF TreeInv
  <2> QED
    BY <2>3, <2>12, <2>14
<1>2. ASSUME NEW q \in Paths, ~IsPrefix(dst, q)
      PROVE  Found(q)' = Found(q)
  <2>1. Len(q) \in Nat
    BY PathParts, NamespaceAssumption
  <2> QED
    BY <1>1, <1>2, <2>1
<1> QED
  BY <1>2

(* The entries of an inode after a new one for i: those it had, and for i   *)
(* the new one.                                                             *)
LEMMA EntriesAdded ==
  ASSUME Basic, Sound, Unused, Sound',
         NEW nodes, NEW d \in Directories, NEW name \in Names, NEW i \in Inodes \ {0},
         Taking(nodes, i), Added(nodes, d, name, i)
  PROVE  \A x \in Directories' : \A q \in Places(x)' :
           entry'[x][q].m_ino # 0 =>
             \/ x \in Directories /\ q \in Places(x) /\ entry'[x][q] = entry[x][q]
             \/ x = d /\ entry'[x][q] = EntryOf(i, name)
<1>1. SUFFICES ASSUME NEW x \in Directories', NEW q \in Places(x)', entry'[x][q].m_ino # 0
               PROVE  \/ x \in Directories /\ q \in Places(x) /\ entry'[x][q] = entry[x][q]
                      \/ x = d /\ entry'[x][q] = EntryOf(i, name)
  OBVIOUS
<1>2. x \in ialloc \cup {i} /\ inode'[x].type = "DIR" /\ x \in Inodes
  BY <1>1 DEF Directories, Taking, Basic
<1>3. Places(x)' = 1 .. Len(entry'[x])
  <2>1. PlacesAre'
    BY PlacesAreEntries, PTL
  <2> QED
    BY <1>2, <2>1 DEF PlacesAre
<1>4. CASE x = d
  <2>1. Gains(entry[d], entry'[d], EntryOf(i, name))
    BY DEF Added
  <2>2. Places(d) = 1 .. Len(entry[d])
    BY <1>2, <1>4, DirectoryPlaces DEF Directories
  <2> QED
    BY <1>1, <1>3, <1>4, <2>1, <2>2 DEF Gains
<1>5. CASE x # d
  <2>1. inode'[x] = nodes[x] /\ entry'[x] = entry[x]
    BY <1>2, <1>5 DEF Added
  <2>2. x \in ialloc
    <3>1. SUFFICES ASSUME x \notin ialloc
                   PROVE  FALSE
      OBVIOUS
    <3>2. entry[x] = <<>>
      BY <1>2, <3>1 DEF Unused
    <3>3. Places(x)' = 1 .. 0
      BY <1>3, <2>1, <3>2
    <3> QED
      BY <1>1, <3>3
  <2>3. nodes[x] = inode[x]
    BY <1>2, <2>2 DEF Taking
  <2>4. Places(x)' = Places(x)
    BY <2>1, <2>3 DEF Places, BlockCount
  <2>5. x \in Directories
    BY <1>2, <2>1, <2>2, <2>3 DEF Directories
  <2> QED
    BY <1>1, <2>1, <2>4, <2>5
<1> QED
  BY <1>4, <1>5

LEMMA OthersStayAlone ==
  ASSUME Basic, Sound, Unused, Sound',
         NEW nodes, NEW d \in Directories, NEW name \in Names, NEW i \in Inodes \ {0},
         Taking(nodes, i), Added(nodes, d, name, i),
         NEW j, j # 0, j # i, Alone(j)
  PROVE  Alone(j)'
<1>1. ASSUME NEW x \in Directories', NEW q \in Places(x)', entry'[x][q].m_ino = j
      PROVE  x \in Directories /\ q \in Places(x) /\ entry[x][q].m_ino = j
  <2>1. EntryOf(i, name).m_ino = i
    BY DEF EntryOf
  <2> QED
    BY <1>1, <2>1, EntriesAdded
<1> QED
  BY <1>1 DEF Alone

LEMMA FirstIsAlone ==
  ASSUME Basic, Sound, Unused, EntriesInUse, Sound',
         NEW nodes, NEW d \in Directories, NEW name \in Names, NEW i \in Inodes \ {0},
         Taking(nodes, i), Added(nodes, d, name, i), i \notin ialloc
  PROVE  Alone(i)'
<1>1. ASSUME NEW x \in Directories', NEW q \in Places(x)', entry'[x][q].m_ino = i
      PROVE  x = d /\ entry'[x][q].m_name = name
  <2>1. ~(x \in Directories /\ q \in Places(x) /\ entry[x][q].m_ino = i)
    <3>1. SUFFICES ASSUME x \in Directories, q \in Places(x), entry[x][q].m_ino = i
                   PROVE  FALSE
      OBVIOUS
    <3>2. Places(x) = 1 .. Len(entry[x])
      BY <3>1, DirectoryPlaces DEF Directories, Basic
    <3>3. i \in Targets(entry[x])
      BY <3>1, <3>2 DEF Targets
    <3> QED
      BY <3>1, <3>3 DEF EntriesInUse
  <2>2. EntryOf(i, name).m_name = name
    BY DEF EntryOf
  <2>3. entry'[x][q].m_ino # 0
    BY <1>1
  <2> QED
    BY <1>1, <2>1, <2>2, <2>3, EntriesAdded
<1>2. d \in Inodes /\ inode'[d].type = "DIR"
  BY DEF Added, Directories, Basic
<1>3. PICK fs : fs = entry'[d]
  OBVIOUS
<1>4. Places(d)' = 1 .. Len(fs) /\ Filled(fs)
  <2>1. PlacesAre'
    BY PlacesAreEntries, PTL
  <2> QED
    BY <1>2, <1>3, <2>1 DEF PlacesAre, Sound, Whole
<1>5. ASSUME NEW q \in Places(d)', NEW s \in Places(d)', fs[q].m_name = name, fs[s].m_name = name
      PROVE  q = s
  <2>1. name # ""
    BY NamesAssumption
  <2> QED
    BY <1>4, <1>5, <2>1 DEF Filled
<1> QED
  BY <1>1, <1>3, <1>5 DEF Alone
-----------------------------------------------------------------------------
(* A step keeps them: PlaceInv is what holds next to TreeInv.               *)
PlaceInv == Placed /\ Single

(* What holds at rest, where no rename is half-way.                         *)
LEMMA AllAlone ==
  ASSUME Single, pending = <<>>
  PROVE  \A j \in Directories \ {0} : Alone(j)
BY DEF Single

LEMMA PlacesKept ==
  ASSUME Placed, \A path \in Paths : Exists(path) => Found(path)' = Found(path),
         NEW i, ialloc' \ leaked' \subseteq (ialloc \ leaked) \cup {i},
         i \in ialloc' \ leaked' => \E path \in Paths : Found(path)' = {i}
  PROVE  Placed'
<1>1. ASSUME NEW j \in ialloc' \ leaked'
      PROVE  \E path \in Paths : Found(path)' = {j}
  <2>1. CASE j = i
    BY <1>1, <2>1
  <2>2. CASE j # i
    <3>1. PICK path \in Paths : Found(path) = {j}
      BY <1>1, <2>2 DEF Placed
    <3>2. Found(path)' = {j}
      BY <3>1 DEF Exists
    <3> QED
      BY <3>2
  <2> QED
    BY <2>1, <2>2
<1> QED
  BY <1>1 DEF Placed

(* create, link and rename up to its unlink add one entry; what each adds.  *)
Adding(nodes, dst, d, name, i) ==
  /\ dst \in Paths \ {<<>>} /\ Found(Front(dst)) = {d} /\ Last(dst) = name
  /\ d \in Directories /\ name \in Names /\ Named(d, name) = {}
  /\ i \in Inodes \ {0} /\ Added(nodes, d, name, i) /\ Taking(nodes, i)
  /\ \A j \in ialloc : nodes[j] = inode[j]

LEMMA AddingParts ==
  ASSUME TreeInv, NEW nodes, nodes = [j \in Inodes |-> nodes[j]], NEW i \in Inodes \ {0},
         NEW dst \in Vacant, Taking(nodes, i),
         AddToDir(nodes, GetInode(Parent(dst)), Name(dst), i)
  PROVE  \E d, name : Adding(nodes, dst, d, name, i)
<1>1. PICK d, name : d = GetInode(Parent(dst)) /\ name = Name(dst)
  OBVIOUS
<1>2. /\ d \in Directories /\ name \in Names /\ dst \in Paths /\ dst # <<>>
      /\ Found(Parent(dst)) = {d} /\ Named(d, name) = {}
  BY <1>1, TreeParts, VacantPath
<1>3. Found(Front(dst)) = {d} /\ Last(dst) = name
  BY <1>1, <1>2 DEF Parent, Name
<1>4. \A j \in ialloc : nodes[j] = inode[j]
  BY DEF Taking, TreeInv, Basic
<1>5. nodes[d] = inode[d]
  BY <1>2, <1>4 DEF Directories
<1>6. Added(nodes, d, name, i)
  BY <1>1, <1>2, <1>5, AddedEntry DEF TreeInv
<1>7. Adding(nodes, dst, d, name, i)
  BY <1>2, <1>3, <1>4, <1>6 DEF Adding
<1> QED
  BY <1>7

LEMMA CreateAdds ==
  ASSUME TreeInv, NEW path \in Vacant, NEW type \in {"FILE", "DIR"}, pending = <<>>,
         Create(path, type)
  PROVE  \E nodes, d, name, i : Adding(nodes, path, d, name, i) /\ i \notin ialloc
<1>1. Basic
  BY DEF TreeInv
<1>2. PICK i \in Inodes :
        /\ NewInode(i)
        /\ AddToDir(Created(i, type), GetInode(Parent(path)), Name(path), i)
        /\ ialloc' = ialloc \cup {i}
  BY DEF Create
<1>3. i \notin ialloc /\ i # 0 /\ i \in Inodes
  BY <1>1, <1>2 DEF NewInode, Basic
<1>4. PICK nodes : nodes = Created(i, type)
  OBVIOUS
<1>5. /\ nodes = [j \in Inodes |-> nodes[j]] /\ nodes[i] = Fresh(type)
      /\ \A j \in Inodes \ {i} : nodes[j] = inode[j]
  <2>1. nodes = [inode EXCEPT ![i] = Fresh(type)] /\ DOMAIN inode = Inodes
    BY <1>1, <1>4 DEF Created, Basic
  <2> QED
    BY <1>3, <2>1
<1>6. pending' = <<>> /\ leaked' = leaked /\ damaged' = damaged
  BY DEF Create
<1>7. Taking(nodes, i)
  BY <1>1, <1>2, <1>3, <1>5, <1>6, EmptyPath DEF Taking, Basic
<1>8. \E d, name : Adding(nodes, path, d, name, i)
  BY <1>2, <1>3, <1>4, <1>5, <1>7, AddingParts
<1> QED
  BY <1>3, <1>8

(* The inode at src gains an entry.                                         *)
LEMMA LinkAdds ==
  ASSUME TreeInv, NEW src \in Taken, NEW dst \in Vacant, Link(src, dst) \/ Rename(src, dst)
  PROVE  \E d, name : Adding(inode, dst, d, name, GetInode(src)) /\ GetInode(src) \in ialloc
<1>1. Basic
  BY DEF TreeInv
<1>2. PICK i : i = GetInode(src) /\ i \in ialloc /\ Found(src) = {i}
  BY TreeParts, ThingAtPath DEF Taken
<1>3. i \in Inodes \ {0}
  <2>1. CASE src = <<>>
    <3>1. i = 0
      BY <1>2, <2>1, FoundStep DEF PathsFound
    <3>2. inode[i].type = "DIR" /\ src = <<>>
      BY <1>1, <2>1, <3>1 DEF Basic
    <3> QED
      BY <1>2, <3>2 DEF Link, Rename
  <2>2. CASE src # <<>>
    <3>1. src \in Paths /\ i # 0
      BY <1>2, <2>2, RootHasNoEntry DEF Taken
    <3> QED
      BY <1>1, <1>2, <3>1 DEF Basic
  <2> QED
    BY <2>1, <2>2
<1>4. /\ AddToDir(inode, GetInode(Parent(dst)), Name(dst), i)
      /\ ialloc' = ialloc /\ leaked' = leaked /\ damaged' = damaged
      /\ pending' = pending \/ pending' = src
  BY <1>2 DEF Link, Rename
<1>5. inode = [j \in Inodes |-> inode[j]]
  BY <1>1 DEF Basic
<1>6. Taking(inode, i)
  BY <1>1, <1>2, <1>4 DEF Taking, Basic, Taken
<1>7. \E d, name : Adding(inode, dst, d, name, i)
  BY <1>3, <1>4, <1>5, <1>6, AddingParts
<1> QED
  BY <1>2, <1>7

LEMMA AddingPlaces ==
  ASSUME TreeInv, PlaceInv, pending = <<>>, TreeInv', leaked' = leaked,
         NEW nodes, NEW dst, NEW d, NEW name, NEW i, Adding(nodes, dst, d, name, i),
         \/ i \notin ialloc
         \/ i \in ialloc /\ inode[i].type = "FILE"
         \/ (pending # <<>> /\ i = GetInode(pending))'
  PROVE  PlaceInv'
<1>1. /\ dst \in Paths \ {<<>>} /\ Found(Front(dst)) = {d} /\ Last(dst) = name
      /\ d \in Directories /\ name \in Names /\ Named(d, name) = {}
      /\ i \in Inodes \ {0} /\ Added(nodes, d, name, i) /\ Taking(nodes, i)
      /\ \A j \in ialloc : nodes[j] = inode[j]
  BY DEF Adding
<1>2. Basic /\ Sound /\ Unused /\ EntriesInUse /\ Sound' /\ Placed /\ Single
  <2>1. Basic /\ Sound /\ Unused /\ EntriesInUse
    BY InUseBefore
  <2> QED
    BY <2>1 DEF TreeInv, PlaceInv
<1>3. \A j \in Directories \ {0} : Alone(j)
  BY <1>2, AllAlone
<1>4. Placed'
  <2>1. \A path \in Paths : Exists(path) => Found(path)' = Found(path)
    BY <1>1, <1>2, FoundKept
  <2>2. Found(dst)' = {i}
    BY <1>1, <1>2, FoundNew
  <2>3. ialloc' \ leaked' \subseteq (ialloc \ leaked) \cup {i}
    BY <1>1 DEF Taking
  <2> QED
    BY <1>1, <1>2, <2>1, <2>2, <2>3, PlacesKept
<1>5. ASSUME NEW j \in Directories' \ {0}, j # i
      PROVE  Alone(j)'
  <2>1. j \in ialloc /\ j \in Inodes /\ inode'[j].type = "DIR"
    BY <1>1, <1>2, <1>5 DEF Directories, Taking, Basic
  <2>2. j \in Directories
    <3>1. CASE j = d
      BY <1>1, <3>1
    <3>2. CASE j # d
      BY <1>1, <2>1, <3>2 DEF Added, Directories
    <3> QED
      BY <3>1, <3>2
  <2>3. Alone(j)
    BY <1>3, <1>5, <2>2
  <2> QED
    BY <1>1, <1>2, <1>5, <2>3, OthersStayAlone
<1>6. ASSUME i \notin ialloc
      PROVE  Alone(i)'
  BY <1>1, <1>2, <1>6, FirstIsAlone
<1>7. ASSUME i \in ialloc, inode[i].type = "FILE"
      PROVE  i \notin Directories'
  <2>1. i # d
    BY <1>1, <1>7 DEF Directories
  <2>2. inode'[i] = inode[i]
    BY <1>1, <1>7, <2>1 DEF Added
  <2> QED
    BY <1>7, <2>2 DEF Directories
<1>8. Single'
  <2>1. ASSUME NEW j \in Directories' \ {0}
        PROVE  Alone(j)' \/ (pending # <<>> /\ j = GetInode(pending))'
    <3>1. CASE j # i
      BY <1>5, <3>1
    <3>2. CASE j = i
      BY <1>6, <1>7, <2>1, <3>2
    <3> QED
      BY <3>1, <3>2
  <2> QED
    BY <2>1 DEF Single
<1> QED
  BY <1>4, <1>8 DEF PlaceInv

(* The path that unlink is given leads nowhere afterwards.                  *)
LEMMA FoundRemoved ==
  ASSUME Sound, ialloc \subseteq Inodes, NEW path \in Paths \ {<<>>},
         NEW i, NEW d, NEW p, NEW gone, StepTo(path, d, p, i), Cut(i, d, p, gone),
         \A q \in Paths : ~IsPrefix(path, q) => StaysFound(gone, q)
  PROVE  Found(path)' = {}
<1>1. PICK r \in Paths, name \in Names : r = Front(path) /\ name = Last(path)
  BY FoundNext
<1>2. /\ d \in Directories /\ Found(r) = {d} /\ p \in Places(d)
      /\ entry[d][p].m_name = name
  BY <1>1 DEF StepTo
<1>3. ~IsPrefix(path, r)
  <2>1. Len(path) \in Nat /\ Len(r) = Len(path) - 1
    BY <1>1, FoundNext
  <2>2. ~(Len(path) <= Len(r))
    BY <2>1
  <2> QED
    BY <2>2, PrefixIsLeads DEF Leads
<1>4. Found(r)' = {d} /\ d \notin gone
  BY <1>2, <1>3 DEF StaysFound
<1>5. d \in Inodes /\ inode[d].type = "DIR"
  BY <1>2 DEF Directories
<1>6. inode'[d] = inode[d] /\ entry'[d] = [entry[d] EXCEPT ![p] = Empty]
  BY <1>4, <1>5 DEF Cut
<1>7. Places(d)' = Places(d)
  BY <1>6 DEF Places, BlockCount
<1>8. Places(d) = 1 .. Len(entry[d]) /\ Filled(entry[d])
  BY <1>5, DirectoryPlaces DEF Whole
<1>9. name # "" /\ Empty.m_name = "" /\ Empty \in Entry
  BY NamesAssumption, EmptyIsEntry
<1>10. \A q \in Places(d) : entry'[d][q] = IF q = p THEN Empty ELSE entry[d][q]
  <2>1. entry[d] \in Seq(Entry) /\ p \in 1 .. Len(entry[d])
    BY <1>2, <1>8 DEF Filled
  <2>2. PICK es, fs : es = entry[d] /\ fs = entry'[d]
    OBVIOUS
  <2>3. es \in Seq(Entry) /\ p \in 1 .. Len(es) /\ fs = [es EXCEPT ![p] = Empty]
    BY <1>6, <2>1, <2>2
  <2>4. PICK hole \in Entry : hole = Empty
    BY <1>9
  <2>5. /\ fs \in Seq(Entry)
        /\ \A q \in 1 .. Len(es) : fs[q] = IF q = p THEN hole ELSE es[q]
    <3>1. fs = [es EXCEPT ![p] = hole]
      BY <2>3, <2>4
    <3> QED
      BY <2>3, <3>1, SeqReplaced
  <2> QED
    BY <1>8, <2>2, <2>4, <2>5
<1>11. ASSUME NEW q \in Places(d)
       PROVE  entry'[d][q].m_name # name
  <2>1. CASE q = p
    BY <1>9, <1>10, <2>1
  <2>2. CASE q # p
    BY <1>2, <1>8, <1>9, <1>10, <2>2 DEF Filled
  <2> QED
    BY <2>1, <2>2
<1>12. Named(d, name)' = {}
  BY <1>7, <1>11 DEF Named
<1>13. Lookup(d, name)' = {}
  BY <1>12 DEF Lookup
<1>14. Found(path)' = UNION {Lookup(x, name)' : x \in Found(r)'}
  <2>1. PathsFound'
    BY FoundStep, PTL
  <2> QED
    BY <1>1, <2>1 DEF PathsFound, After
<1> QED
  BY <1>4, <1>13, <1>14

LEMMA UnlinkPlaces ==
  ASSUME TreeInv, PlaceInv, NEW path \in Paths \ {<<>>}, Exists(path), UnlinkEntry(path),
         ~damaged', pending' = <<>>, leaked' = leaked, pending = <<>> \/ path = pending
  PROVE  /\ PlaceInv'
         /\ \A q \in Paths : ~IsPrefix(path, q) => Found(q)' = Found(q)
         /\ Found(path)' = {}
<1>1. Basic /\ Sound /\ ialloc \subseteq Inodes /\ Placed /\ Single
  BY DEF TreeInv, PlaceInv, Basic
<1>2. PICK i : i = GetInode(path) /\ Found(path) = {i}
  BY TreeParts, ThingAtPath
<1>3. PICK d, p : StepTo(path, d, p, i) /\ Cut(i, d, p, Subtree(i))
  BY <1>2, UnlinkCuts
<1>4. PICK gone : gone = Subtree(i) /\ Cut(i, d, p, gone)
  BY <1>3
<1>5. i \in gone /\ 0 \notin gone /\ gone \subseteq ialloc /\ ialloc' = ialloc \ gone
  BY <1>4 DEF Cut, Below
<1>6. \A j \in gone : Alone(j)
  <2>1. \A j \in gone : ~(Cardinality(EntriesOf(j)) > 1)
    BY <1>4 DEF Cut
  <2> QED
    BY <1>1, <2>1, AloneIs
<1>7. \A j \in Directories \ {0} : Alone(j)
  <2>1. CASE pending = <<>>
    BY <1>1, <2>1, AllAlone
  <2>2. CASE path = pending
    BY <1>1, <1>2, <1>5, <1>6, <2>2 DEF Single
  <2> QED
    BY <2>1, <2>2
<1>8. \A q \in Paths : ~IsPrefix(path, q) => StaysFound(gone, q)
  BY <1>3, <1>4, <1>6, <1>7, FoundCut
<1>9. \A q \in Paths : IsPrefix(path, q) => Found(q) \subseteq gone
  BY <1>2, <1>4, FoundUnder
<1>10. Placed'
  <2>1. ASSUME NEW j \in ialloc' \ leaked'
        PROVE  \E q \in Paths : Found(q)' = {j}
    <3>1. j \in ialloc \ leaked /\ j \notin gone
      BY <1>5, <2>1
    <3>2. PICK q \in Paths : Found(q) = {j}
      BY <1>1, <3>1 DEF Placed
    <3>3. ~IsPrefix(path, q)
      BY <1>9, <3>1, <3>2
    <3> QED
      BY <1>8, <3>2, <3>3 DEF StaysFound
  <2> QED
    BY <2>1 DEF Placed
<1>11. ASSUME NEW j, j # 0, NEW x \in Directories', NEW q \in Places(x)', entry'[x][q].m_ino = j
       PROVE  x \in Directories /\ q \in Places(x) /\ entry[x][q].m_ino = j
  <2>1. x \in ialloc /\ x \notin gone /\ x \in Inodes /\ inode'[x].type = "DIR"
    BY <1>1, <1>5, <1>11 DEF Directories
  <2>2. inode'[x] = inode[x]
    BY <1>4, <2>1 DEF Cut
  <2>3. x \in Directories /\ q \in Places(x)
    BY <1>11, <2>1, <2>2 DEF Directories, Places, BlockCount
  <2>4. CASE x # d
    BY <1>4, <1>11, <2>1, <2>3, <2>4 DEF Cut
  <2>5. CASE x = d
    <3>1. entry'[d] = [entry[d] EXCEPT ![p] = Empty] /\ p \in Places(d)
      BY <1>4, <2>1, <2>5 DEF Cut
    <3>2. Places(d) = 1 .. Len(entry[d]) /\ entry[d] \in Seq(Entry)
      BY <1>1, <2>1, <2>2, <2>5, DirectoryPlaces DEF Whole, Filled
    <3>3. Empty \in Entry /\ Empty.m_ino = 0
      BY EmptyIsEntry
    <3>4. entry'[d][q] = IF q = p THEN Empty ELSE entry[d][q]
      BY <2>3, <2>5, <3>1, <3>2, <3>3, SeqReplaced
    <3> QED
      BY <1>11, <2>3, <2>5, <3>3, <3>4
  <2> QED
    BY <2>4, <2>5
<1>12. Single'
  <2>1. ASSUME NEW j \in Directories' \ {0}
        PROVE  Alone(j)'
    <3>1. j \in Directories
      <4>1. j \in ialloc /\ j \notin gone /\ j \in Inodes /\ inode'[j].type = "DIR"
        BY <1>1, <1>5, <2>1 DEF Directories
      <4>2. inode'[j] = inode[j]
        BY <1>4, <4>1 DEF Cut
      <4> QED
        BY <4>1, <4>2 DEF Directories
    <3>2. Alone(j) /\ j # 0
      BY <1>7, <2>1, <3>1
    <3>3. ASSUME NEW x \in Directories', NEW q \in Places(x)', entry'[x][q].m_ino = j
          PROVE  x \in Directories /\ q \in Places(x) /\ entry[x][q].m_ino = j
      <4>1. j # 0 /\ x \in Directories' /\ q \in Places(x)' /\ entry'[x][q].m_ino = j
        BY <3>2, <3>3
      <4>2. x \in Directories /\ q \in Places(x) /\ entry[x][q].m_ino = j
        BY ONLY <1>11, <4>1
      <4> QED
        BY <4>2
    <3> QED
      BY <3>2, <3>3 DEF Alone
  <2> QED
    BY <2>1 DEF Single
<1>13. Found(path)' = {}
  BY <1>1, <1>3, <1>4, <1>8, FoundRemoved
<1> QED
  BY <1>8, <1>10, <1>12, <1>13 DEF PlaceInv, StaysFound

LEMMA SameTree ==
  ASSUME TreeInv, entry' = entry,
         \A x \in ialloc : inode'[x].type = inode[x].type,
         \A x \in Directories : inode'[x].d_size = inode[x].d_size,
         ialloc' \ leaked' \subseteq ialloc \ leaked,
         \A x \in Directories' : x \in Directories \/ Places(x)' = {}
  PROVE  /\ \A q \in Paths : Found(q)' = Found(q)
         /\ Placed => Placed'
         /\ \A j : Alone(j) => Alone(j)'
<1>1. \A x \in Directories : Places(x)' = Places(x)
  BY DEF Directories, Places, BlockCount
<1>2. ASSUME NEW x \in ialloc, NEW name \in Names
      PROVE  Lookup(x, name)' = Lookup(x, name)
  <2>1. CASE inode[x].type # "DIR"
    BY <2>1 DEF Lookup
  <2>2. CASE inode[x].type = "DIR"
    <3>1. Places(x)' = Places(x) /\ inode'[x].type = "DIR"
      BY <1>1, <2>2 DEF Directories
    <3>2. Named(x, name)' = Named(x, name)
      BY <3>1 DEF Named
    <3> QED
      BY <2>2, <3>1, <3>2 DEF Lookup
  <2> QED
    BY <2>1, <2>2
<1>3. \A q \in Paths : Found(q)' = Found(q)
  BY <1>2, FoundAlike
<1>4. Placed => Placed'
  BY <1>3 DEF Placed
<1>5. ASSUME NEW j, Alone(j)
      PROVE  Alone(j)'
  <2>1. ASSUME NEW x \in Directories', NEW q \in Places(x)'
        PROVE  x \in Directories /\ q \in Places(x) /\ entry'[x][q] = entry[x][q]
    BY <1>1, <2>1
  <2> QED
    BY <1>5, <2>1 DEF Alone
<1> QED
  BY <1>3, <1>4, <1>5

LEMMA CreateFailsKeeps ==
  ASSUME TreeInv, TreeInv', NEW path, NEW type \in {"FILE", "DIR"}, CreateFails(path, type)
  PROVE  /\ \A q \in Paths : Found(q)' = Found(q)
         /\ Placed => Placed'
         /\ \A j : Alone(j) => Alone(j)'
         /\ \E i \in Inodes \ ialloc : Directories' \subseteq Directories \cup {i}
<1>1. Basic /\ Sound /\ Unused /\ Sound'
  BY DEF TreeInv
<1>2. PICK i \in Inodes :
        /\ NewInode(i) /\ inode' = Created(i, type)
        /\ ialloc' = ialloc \cup {i} /\ leaked' = leaked \cup {i}
  BY DEF CreateFails
<1>3. i \notin ialloc /\ entry' = entry
  BY <1>2 DEF NewInode, CreateFails
<1>4. \A j \in Inodes \ {i} : inode'[j] = inode[j]
  <2>1. inode' = [inode EXCEPT ![i] = Fresh(type)] /\ DOMAIN inode = Inodes
    BY <1>1, <1>2 DEF Created, Basic
  <2> QED
    BY <2>1
<1>5. \A x \in ialloc : inode'[x] = inode[x]
  BY <1>1, <1>3, <1>4 DEF Basic
<1>6. ASSUME NEW x \in Directories'
      PROVE  x \in Directories \/ (x = i /\ Places(x)' = {})
  <2>1. CASE x = i
    <3>1. entry'[i] = <<>> /\ inode'[i].type = "DIR" /\ i \in Inodes
      BY <1>1, <1>2, <1>3, <1>6, <2>1 DEF Unused, Directories
    <3>2. Places(i)' = 1 .. Len(entry'[i])
      <4>1. PlacesAre'
        BY PlacesAreEntries, PTL
      <4> QED
        BY <1>1, <3>1, <4>1 DEF PlacesAre
    <3>3. Len(<<>>) = 0 /\ 1 .. 0 = {}
      OBVIOUS
    <3> QED
      BY <2>1, <3>1, <3>2, <3>3
  <2>2. CASE x # i
    BY <1>2, <1>5, <1>6, <2>2 DEF Directories
  <2> QED
    BY <2>1, <2>2
<1>7. /\ \A x \in ialloc : inode'[x].type = inode[x].type
      /\ \A x \in Directories : inode'[x].d_size = inode[x].d_size
      /\ ialloc' \ leaked' \subseteq ialloc \ leaked
      /\ \A x \in Directories' : x \in Directories \/ Places(x)' = {}
  BY <1>2, <1>5, <1>6 DEF Directories
<1>8. /\ \A q \in Paths : Found(q)' = Found(q)
      /\ Placed => Placed'
      /\ \A j : Alone(j) => Alone(j)'
  BY <1>3, <1>7, SameTree
<1>9. Directories' \subseteq Directories \cup {i}
  BY <1>6
<1> QED
  BY <1>3, <1>8, <1>9

LEMMA CreateFailsPlaces ==
  ASSUME TreeInv, PlaceInv, TreeInv', pending = <<>>, NEW path, NEW type \in {"FILE", "DIR"},
         CreateFails(path, type)
  PROVE  PlaceInv' /\ \A q \in Paths : Found(q)' = Found(q)
<1>1. Basic /\ Sound /\ Placed /\ Single /\ EntriesInUse
  BY InUseBefore DEF PlaceInv
<1>2. PICK i \in Inodes \ ialloc : Directories' \subseteq Directories \cup {i}
  BY CreateFailsKeeps
<1>3. /\ \A q \in Paths : Found(q)' = Found(q)
      /\ Placed => Placed'
      /\ \A j : Alone(j) => Alone(j)'
  BY CreateFailsKeeps
<1>4. ASSUME NEW j \in Directories' \ {0}
      PROVE  Alone(j)'
  <2>1. CASE j = i
    <3>1. ASSUME NEW x \in Directories, NEW q \in Places(x), entry[x][q].m_ino = i
          PROVE  FALSE
      <4>1. Places(x) = 1 .. Len(entry[x])
        <5>1. x \in Inodes /\ inode[x].type = "DIR"
          BY <1>1 DEF Directories, Basic
        <5> QED
          BY <1>1, <5>1, DirectoryPlaces
      <4>2. i # 0
        BY <1>4, <2>1
      <4>3. i \in Targets(entry[x])
        BY <3>1, <4>1, <4>2 DEF Targets
      <4> QED
        BY <1>1, <1>2, <4>3 DEF EntriesInUse
    <3>2. Alone(i)
      BY <3>1 DEF Alone
    <3> QED
      BY <1>3, <2>1, <3>2
  <2>2. CASE j # i
    <3>1. j \in Directories \ {0}
      BY <1>2, <1>4, <2>2
    <3>2. Alone(j)
      BY <1>1, <3>1, AllAlone
    <3> QED
      BY <1>3, <3>2
  <2> QED
    BY <2>1, <2>2
<1>5. Single'
  BY <1>4 DEF Single
<1> QED
  BY <1>1, <1>3, <1>5 DEF PlaceInv

LEMMA AppendPlaces ==
  ASSUME TreeInv, PlaceInv, pending = <<>>, NEW path \in Taken, AppendBlock(path)
  PROVE  PlaceInv' /\ \A q \in Paths : Found(q)' = Found(q)
<1>1. Basic /\ Sound /\ Placed /\ Single
  BY DEF TreeInv, PlaceInv
<1>2. PICK i \in ialloc : i = GetInode(path)
  BY TreeParts, ThingAtPath DEF Taken
<1>3. i \in Inodes /\ inode[i].type = "FILE"
  BY <1>1, <1>2 DEF Basic, AppendBlock
<1>4. PICK b \in free : inode' = [inode EXCEPT ![i].blocks = Append(@, b), ![i].d_size = @ + 1]
  BY <1>2 DEF AppendBlock
<1>5. PICK node \in Node : node = inode[i]
  BY <1>1, <1>3 DEF Sound, Whole, Listed
<1>6. PICK new : new = Grown(node, b)
  OBVIOUS
<1>7. inode'[i] = new /\ \A j \in Inodes \ {i} : inode'[j] = inode[j]
  <2>1. inode' = [inode EXCEPT ![i] = new] /\ DOMAIN inode = Inodes
    BY <1>1, <1>3, <1>4, <1>5, <1>6 DEF Grown, Basic
  <2> QED
    BY <1>3, <2>1
<1>8. new.type = "FILE"
  BY <1>3, <1>5, <1>6 DEF Grown, Node
<1>9. /\ ialloc' = ialloc /\ entry' = entry /\ pending' = <<>> /\ leaked' = leaked
  BY DEF AppendBlock
<1>10. \A x \in ialloc : inode'[x].type = inode[x].type
  BY <1>1, <1>3, <1>5, <1>7, <1>8 DEF Basic
<1>11. Directories' = Directories
  BY <1>9, <1>10 DEF Directories
<1>12. \A x \in Directories : inode'[x].d_size = inode[x].d_size
  BY <1>1, <1>3, <1>7 DEF Directories, Basic
<1>13. /\ ialloc' \ leaked' \subseteq ialloc \ leaked
       /\ \A x \in Directories' : x \in Directories \/ Places(x)' = {}
  BY <1>9, <1>11
<1>14. /\ \A q \in Paths : Found(q)' = Found(q)
       /\ Placed => Placed'
       /\ \A j : Alone(j) => Alone(j)'
  BY <1>9, <1>10, <1>12, <1>13, SameTree
<1>15. \A j \in Directories \ {0} : Alone(j)
  BY <1>1, AllAlone
<1>16. Single'
  BY <1>11, <1>14, <1>15 DEF Single
<1> QED
  BY <1>1, <1>14, <1>16 DEF PlaceInv

LEMMA NextPlaces ==
  ASSUME TreeInv, PlaceInv, Next, ~damaged'
  PROVE  PlaceInv'
<1>1. TreeInv'
  BY NextTree
<1>2. ASSUME pending = <<>>, NEW path \in Vacant, NEW type \in {"FILE", "DIR"},
             Create(path, type)
      PROVE  PlaceInv'
  <2>1. PICK nodes, d, name, i : Adding(nodes, path, d, name, i) /\ i \notin ialloc
    BY <1>2, CreateAdds
  <2>2. leaked' = leaked
    BY <1>2 DEF Create
  <2> QED
    BY <1>1, <1>2, <2>1, <2>2, AddingPlaces
<1>3. ASSUME pending = <<>>, NEW path \in Vacant, NEW type \in {"FILE", "DIR"},
             CreateFails(path, type)
      PROVE  PlaceInv'
  BY <1>1, <1>3, CreateFailsPlaces
<1>4. ASSUME NEW path \in Paths \ {<<>>}, Exists(path), UnlinkEntry(path),
             pending' = <<>>, leaked' = leaked, pending = <<>> \/ path = pending
      PROVE  PlaceInv'
  BY <1>4, UnlinkPlaces
<1>5. ASSUME pending = <<>>, NEW path \in Taken, Unlink(path)
      PROVE  PlaceInv'
  <2>1. path \in Paths \ {<<>>} /\ Exists(path)
    BY <1>5 DEF Taken, Unlink
  <2>2. UnlinkEntry(path) /\ pending' = <<>> /\ leaked' = leaked
    BY <1>5 DEF Unlink
  <2> QED
    BY <1>4, <1>5, <2>1, <2>2
<1>6. ASSUME pending = <<>>, NEW path \in Taken, AppendBlock(path)
      PROVE  PlaceInv'
  BY <1>6, AppendPlaces
<1>7. ASSUME pending = <<>>, NEW src \in Taken, NEW dst \in Vacant,
             Link(src, dst) \/ Rename(src, dst)
      PROVE  PlaceInv'
  <2>1. PICK i : i = GetInode(src)
    OBVIOUS
  <2>2. PICK d, name : Adding(inode, dst, d, name, i) /\ i \in ialloc
    BY <1>7, <2>1, LinkAdds
  <2>3. leaked' = leaked
    BY <1>7 DEF Link, Rename
  <2>4. CASE Link(src, dst)
    <3>1. inode[i].type = "FILE"
      BY <2>1, <2>4 DEF Link
    <3> QED
      BY <1>1, <1>7, <2>2, <2>3, <3>1, AddingPlaces
  <2>5. CASE Rename(src, dst)
    <3>1. pending' = src /\ src # <<>>
      BY <2>5 DEF Rename
    <3>2. src \in Paths /\ Exists(src) /\ Found(src) = {i}
      BY <2>1, TreeParts, ThingAtPath DEF Taken
    <3>3. Found(src)' = {i}
      <4>1. \A path \in Paths : Exists(path) => Found(path)' = Found(path)
        BY <1>1, <2>2, FoundKept DEF Adding, TreeInv
      <4> QED
        BY <3>2, <4>1
    <3>4. Found(pending)' = {i}
      <4>1. Found(pending)' = Found(src)'
        BY <3>1 DEF Found, Lookup, Named, Places, BlockCount
      <4> QED
        BY <3>3, <4>1
    <3>5. (pending # <<>> /\ i = GetInode(pending))'
      BY <3>1, <3>4 DEF GetInode
    <3> QED
      BY <1>1, <1>7, <2>2, <2>3, <3>5, AddingPlaces
  <2> QED
    BY <1>7, <2>4, <2>5
<1>8. ASSUME EndRename
      PROVE  PlaceInv'
  <2>1. pending # <<>> /\ UnlinkEntry(pending) /\ pending' = <<>> /\ leaked' = leaked
    BY <1>8 DEF EndRename
  <2>2. PICK path \in Paths \ {<<>>} : path = pending
    BY <2>1 DEF TreeInv, Basic
  <2>3. Exists(path) /\ UnlinkEntry(path)
    BY <2>1, <2>2 DEF TreeInv, Ready
  <2> QED
    BY <1>4, <2>1, <2>2, <2>3
<1> QED
  BY <1>2, <1>3, <1>5, <1>6, <1>7, <1>8 DEF Next

LEMMA PlacesAtRest ==
  ASSUME TreeInv, PlaceInv, UNCHANGED vars
  PROVE  PlaceInv'
<1>1. /\ inode' = inode /\ ialloc' = ialloc /\ entry' = entry
      /\ pending' = pending /\ leaked' = leaked
  BY DEF vars
<1>2. Directories' = Directories
  BY <1>1 DEF Directories
<1>3. /\ \A q \in Paths : Found(q)' = Found(q)
      /\ Placed => Placed'
      /\ \A j : Alone(j) => Alone(j)'
  BY <1>1, <1>2, SameTree
<1>4. GetInode(pending)' = GetInode(pending)
  <2>1. PICK q \in Paths : q = pending
    BY DEF TreeInv, Basic
  <2>2. Found(pending)' = Found(q)'
    BY <1>1, <2>1 DEF Found, Lookup, Named, Places, BlockCount
  <2> QED
    BY <1>3, <2>1, <2>2 DEF GetInode
<1>5. Single'
  BY <1>1, <1>2, <1>3, <1>4 DEF Single, PlaceInv
<1> QED
  BY <1>3, <1>5 DEF PlaceInv

LEMMA InitPlaces == Init => PlaceInv
<1>1. SUFFICES ASSUME Init
               PROVE  PlaceInv
  OBVIOUS
<1>2. ialloc = {0} /\ leaked = {}
  BY <1>1 DEF Init
<1>3. Found(<<>>) = {0}
  BY FoundStep DEF PathsFound
<1>4. Placed
  BY <1>2, <1>3, EmptyPath DEF Placed
<1>5. Single
  BY <1>2 DEF Single, Directories
<1> QED
  BY <1>4, <1>5 DEF PlaceInv

(* Until an inode is deleted that had another entry, every inode in use     *)
(* that no create lost is found at a path, and no directory has two entries *)
(* but while a rename moves it.                                             *)
Reachable == ~damaged => TreeInv /\ PlaceInv

(* The invariant of create, unlink, link, rename and writes once more, with *)
(* a path for every inode.                                                  *)
THEOREM PathsReach == Spec => []Reachable
<1>1. Init => Reachable
  BY InitTree, InitPlaces DEF Reachable
<1>2. NameInv /\ NameInv' /\ Reachable /\ [Next]_vars => Reachable'
  <2>1. SUFFICES ASSUME NameInv, NameInv', Reachable, [Next]_vars, ~damaged'
                 PROVE  TreeInv' /\ PlaceInv'
    BY DEF Reachable
  <2>2. ~damaged
    BY <2>1, DamageStays DEF NameInv
  <2>3. TreeInv /\ PlaceInv /\ TreeInv'
    BY <2>1, <2>2 DEF Reachable, NameInv
  <2> QED
    BY <2>1, <2>3, NextPlaces, PlacesAtRest
<1> QED
  BY <1>1, <1>2, NameInvariant, PTL DEF Spec

(* unlink of a tree leaves no orphans: every inode in use is the root, has  *)
(* an entry in a directory in use, or was lost by a create that failed.     *)
THEOREM NoInodeIsOrphaned == Spec => []NoOrphans
<1>1. Reachable => NoOrphans
  <2>1. SUFFICES ASSUME TreeInv, PlaceInv, NEW i \in ialloc \ leaked, i # 0
                 PROVE  EntriesOf(i) # {}
    BY DEF Reachable, NoOrphans
  <2>2. PICK path \in Paths : Found(path) = {i}
    BY <2>1 DEF PlaceInv, Placed
  <2>3. path # <<>>
    BY <2>1, <2>2, FoundStep DEF PathsFound
  <2>4. PICK x, s : StepTo(path, x, s, i)
    BY <2>1, <2>2, <2>3, LastStep
  <2>5. x \in ialloc /\ inode[x].type = "DIR" /\ s \in Places(x) /\ entry[x][s].m_ino = i
    BY <2>4 DEF StepTo, Directories
  <2> DEFINE All == UNION {{y} \X Places(y) : y \in {z \in ialloc : inode[z].type = "DIR"}}
  <2>6. <<x, s>> \in All
    BY <2>5
  <2>7. EntriesOf(i) = {e \in All : entry[e[1]][e[2]].m_ino = i}
    BY DEF EntriesOf
  <2>8. <<x, s>> \in EntriesOf(i)
    <3> HIDE DEF All
    <3> QED
      BY <2>5, <2>6, <2>7
  <2> QED
    BY <2>8
<1> QED
  BY <1>1, PathsReach, PTL
-----------------------------------------------------------------------------
(* Tree, which follows entries, has what paths lead to.                     *)
Nodes(n) == {node \in Paths \X Inodes : Len(node[1]) = n /\ node[2] \in Found(node[1])}
Held(d) == IF inode[d].type = "DIR" THEN Places(d) \ Holes(d) ELSE {}
Under(node) ==
  {<<Append(node[1], entry[node[2]][p].m_name), entry[node[2]][p].m_ino>> : p \in Held(node[2])}
Deeper(S) == UNION {Under(node) : node \in S}

LEMMA AppendedPath ==
  ASSUME NEW q \in Paths, Len(q) < MAX_DEPTH, NEW name \in Names
  PROVE  /\ Append(q, name) \in Paths \ {<<>>} /\ Len(Append(q, name)) = Len(q) + 1
         /\ Front(Append(q, name)) = q /\ Last(Append(q, name)) = name
<1>1. PICK n \in Nat : n = Len(q) /\ n < MAX_DEPTH /\ q \in Seq(Names)
  BY PathParts, NamespaceAssumption
<1>2. PICK t : t = Append(q, name)
  OBVIOUS
<1>3. /\ t \in Seq(Names) /\ Len(t) = n + 1 /\ t[n + 1] = name
      /\ \A k \in 1 .. n : t[k] = q[k]
  BY <1>1, <1>2, AppendProperties
<1>4. t \in Paths /\ t # <<>>
  <2>1. t \in [1 .. n + 1 -> Names]
    BY <1>1, <1>3, LenProperties
  <2>2. n + 1 \in 0 .. MAX_DEPTH
    BY <1>1, NamespaceAssumption
  <2>3. Len(<<>>) = 0
    OBVIOUS
  <2> QED
    BY <1>1, <1>3, <2>1, <2>2, <2>3 DEF Paths
<1>5. Last(t) = name
  BY <1>3 DEF Last
<1>6. PICK r \in Seq(Names) : r = Front(t) /\ Len(r) = n /\ \A k \in 1 .. n : r[k] = t[k]
  <2>1. /\ Front(t) \in Seq(Names) /\ Len(Front(t)) = Len(t) - 1
        /\ \A k \in 1 .. Len(t) - 1 : Front(t)[k] = t[k]
    BY <1>4, PathParts
  <2>2. Len(t) - 1 = n
    BY <1>1, <1>3
  <2> QED
    BY <2>1, <2>2
<1>7. r = q
  <2>1. \A k \in 1 .. n : r[k] = q[k]
    BY <1>3, <1>6
  <2> QED
    BY <1>1, <1>6, <2>1, SeqEqual
<1> QED
  BY <1>1, <1>2, <1>3, <1>4, <1>5, <1>6, <1>7

LEMMA PathAppended ==
  ASSUME NEW q \in Paths \ {<<>>}
  PROVE  q = Append(Front(q), Last(q)) /\ Len(Front(q)) < MAX_DEPTH
<1>1. /\ Front(q) \in Paths /\ Last(q) \in Names /\ Len(q) \in 0 .. MAX_DEPTH
      /\ Len(Front(q)) = Len(q) - 1
  BY PathParts
<1>2. Len(Front(q)) < MAX_DEPTH
  BY <1>1, NamespaceAssumption
<1>3. PICK t \in Paths \ {<<>>} : /\ t = Append(Front(q), Last(q))
                                 /\ Front(t) = Front(q) /\ Last(t) = Last(q)
  BY <1>1, <1>2, AppendedPath
<1>4. t = q
  BY <1>3, PrefixSteps
<1> QED
  BY <1>2, <1>3, <1>4

LEMMA FirstNode == Nodes(0) = {<<<<>>, 0>>}
<1>1. Found(<<>>) = {0} /\ 0 \in Inodes
  BY FoundStep, NamespaceAssumption DEF PathsFound, Inodes
<1>2. <<>> \in Paths /\ Len(<<>>) = 0
  BY EmptyPath
<1>3. ASSUME NEW q \in Paths, Len(q) = 0
      PROVE  q = <<>>
  BY <1>3, PathParts
<1>4. <<<<>>, 0>> \in Nodes(0)
  BY <1>1, <1>2 DEF Nodes
<1>5. ASSUME NEW node \in Nodes(0)
      PROVE  node = <<<<>>, 0>>
  <2>1. PICK q \in Paths, x \in Inodes : node = <<q, x>> /\ Len(q) = 0 /\ x \in Found(q)
    BY DEF Nodes
  <2> QED
    BY <1>1, <1>3, <2>1
<1> QED
  BY <1>4, <1>5

LEMMA NextNodes ==
  ASSUME TreeInv, NEW n \in 1 .. MAX_DEPTH
  PROVE  Nodes(n) = Deeper(Nodes(n - 1))
<1>1. Basic /\ Sound /\ ialloc \subseteq Inodes /\ n \in Nat
  BY NamespaceAssumption DEF TreeInv, Basic
<1>2. ASSUME NEW node \in Nodes(n)
      PROVE  node \in Deeper(Nodes(n - 1))
  <2>1. PICK q \in Paths, y \in Inodes : node = <<q, y>> /\ Len(q) = n /\ y \in Found(q)
    BY DEF Nodes
  <2>2. q # <<>>
    BY <1>1, <2>1
  <2>3. Found(q) = {y}
    BY <2>1, TreeParts, ThingAtPath DEF Exists
  <2>4. PICK x, s : StepTo(q, x, s, y)
    BY <2>2, <2>3, LastStep
  <2>5. PICK r \in Paths : r = Front(q) /\ Len(r) = n - 1 /\ q = Append(r, Last(q))
    BY <2>1, <2>2, PathParts, PathAppended
  <2>6. <<r, x>> \in Nodes(n - 1)
    BY <1>1, <2>4, <2>5 DEF StepTo, Directories, Nodes
  <2>7. /\ s \in Held(x) /\ entry[x][s].m_name = Last(q) /\ entry[x][s].m_ino = y
    BY <2>4 DEF StepTo, Directories, Held, Holes
  <2>8. node \in Under(<<r, x>>)
    BY <2>1, <2>5, <2>7 DEF Under
  <2> QED
    BY <2>6, <2>8 DEF Deeper
<1>3. ASSUME NEW node \in Deeper(Nodes(n - 1))
      PROVE  node \in Nodes(n)
  <2>1. PICK above \in Nodes(n - 1) : node \in Under(above)
    BY DEF Deeper
  <2>2. PICK q \in Paths, x \in Inodes : above = <<q, x>> /\ Len(q) = n - 1 /\ x \in Found(q)
    BY <2>1 DEF Nodes
  <2>3. Found(q) = {x} /\ x \in ialloc
    BY <2>2, TreeParts, ThingAtPath DEF Exists
  <2>4. PICK p \in Held(x) : node = <<Append(q, entry[x][p].m_name), entry[x][p].m_ino>>
    BY <2>1, <2>2 DEF Under
  <2>5. inode[x].type = "DIR" /\ p \in Places(x) /\ entry[x][p].m_ino # 0
    BY <2>4 DEF Held, Holes
  <2>6. /\ Places(x) = 1 .. Len(entry[x]) /\ Len(entry[x]) \in Nat
        /\ Filled(entry[x])
    BY <1>1, <2>2, <2>5, DirectoryPlaces DEF Whole
  <2>7. PICK y, name : y = entry[x][p].m_ino /\ name = entry[x][p].m_name
    OBVIOUS
  <2>8. y \in Inodes /\ name \in Names /\ y # 0
    <3>1. entry[x][p] \in Entry
      BY <2>5, <2>6, ElementOfSeq DEF Filled
    <3>2. name # ""
      BY <2>5, <2>6, <2>7 DEF Filled
    <3> QED
      BY <2>5, <2>7, <3>1, <3>2 DEF Entry
  <2>9. PICK t \in Paths : /\ t = Append(q, name) /\ t # <<>> /\ Len(t) = n
                           /\ Front(t) = q /\ Last(t) = name
    <3>1. Len(q) < MAX_DEPTH /\ Len(q) + 1 = n
      BY <1>1, <2>2, NamespaceAssumption
    <3> QED
      BY <2>8, <3>1, AppendedPath
  <2>10. Found(t) = Lookup(x, name)
    BY <2>3, <2>9, FoundNext
  <2>11. p \in Named(x, name) /\ Named(x, name) \subseteq Nat
    BY <2>5, <2>6, <2>7 DEF Named
  <2>12. Min(Named(x, name)) = p
    <3>1. Min(Named(x, name)) \in Named(x, name)
      BY <2>11, MinIs
    <3>2. name # ""
      BY <2>8, NamesAssumption
    <3> QED
      BY <2>6, <2>11, <3>1, <3>2 DEF Named, Filled
  <2>13. Found(t) = {y}
    BY <2>5, <2>7, <2>10, <2>11, <2>12 DEF Lookup
  <2>14. node = <<t, y>>
    BY <2>4, <2>7, <2>9
  <2> QED
    BY <2>8, <2>9, <2>13, <2>14 DEF Nodes
<1> QED
  BY <1>2, <1>3

(* The levels of Tree as a function of the number of names.                 *)
Storeys ==
  CHOOSE g : g = [n \in 0 .. MAX_DEPTH |->
    IF n = 0 THEN {<<<<>>, 0>>}
    ELSE UNION {{<<Append(node[1], entry[node[2]][p].m_name), entry[node[2]][p].m_ino>> :
                   p \in IF inode[node[2]].type = "DIR"
                           THEN Places(node[2]) \ Holes(node[2]) ELSE {}} :
                node \in g[n - 1]}]
Rises(g) ==
  g = [n \in 0 .. MAX_DEPTH |-> IF n = 0 THEN {<<<<>>, 0>>} ELSE Deeper(g[n - 1])]

LEMMA TreeIsStoreys == Tree = UNION {Storeys[n] : n \in 0 .. MAX_DEPTH}
BY DEF Tree, Storeys

LEMMA StoreysRise ==
  ASSUME NEW g, Rises(g)
  PROVE  Rises(Storeys)
<1>1. \E f : f = [n \in 0 .. MAX_DEPTH |->
        IF n = 0 THEN {<<<<>>, 0>>}
        ELSE UNION {{<<Append(node[1], entry[node[2]][p].m_name), entry[node[2]][p].m_ino>> :
                       p \in IF inode[node[2]].type = "DIR"
                               THEN Places(node[2]) \ Holes(node[2]) ELSE {}} :
                    node \in f[n - 1]}]
  BY DEF Rises, Deeper, Under, Held
<1> QED
  BY <1>1 DEF Storeys, Rises, Deeper, Under, Held

TreeIs ==
  TreeInv => \A node : node \in Tree <=> node \in Paths \X Inodes /\ node[2] \in Found(node[1])

LEMMA TreeIsPaths == TreeIs
<1> SUFFICES ASSUME TreeInv
             PROVE  \A node :
                      node \in Tree <=> node \in Paths \X Inodes /\ node[2] \in Found(node[1])
  BY DEF TreeIs
<1>1. MAX_DEPTH \in Nat
  BY NamespaceAssumption
<1>2. Rises([n \in 0 .. MAX_DEPTH |-> Nodes(n)])
  <2>1. PICK g : g = [n \in 0 .. MAX_DEPTH |-> Nodes(n)]
    OBVIOUS
  <2>2. ASSUME NEW n \in 0 .. MAX_DEPTH
        PROVE  g[n] = IF n = 0 THEN {<<<<>>, 0>>} ELSE Deeper(g[n - 1])
    <3>1. CASE n = 0
      BY <2>1, <3>1, FirstNode
    <3>2. CASE n # 0
      <4>1. n \in 1 .. MAX_DEPTH /\ n - 1 \in 0 .. MAX_DEPTH
        BY <1>1, <3>2
      <4>2. Nodes(n) = Deeper(Nodes(n - 1))
        BY <4>1, NextNodes
      <4>3. g[n - 1] = Nodes(n - 1) /\ g[n] = Nodes(n)
        BY <2>1, <4>1
      <4> QED
        BY <3>2, <4>2, <4>3
    <3> QED
      BY <3>1, <3>2
  <2>3. g = [n \in 0 .. MAX_DEPTH |-> IF n = 0 THEN {<<<<>>, 0>>} ELSE Deeper(g[n - 1])]
    BY <2>1, <2>2
  <2> QED
    BY <2>1, <2>3 DEF Rises
<1>3. PICK g : g = Storeys /\ Rises(g)
  BY <1>2, StoreysRise
<1>4. \A n \in 0 .. MAX_DEPTH : g[n] = IF n = 0 THEN {<<<<>>, 0>>} ELSE Deeper(g[n - 1])
  BY <1>3 DEF Rises
<1> DEFINE Bad == {n \in 0 .. MAX_DEPTH : g[n] # Nodes(n)}
<1>5. Bad = {}
  <2>1. SUFFICES ASSUME Bad # {}
                 PROVE  FALSE
    OBVIOUS
  <2>2. PICK n \in Bad : \A m \in Bad : n <= m
    <3>1. Bad \subseteq Nat
      OBVIOUS
    <3> HIDE DEF Bad
    <3> QED
      BY <2>1, <3>1, LeastNumber
  <2>3. n \in 0 .. MAX_DEPTH /\ g[n] # Nodes(n)
    OBVIOUS
  <2>4. n # 0
    BY <1>4, <2>3, FirstNode
  <2>5. n \in 1 .. MAX_DEPTH /\ n - 1 \in 0 .. MAX_DEPTH /\ ~(n <= n - 1)
    BY <1>1, <2>3, <2>4
  <2>6. n - 1 \notin Bad
    <3> HIDE DEF Bad
    <3> QED
      BY <2>2, <2>5
  <2>7. g[n - 1] = Nodes(n - 1)
    BY <2>5, <2>6
  <2>8. Nodes(n) = Deeper(Nodes(n - 1))
    BY <2>5, NextNodes
  <2>9. g[n] = Deeper(g[n - 1])
    BY <1>4, <2>3, <2>4
  <2> QED
    BY <2>3, <2>7, <2>8, <2>9
<1>6. \A n \in 0 .. MAX_DEPTH : Storeys[n] = Nodes(n)
  BY <1>3, <1>5
<1>7. Tree = UNION {Storeys[n] : n \in 0 .. MAX_DEPTH}
  BY TreeIsStoreys
<1>8. ASSUME NEW node
      PROVE  node \in Tree <=> \E n \in 0 .. MAX_DEPTH : node \in Nodes(n)
  BY <1>6, <1>7
<1>9. \A q \in Paths : Len(q) \in 0 .. MAX_DEPTH
  BY PathParts
<1> QED
  BY <1>8, <1>9 DEF Nodes

(* Below a path under which no name is found nothing is found: a path that  *)
(* leads nowhere, or to an inode without entries.                           *)
Barren ==
  \A path \in Paths \ {<<>>} :
    (\A name \in Names : After(Found(path), name) = {}) =>
      \A q \in Paths : IsPrefix(path, q) /\ q # path => Found(q) = {}

LEMMA NothingBelow == Barren
<1> SUFFICES ASSUME NEW path \in Paths \ {<<>>},
                    \A name \in Names : After(Found(path), name) = {}
             PROVE  \A q \in Paths : IsPrefix(path, q) /\ q # path => Found(q) = {}
  BY DEF Barren
<1> DEFINE Bad == {n \in Nat : \E q \in Paths :
                     Len(q) = n /\ IsPrefix(path, q) /\ q # path /\ Found(q) # {}}
<1>1. Bad = {}
  <2>1. SUFFICES ASSUME Bad # {}
                 PROVE  FALSE
    OBVIOUS
  <2>2. PICK n \in Bad : \A m \in Bad : n <= m
    <3>1. Bad \subseteq Nat
      OBVIOUS
    <3> HIDE DEF Bad
    <3> QED
      BY <2>1, <3>1, LeastNumber
  <2>3. PICK q \in Paths : Len(q) = n /\ IsPrefix(path, q) /\ q # path /\ Found(q) # {}
    OBVIOUS
  <2>4. q # <<>>
    BY <2>3, PrefixSteps
  <2>5. PICK r \in Paths : /\ r = Front(q) /\ Last(q) \in Names /\ n \in Nat /\ n - 1 \in Nat
                           /\ Len(r) = n - 1 /\ Found(q) = After(Found(r), Last(q))
    BY <2>3, <2>4, FoundNext, FoundStep DEF PathsFound
  <2>6. IsPrefix(path, r)
    BY <2>3, <2>4, <2>5, PrefixSteps
  <2>7. r # path
    BY <2>3, <2>5
  <2>8. n - 1 \notin Bad
    <3>1. ~(n <= n - 1)
      BY <2>5
    <3> HIDE DEF Bad
    <3> QED
      BY <2>2, <3>1
  <2>9. Found(r) = {}
    BY <2>5, <2>6, <2>7, <2>8
  <2> QED
    BY <2>3, <2>5, <2>9 DEF After
<1>2. ASSUME NEW q \in Paths, IsPrefix(path, q), q # path
      PROVE  Found(q) = {}
  <2>1. Len(q) \in Nat
    BY PathParts, NamespaceAssumption
  <2> QED
    BY <1>1, <1>2, <2>1
<1> QED
  BY <1>2

LEMMA NothingUnderNothing ==
  ASSUME NEW path \in Paths \ {<<>>}, Found(path) = {}
  PROVE  \A q \in Paths : IsPrefix(path, q) => Found(q) = {}
<1>1. \A name \in Names : After(Found(path), name) = {}
  BY DEF After
<1> QED
  BY <1>1, NothingBelow DEF Barren

(* Before and after a step the tree is what the paths lead to.              *)
LEMMA TreesArePaths ==
  ASSUME TreeInv, TreeInv'
  PROVE  /\ Tree \subseteq Paths \X Inodes /\ Tree' \subseteq Paths \X Inodes
         /\ \A q \in Paths, y \in Inodes :
              (<<q, y>> \in Tree <=> y \in Found(q)) /\ (<<q, y>> \in Tree' <=> y \in Found(q)')
<1>1. PICK old, new : old = Tree /\ new = Tree'
  OBVIOUS
<1>2. \A node : node \in old <=> node \in Paths \X Inodes /\ node[2] \in Found(node[1])
  BY <1>1, TreeIsPaths DEF TreeIs
<1>3. \A node : node \in new <=> node \in Paths \X Inodes /\ node[2] \in Found(node[1])'
  <2>1. TreeIs'
    BY TreeIsPaths, PTL
  <2> QED
    BY <1>1, <2>1 DEF TreeIs
<1>4. old \subseteq Paths \X Inodes /\ new \subseteq Paths \X Inodes
  BY <1>2, <1>3
<1>5. \A q \in Paths, y \in Inodes : <<q, y>> \in old <=> y \in Found(q)
  BY <1>2
<1>6. \A q \in Paths, y \in Inodes : <<q, y>> \in new <=> y \in Found(q)'
  BY <1>3
<1> QED
  BY <1>1, <1>4, <1>5, <1>6

LEMMA SamePathsSameTree ==
  ASSUME TreeInv, TreeInv', \A q \in Paths : Found(q)' = Found(q)
  PROVE  Tree' = Tree
<1>1. PICK old, new : old = Tree /\ new = Tree'
  OBVIOUS
<1>2. /\ old \subseteq Paths \X Inodes /\ new \subseteq Paths \X Inodes
      /\ \A q \in Paths, y \in Inodes : <<q, y>> \in new <=> <<q, y>> \in old
  BY <1>1, TreesArePaths
<1>3. old = new
  BY <1>2
<1> QED
  BY <1>1, <1>3

(* unlink: the path and all below it are gone, all others are left.         *)
LEMMA UnlinkTree ==
  ASSUME TreeInv, PlaceInv, TreeInv', ~damaged',
         NEW path \in Paths \ {<<>>}, Exists(path), UnlinkEntry(path),
         pending' = <<>>, leaked' = leaked, pending = <<>> \/ path = pending
  PROVE  Tree' = Outside(Tree, path)
<1>1. /\ \A q \in Paths : ~IsPrefix(path, q) => Found(q)' = Found(q)
      /\ Found(path)' = {}
  BY UnlinkPlaces
<1>2. \A q \in Paths : IsPrefix(path, q) => Found(q)' = {}
  <2>1. \A name \in Names : After(Found(path), name)' = {}
    BY <1>1 DEF After
  <2>2. Barren'
    BY NothingBelow, PTL
  <2> QED
    BY <1>1, <2>1, <2>2 DEF Barren
<1>3. PICK old, new : old = Tree /\ new = Tree'
  OBVIOUS
<1>4. /\ old \subseteq Paths \X Inodes /\ new \subseteq Paths \X Inodes
      /\ \A q \in Paths, y \in Inodes :
           (<<q, y>> \in old <=> y \in Found(q)) /\ (<<q, y>> \in new <=> y \in Found(q)')
  BY <1>3, TreesArePaths
<1>5. \A q \in Paths, y \in Inodes : <<q, y>> \in new <=> <<q, y>> \in old /\ ~IsPrefix(path, q)
  BY <1>1, <1>2, <1>4
<1>6. new = Outside(old, path)
  BY <1>4, <1>5 DEF Outside
<1> QED
  BY <1>3, <1>6

(* A new entry: its path leads to the inode it names, and every path not    *)
(* below it leads where it led.                                             *)
LEMMA AddingTree ==
  ASSUME TreeInv, PlaceInv, pending = <<>>, TreeInv', NEW dst \in Vacant,
         NEW nodes, NEW d, NEW name, NEW i, Adding(nodes, dst, d, name, i)
  PROVE  /\ Outside(Tree', dst) = Tree /\ <<dst, i>> \in Tree'
         /\ Found(dst)' = {i} /\ dst \in Paths \ {<<>>} /\ i \in Inodes
<1>1. /\ dst \in Paths \ {<<>>} /\ Found(Front(dst)) = {d} /\ Last(dst) = name
      /\ d \in Directories /\ name \in Names /\ Named(d, name) = {}
      /\ i \in Inodes \ {0} /\ Added(nodes, d, name, i)
      /\ \A j \in ialloc : nodes[j] = inode[j]
  BY DEF Adding
<1>2. Sound' /\ \A j \in Directories \ {0} : Alone(j)
  BY AllAlone DEF TreeInv, PlaceInv
<1>3. \A q \in Paths : ~IsPrefix(dst, q) => Found(q)' = Found(q)
  BY <1>1, <1>2, FoundBeside
<1>4. Found(dst)' = {i}
  BY <1>1, <1>2, FoundNew
<1>5. \A q \in Paths : IsPrefix(dst, q) => Found(q) = {}
  BY <1>1, NothingUnderNothing DEF Vacant, Exists
<1>6. PICK old, new : old = Tree /\ new = Tree'
  OBVIOUS
<1>7. /\ old \subseteq Paths \X Inodes /\ new \subseteq Paths \X Inodes
      /\ \A q \in Paths, y \in Inodes :
           (<<q, y>> \in old <=> y \in Found(q)) /\ (<<q, y>> \in new <=> y \in Found(q)')
  BY <1>6, TreesArePaths
<1>8. \A q \in Paths, y \in Inodes : <<q, y>> \in old <=> <<q, y>> \in new /\ ~IsPrefix(dst, q)
  BY <1>3, <1>5, <1>7
<1>9. Outside(new, dst) = old
  BY <1>7, <1>8 DEF Outside
<1>10. <<dst, i>> \in new
  BY <1>1, <1>4, <1>7
<1> QED
  BY <1>1, <1>4, <1>6, <1>9, <1>10

(* create: the new inode is empty, so its path is all that is added.        *)
LEMMA CreateTree ==
  ASSUME TreeInv, PlaceInv, pending = <<>>, TreeInv', NEW dst \in Vacant,
         NEW nodes, NEW d, NEW name, NEW i, Adding(nodes, dst, d, name, i), i \notin ialloc
  PROVE  i \in ialloc' \ ialloc /\ Tree' = Tree \cup {<<dst, i>>}
<1>1. /\ Outside(Tree', dst) = Tree /\ Found(dst)' = {i}
      /\ dst \in Paths \ {<<>>} /\ i \in Inodes
  BY AddingTree
<1>2. d \in Directories /\ Added(nodes, d, name, i) /\ Taking(nodes, i)
  BY DEF Adding
<1>3. i \in ialloc' /\ entry'[i] = <<>>
  <2>1. i # d
    BY <1>2 DEF Directories
  <2>2. entry[i] = <<>>
    BY <1>1 DEF TreeInv, Unused
  <2> QED
    BY <1>1, <1>2, <2>1, <2>2 DEF Added, Taking
<1>4. \A other \in Names : Lookup(i, other)' = {}
  <2>1. CASE inode'[i].type # "DIR"
    BY <2>1 DEF Lookup
  <2>2. CASE inode'[i].type = "DIR"
    <3>1. Places(i)' = 1 .. Len(entry'[i])
      <4>1. PlacesAre' /\ Sound'
        BY PlacesAreEntries, PTL DEF TreeInv
      <4> QED
        BY <1>1, <2>2, <4>1 DEF PlacesAre
    <3>2. Places(i)' = {}
      <4>1. Len(<<>>) = 0 /\ 1 .. 0 = {}
        OBVIOUS
      <4> QED
        BY <1>3, <3>1, <4>1
    <3> QED
      BY <3>2 DEF Lookup, Named
  <2> QED
    BY <2>1, <2>2
<1>5. \A q \in Paths : IsPrefix(dst, q) /\ q # dst => Found(q)' = {}
  <2>1. \A other \in Names : After(Found(dst), other)' = {}
    BY <1>1, <1>4 DEF After
  <2>2. Barren'
    BY NothingBelow, PTL
  <2> QED
    BY <1>1, <2>1, <2>2 DEF Barren
<1>6. PICK old, new : old = Tree /\ new = Tree'
  OBVIOUS
<1>7. /\ new \subseteq Paths \X Inodes /\ old = Outside(new, dst)
      /\ \A q \in Paths, y \in Inodes : <<q, y>> \in new <=> y \in Found(q)'
  BY <1>1, <1>6, TreesArePaths
<1>8. \A q \in Paths, y \in Inodes :
        <<q, y>> \in new /\ IsPrefix(dst, q) <=> q = dst /\ y = i
  BY <1>1, <1>5, <1>7, PrefixSteps
<1>9. \A node \in new : IsPrefix(dst, node[1]) <=> node = <<dst, i>>
  BY <1>7, <1>8
<1>10. <<dst, i>> \in new
  BY <1>1, <1>8
<1>11. new = old \cup {<<dst, i>>}
  BY <1>7, <1>9, <1>10 DEF Outside
<1> QED
  BY <1>3, <1>6, <1>11

(* What each call does is what its path says.                               *)
LEMMA NextChanges ==
  ASSUME TreeInv, PlaceInv, TreeInv', Next, ~damaged'
  PROVE  TreeChange(Tree, Tree')
<1>1. ASSUME pending = <<>>, NEW path \in Vacant, NEW type \in {"FILE", "DIR"},
             Create(path, type)
      PROVE  TreeChange(Tree, Tree')
  <2>1. PICK nodes, d, name, i : Adding(nodes, path, d, name, i) /\ i \notin ialloc
    BY <1>1, CreateAdds
  <2>2. i \in ialloc' \ ialloc /\ Tree' = Tree \cup {<<path, i>>}
    BY <1>1, <2>1, CreateTree
  <2> QED
    BY <1>1, <2>2 DEF TreeChange
<1>2. ASSUME pending = <<>>, NEW path \in Vacant, NEW type \in {"FILE", "DIR"},
             CreateFails(path, type)
      PROVE  TreeChange(Tree, Tree')
  <2>1. \A q \in Paths : Found(q)' = Found(q)
    BY <1>2, CreateFailsPlaces
  <2>2. Tree' = Tree
    BY <2>1, SamePathsSameTree
  <2> QED
    BY <1>2, <2>2 DEF TreeChange
<1>3. ASSUME pending = <<>>, NEW path \in Taken, AppendBlock(path)
      PROVE  TreeChange(Tree, Tree')
  <2>1. \A q \in Paths : Found(q)' = Found(q)
    BY <1>3, AppendPlaces
  <2>2. Tree' = Tree
    BY <2>1, SamePathsSameTree
  <2> QED
    BY <1>3, <2>2 DEF TreeChange
<1>4. ASSUME pending = <<>>, NEW path \in Taken, Unlink(path)
      PROVE  TreeChange(Tree, Tree')
  <2>1. path \in Paths \ {<<>>} /\ Exists(path)
    BY <1>4 DEF Taken, Unlink
  <2>2. UnlinkEntry(path) /\ pending' = <<>> /\ leaked' = leaked
    BY <1>4 DEF Unlink
  <2>3. Tree' = Outside(Tree, path)
    BY <1>4, <2>1, <2>2, UnlinkTree
  <2> QED
    BY <1>4, <2>3 DEF TreeChange
<1>5. ASSUME EndRename
      PROVE  TreeChange(Tree, Tree')
  <2>1. pending # <<>> /\ UnlinkEntry(pending) /\ pending' = <<>> /\ leaked' = leaked
    BY <1>5 DEF EndRename
  <2>2. PICK path \in Paths \ {<<>>} : path = pending
    BY <2>1 DEF TreeInv, Basic
  <2>3. Exists(path) /\ UnlinkEntry(path)
    BY <2>1, <2>2 DEF TreeInv, Ready
  <2>4. Tree' = Outside(Tree, path)
    BY <2>1, <2>2, <2>3, UnlinkTree
  <2> QED
    BY <1>5, <2>2, <2>3, <2>4 DEF TreeChange, Taken
<1>6. ASSUME pending = <<>>, NEW src \in Taken, NEW dst \in Vacant,
             Link(src, dst) \/ Rename(src, dst)
      PROVE  TreeChange(Tree, Tree')
  <2>1. PICK d, name : Adding(inode, dst, d, name, GetInode(src))
    BY <1>6, LinkAdds
  <2>2. Outside(Tree', dst) = Tree /\ <<dst, GetInode(src)>> \in Tree'
    BY <1>6, <2>1, AddingTree
  <2> QED
    BY <1>6, <2>2 DEF TreeChange
<1> QED
  BY <1>1, <1>2, <1>3, <1>4, <1>5, <1>6 DEF Next

(* Every call does to the tree what its path says and nothing else.         *)
THEOREM StepsAlterOnePath == Spec => TreeStep
<1>1. NameInv /\ NameInv' /\ Reachable /\ [Next]_vars
        => [~damaged' => \E old \in {Tree}, new \in {Tree'} : TreeChange(old, new)]_vars
  <2>1. SUFFICES ASSUME NameInv, NameInv', Reachable, [Next]_vars, ~(UNCHANGED vars), ~damaged'
                 PROVE  \E old \in {Tree}, new \in {Tree'} : TreeChange(old, new)
    OBVIOUS
  <2>2. Next /\ ~damaged
    BY <2>1, DamageStays DEF NameInv
  <2>3. TreeInv /\ PlaceInv /\ TreeInv'
    BY <2>1, <2>2 DEF Reachable, NameInv
  <2>4. TreeChange(Tree, Tree')
    BY <2>1, <2>2, <2>3, NextChanges
  <2> QED
    BY <2>4
<1>2. Spec => [][~damaged' => \E old \in {Tree}, new \in {Tree'} : TreeChange(old, new)]_vars
  BY <1>1, NameInvariant, PathsReach, PTL DEF Spec
<1> QED
  BY <1>2 DEF TreeStep
-----------------------------------------------------------------------------
(* The table of handles: nothing that the tree does is asked for here.     *)

(* Closing handles leaves the others as they are.                           *)
LEMMA FewerHandles ==
  ASSUME HandlesTypeOK, NEW S \in SUBSET Opened,
         files' = Restrict(files, S), UNCHANGED new_handle
  PROVE  HandlesTypeOK'
<1>1. Opened' = S /\ \A h \in S : files'[h] = files[h]
  BY DEF Restrict, Opened
<1> QED
  BY <1>1 DEF HandlesTypeOK, Opened

LEMMA PopKeepsHandles ==
  ASSUME HandlesTypeOK, NEW path, Pop(path)
  PROVE  HandlesTypeOK'
<1>1. PICK S \in SUBSET Opened : files' = Restrict(files, S)
  BY DEF Pop
<1>2. UNCHANGED new_handle
  BY DEF Pop
<1> QED
  BY <1>1, <1>2, FewerHandles

LEMMA OpenKeepsHandles ==
  ASSUME HandlesTypeOK, NEW path \in Paths, Open(path)
  PROVE  HandlesTypeOK'
<1>1. /\ new_handle \in 1 .. MAX_HANDLES + 1 /\ new_handle <= MAX_HANDLES
      /\ Opened \subseteq 1 .. new_handle - 1
      /\ HandlesOf(path) = {}
      /\ new_handle' = new_handle + 1
      /\ files' = [h \in Opened \cup {new_handle} |-> IF h = new_handle THEN path ELSE files[h]]
  BY DEF HandlesTypeOK, Open
<1>2. Opened' = Opened \cup {new_handle} /\ new_handle \notin Opened
  BY <1>1, HandlesAssumption DEF Opened
<1>3. /\ files'[new_handle] = path
      /\ \A h \in Opened : files'[h] = files[h] /\ files[h] # path
  BY <1>1, <1>2 DEF HandlesOf
<1>4. /\ new_handle' \in 1 .. MAX_HANDLES + 1
      /\ Opened' \subseteq 1 .. new_handle' - 1
  BY <1>1, <1>2, HandlesAssumption
<1>5. \A h \in Opened' : files'[h] \in Paths
  BY <1>2, <1>3 DEF HandlesTypeOK
<1>6. \A h, k \in Opened' : files'[h] = files'[k] => h = k
  BY <1>2, <1>3 DEF HandlesTypeOK
<1> QED
  BY <1>4, <1>5, <1>6 DEF HandlesTypeOK

LEMMA HandlesStep == HandlesTypeOK /\ [HandlesNext]_allVars => HandlesTypeOK'
<1> SUFFICES ASSUME HandlesTypeOK, [HandlesNext]_allVars
             PROVE  HandlesTypeOK'
  OBVIOUS
<1>1. ASSUME NEW path \in Paths, Open(path)
      PROVE  HandlesTypeOK'
  BY <1>1, OpenKeepsHandles
<1>2. ASSUME NEW path \in Paths, CloseAndUnlink(path)
      PROVE  HandlesTypeOK'
  BY <1>2, PopKeepsHandles DEF CloseAndUnlink
<1>3. ASSUME NEW h \in Opened, Close(h)
      PROVE  HandlesTypeOK'
  <2>1. /\ files' = Restrict(files, Opened \ {h}) /\ UNCHANGED new_handle
        /\ Opened \ {h} \in SUBSET Opened
    BY <1>3 DEF Close
  <2> QED
    BY <2>1, FewerHandles
<1>4. CASE EndMove
  BY <1>4, PopKeepsHandles DEF EndMove
<1>5. CASE UNCHANGED <<files, new_handle>>
  BY <1>5 DEF HandlesTypeOK, Opened
<1>6. CASE Format
  <2>1. files' = <<>> /\ new_handle' = 1
    BY <1>6 DEF Format
  <2>2. Opened' = {}
    BY <2>1 DEF Opened
  <2> QED
    BY <2>1, <2>2, HandlesAssumption DEF HandlesTypeOK
<1>7. CASE Inherited
  BY <1>5, <1>7 DEF Inherited, handleVars
<1>8. CASE UNCHANGED allVars
  BY <1>5, <1>8 DEF allVars
<1> QED
  BY <1>1, <1>2, <1>3, <1>4, <1>6, <1>7, <1>8 DEF HandlesNext

(* open, close, unlink, both halves of a rename and format keep one handle  *)
(* for a path, so that the one that unlink pops is the last.                *)
THEOREM OneHandleForAPath == HandlesSpec => []HandlesTypeOK
<1>1. HandlesInit => HandlesTypeOK
  <2> SUFFICES ASSUME HandlesInit
               PROVE  HandlesTypeOK
    OBVIOUS
  <2>1. files = <<>> /\ new_handle = 1
    BY DEF HandlesInit
  <2>2. Opened = {}
    BY <2>1 DEF Opened
  <2> QED
    BY <2>1, <2>2, HandlesAssumption DEF HandlesTypeOK
<1> QED
  BY <1>1, HandlesStep, PTL DEF HandlesSpec
-----------------------------------------------------------------------------
(* Open files.  What the tree does under open handles is what Next does,    *)
(* but that a rename may give up half-way, and format starts again.         *)
GivenUp ==
  /\ inode' = inode /\ ialloc' = ialloc /\ entry' = entry /\ free' = free
  /\ leaked' = leaked /\ damaged' = damaged
  /\ pending' = pending \/ pending' = <<>>

LEMMA HandlesTree == HandlesNext => Next \/ GivenUp \/ Init'
<1>1. SUFFICES ASSUME HandlesNext
               PROVE  Next \/ GivenUp \/ Init'
  OBVIOUS
<1>2. ASSUME NEW path \in Paths, Open(path)
      PROVE  GivenUp
  BY <1>2 DEF Open, GivenUp, vars
<1>3. ASSUME NEW path \in Paths, CloseAndUnlink(path)
      PROVE  Next \/ GivenUp
  <2>1. pending = <<>> /\ path # <<>> /\ UnlinkHere(path) /\ UNCHANGED <<pending, leaked>>
    BY <1>3 DEF CloseAndUnlink
  <2>2. CASE Exists(path) /\ UnlinkEntry(path)
    <3>1. path \in Taken /\ Unlink(path)
      BY <2>1, <2>2 DEF Taken, Unlink
    <3> QED
      BY <2>1, <3>1 DEF Next
  <2>3. CASE UNCHANGED <<inode, ialloc, entry, free, damaged>>
    BY <2>1, <2>3 DEF GivenUp
  <2> QED
    BY <2>1, <2>2, <2>3 DEF UnlinkHere
<1>4. ASSUME NEW h \in Opened, Close(h)
      PROVE  GivenUp
  BY <1>4 DEF Close, GivenUp, vars
<1>5. ASSUME EndMove
      PROVE  Next \/ GivenUp
  <2>1. pending # <<>> /\ UnlinkHere(pending) /\ pending' = <<>> /\ UNCHANGED leaked
    BY <1>5 DEF EndMove
  <2>2. CASE UnlinkEntry(pending)
    BY <2>1, <2>2 DEF EndRename, Next
  <2>3. CASE UNCHANGED <<inode, ialloc, entry, free, damaged>>
    BY <2>1, <2>3 DEF GivenUp
  <2> QED
    BY <2>1, <2>2, <2>3 DEF UnlinkHere
<1>6. ASSUME Inherited
      PROVE  Next
  BY <1>6 DEF Inherited, Next
<1>7. ASSUME Format
      PROVE  Init'
  BY <1>7 DEF Format, Init
<1> QED
  BY <1>1, <1>2, <1>3, <1>4, <1>5, <1>6, <1>7 DEF HandlesNext

LEMMA GivenUpTree ==
  ASSUME TreeInv, GivenUp, ~damaged'
  PROVE  TreeInv' /\ \A q \in Paths : Found(q)' = Found(q)
<1>1. /\ inode' = inode /\ ialloc' = ialloc /\ entry' = entry /\ free' = free
      /\ leaked' = leaked /\ damaged' = damaged
  BY DEF GivenUp
<1>2. TreeInv'
  <2>1. CASE pending' = pending
    BY <1>1, <2>1, NextTree DEF vars
  <2>2. CASE pending' = <<>>
    <3>1. Basic' /\ Sound' /\ Unused' /\ Links'
      BY <1>1, <2>2, EmptyPath DEF TreeInv, Basic, Sound, Unused, Links
    <3>2. Owned'
      BY <1>1 DEF TreeInv, Owned, Owns
    <3>3. DeletedWithLastLink'
      BY <1>1 DEF TreeInv, DeletedWithLastLink, Directories, Places, Holes, BlockCount
    <3> QED
      BY <2>2, <3>1, <3>2, <3>3, ReadyAtRest DEF TreeInv
  <2> QED
    BY <2>1, <2>2 DEF GivenUp
<1>3. Directories' = Directories
  BY <1>1 DEF Directories
<1>4. \A q \in Paths : Found(q)' = Found(q)
  BY <1>1, <1>3, SameTree
<1> QED
  BY <1>2, <1>4

(* The invariant of the tree holds under open handles as well.              *)
LEMMA HandlesKeepTree == NameInv /\ [HandlesNext]_allVars => NameInv'
<1>1. SUFFICES ASSUME NameInv, [HandlesNext]_allVars
               PROVE  NameInv'
  OBVIOUS
<1>2. Next \/ GivenUp \/ Init'
  <2>1. UNCHANGED allVars => GivenUp
    BY DEF allVars, GivenUp
  <2> QED
    BY <1>1, <2>1, HandlesTree
<1>3. CASE Next
  <2>1. damaged' \in BOOLEAN /\ (damaged => damaged')
    BY <1>1, <1>3, DamageStays DEF NameInv
  <2>2. ~damaged' => TreeInv'
    BY <1>1, <1>3, <2>1, NextTree DEF NameInv
  <2> QED
    BY <2>1, <2>2 DEF NameInv
<1>4. CASE GivenUp
  <2>1. damaged' = damaged
    BY <1>4 DEF GivenUp
  <2> QED
    BY <1>1, <1>4, <2>1, GivenUpTree DEF NameInv
<1>5. CASE Init'
  <2>1. (Init => TreeInv)'
    BY InitTree, PTL
  <2>2. damaged' = FALSE
    BY <1>5 DEF Init
  <2> QED
    BY <1>5, <2>1, <2>2 DEF NameInv
<1> QED
  BY <1>2, <1>3, <1>4, <1>5

(* The calls of DiskWithHandle keep the invariant of the tree as well: what *)
(* it overrides only leaves a rename half-way.                              *)
THEOREM TreeUnderHandles == HandlesSpec => []NameInv
<1>1. HandlesInit => NameInv
  BY InitTree DEF HandlesInit, NameInv, Init
<1> QED
  BY <1>1, HandlesKeepTree, PTL DEF HandlesSpec
-----------------------------------------------------------------------------
(* unlink of a file, also of one that has other entries.                    *)
LEMMA FileHasNoTree ==
  ASSUME NEW i, inode[i].type = "FILE"
  PROVE  Subtree(i) = {i}
<1>1. PICK g : g = Levels(i)
  OBVIOUS
<1>2. g[0] = {i} /\ \A n \in 1 .. MAX_DEPTH : g[n] = Wider(g[n - 1])
  <2>1. Grows(g, i, MAX_DEPTH) /\ MAX_DEPTH \in Nat
    BY <1>1, LevelsValues, NamespaceAssumption
  <2>2. g[0] = {i}
    BY <2>1, GrowsValues
  <2>3. Widens(g, MAX_DEPTH)
    BY <2>1, GrowsValues
  <2> QED
    BY <2>2, <2>3 DEF Widens
<1>3. Wider({i}) = {i}
  <2>1. \A name \in Names : Lookup(i, name) = {}
    BY DEF Lookup
  <2>2. Children(i) = {}
    BY <2>1 DEF Children
  <2> QED
    BY <2>2 DEF Wider
<1> DEFINE Bad == {n \in 0 .. MAX_DEPTH : g[n] # {i}}
<1>4. Bad = {}
  <2>1. SUFFICES ASSUME Bad # {}
                 PROVE  FALSE
    OBVIOUS
  <2>2. PICK n \in Bad : \A m \in Bad : n <= m
    <3>1. Bad \subseteq Nat
      BY NamespaceAssumption
    <3> HIDE DEF Bad
    <3> QED
      BY <2>1, <3>1, LeastNumber
  <2>3. n \in 0 .. MAX_DEPTH /\ g[n] # {i}
    OBVIOUS
  <2>4. n # 0
    BY <1>2, <2>3
  <2>5. n \in 1 .. MAX_DEPTH /\ n - 1 \in 0 .. MAX_DEPTH /\ ~(n <= n - 1)
    BY <2>3, <2>4, NamespaceAssumption
  <2>6. n - 1 \notin Bad
    <3> HIDE DEF Bad
    <3> QED
      BY <2>2, <2>5
  <2>7. g[n - 1] = {i}
    BY <2>5, <2>6
  <2> QED
    BY <1>2, <1>3, <2>3, <2>5, <2>7
<1>5. MAX_DEPTH \in 0 .. MAX_DEPTH
  BY NamespaceAssumption
<1> QED
  BY <1>1, <1>4, <1>5, SubtreeIsLevels

LEMMA UnlinkFileKeeps ==
  ASSUME TreeInv, \A j \in Directories \ {0} : Alone(j),
         NEW path \in Paths \ {<<>>}, Exists(path), inode[GetInode(path)].type = "FILE",
         UnlinkEntry(path)
  PROVE  \A q \in Paths : Exists(q) /\ q # path => Exists(q)'
<1>1. PICK i : i = GetInode(path) /\ Found(path) = {i} /\ inode[i].type = "FILE"
  BY TreeParts, ThingAtPath
<1>2. PICK d, p : StepTo(path, d, p, i) /\ Cut(i, d, p, {i})
  <2>1. Subtree(i) = {i}
    BY <1>1, FileHasNoTree
  <2>2. PICK d, p : StepTo(path, d, p, i) /\ Cut(i, d, p, Subtree(i))
    BY <1>1, UnlinkCuts
  <2> QED
    BY <2>1, <2>2
<1> DEFINE Bad == {n \in Nat : \E q \in Paths :
                     Len(q) = n /\ Exists(q) /\ q # path /\ Found(q)' # Found(q)}
<1>3. Bad = {}
  <2>1. SUFFICES ASSUME Bad # {}
                 PROVE  FALSE
    OBVIOUS
  <2>2. PICK n \in Bad : \A m \in Bad : n <= m
    <3>1. Bad \subseteq Nat
      OBVIOUS
    <3> HIDE DEF Bad
    <3> QED
      BY <2>1, <3>1, LeastNumber
  <2>3. PICK q \in Paths : Len(q) = n /\ Exists(q) /\ q # path /\ Found(q)' # Found(q)
    OBVIOUS
  <2>4. PathsFound'
    BY FoundStep, PTL
  <2>5. q # <<>>
    <3>1. Found(<<>>) = {0}
      BY FoundStep DEF PathsFound
    <3>2. Found(<<>>)' = {0}
      BY <2>4 DEF PathsFound
    <3> QED
      BY <2>3, <3>1, <3>2
  <2>6. PICK y : Found(q) = {y}
    BY <2>3, TreeParts, ThingAtPath
  <2>7. PICK x, s : StepTo(q, x, s, y)
    BY <2>5, <2>6, LastStep
  <2>8. PICK r \in Paths, other \in Names :
          /\ r = Front(q) /\ other = Last(q) /\ Len(r) = n - 1 /\ n - 1 \in Nat
    BY <2>3, <2>5, FoundNext
  <2>9. x \in Directories /\ Found(r) = {x} /\ Lookup(x, other) = {y}
    BY <2>7, <2>8 DEF StepTo
  <2>10. x # i /\ r # path
    BY <1>1, <2>9 DEF Directories
  <2>11. Found(r)' = {x}
    <3>1. n - 1 \notin Bad
      <4>1. ~(n <= n - 1)
        BY <2>8
      <4> HIDE DEF Bad
      <4> QED
        BY <2>2, <4>1
    <3>2. Exists(r)
      BY <2>9 DEF Exists
    <3> QED
      BY <2>8, <2>9, <2>10, <3>1, <3>2
  <2>12. Found(q)' = Lookup(x, other)'
    <3>1. Found(q)' = UNION {Lookup(z, other)' : z \in Found(r)'}
      BY <2>4, <2>5, <2>8 DEF PathsFound, After
    <3> QED
      BY <2>11, <3>1
  <2>13. ~(x = d /\ other = entry[d][p].m_name)
    <3>1. SUFFICES ASSUME x = d, other = entry[d][p].m_name
                   PROVE  FALSE
      OBVIOUS
    <3>2. Found(Front(path)) = {x} /\ other = Last(path) /\ Front(path) \in Paths
      BY <1>2, <3>1, PathParts DEF StepTo
    <3>3. Front(path) = r
      BY <2>8, <2>9, <3>2, OnePath
    <3> QED
      BY <2>3, <2>5, <2>8, <3>2, <3>3, PrefixSteps
  <2>14. Lookup(x, other)' = Lookup(x, other)
    <3>1. x \in ialloc \ {i}
      BY <2>9, <2>10 DEF Directories
    <3> QED
      BY <1>2, <2>13, <3>1, LookupCut
  <2> QED
    BY <2>3, <2>6, <2>9, <2>12, <2>14
<1>4. ASSUME NEW q \in Paths, Exists(q), q # path
      PROVE  Exists(q)'
  <2>1. Len(q) \in Nat
    BY PathParts, NamespaceAssumption
  <2>2. Found(q)' = Found(q)
    BY <1>3, <1>4, <2>1
  <2> QED
    BY <1>4, <2>2 DEF Exists
<1> QED
  BY <1>4

(* The handles that are open, and the paths they are for.                   *)
LEMMA NotAliased ==
  ASSUME TreeInv, ~Aliased
  PROVE  \A j \in Directories \ {0} : Alone(j)
BY AloneIs DEF Aliased, TreeInv, Basic

LEMMA PopTakesHandle ==
  ASSUME HandlesTypeOK, NEW path, Pop(path)
  PROVE  /\ \A h \in Opened' : h \in Opened /\ files'[h] = files[h] /\ files[h] # path
         /\ new_handle' = new_handle
<1>1. PICK S : S = {h \in HandlesOf(path) : \A k \in HandlesOf(path) : h <= k}
  OBVIOUS
<1>2. files' = Restrict(files, Opened \ S) /\ new_handle' = new_handle
  BY <1>1 DEF Pop
<1>3. Opened' = Opened \ S /\ \A h \in Opened \ S : files'[h] = files[h]
  BY <1>2 DEF Restrict, Opened
<1>4. ASSUME NEW h \in Opened, files[h] = path
      PROVE  h \in S
  <2>1. \A k \in HandlesOf(path) : k = h
    BY <1>4 DEF HandlesTypeOK, HandlesOf
  <2>2. h \in Nat
    BY HandlesAssumption DEF HandlesTypeOK
  <2> QED
    BY <1>1, <1>4, <2>1, <2>2 DEF HandlesOf
<1> QED
  BY <1>2, <1>3, <1>4

LEMMA UnlinkHereKeeps ==
  ASSUME TreeInv, ~Aliased, NEW path \in Paths, path # <<>>, UnlinkHere(path),
         pending' = pending \/ pending' = <<>>, leaked' = leaked
  PROVE  \A q \in Paths : Exists(q) /\ q # path => Exists(q)'
<1>1. CASE /\ Exists(path) /\ inode[GetInode(path)].type = "FILE"
           /\ UnlinkEntry(path)
  BY <1>1, NotAliased, UnlinkFileKeeps
<1>2. CASE UNCHANGED <<inode, ialloc, entry, free, damaged>>
  <2>1. Directories' = Directories
    BY <1>2 DEF Directories
  <2>2. \A q \in Paths : Found(q)' = Found(q)
    BY <1>2, <2>1, SameTree
  <2> QED
    BY <2>2 DEF Exists
<1> QED
  BY <1>1, <1>2 DEF UnlinkHere

(* Create, link and the first half of a rename take no path away.           *)
LEMMA InheritedKeeps ==
  ASSUME TreeInv, ~damaged, Inherited
  PROVE  \A q \in Paths : Exists(q) => Exists(q)'
<1>1. SUFFICES \A q \in Paths : Exists(q) => Found(q)' = Found(q)
  BY DEF Exists
<1>2. pending = <<>> /\ damaged' = damaged
  BY DEF Inherited, Create, CreateFails, Link, Rename
<1>3. Next
  BY DEF Inherited, Next
<1>4. TreeInv' /\ Sound'
  <2>1. TreeInv'
    BY <1>2, <1>3, NextTree
  <2> QED
    BY <2>1 DEF TreeInv
<1>5. ASSUME NEW nodes, NEW dst, NEW d, NEW name, NEW i, Adding(nodes, dst, d, name, i)
      PROVE  \A q \in Paths : Exists(q) => Found(q)' = Found(q)
  BY <1>4, <1>5, FoundKept DEF Adding
<1>6. ASSUME NEW path \in Vacant, NEW type \in {"FILE", "DIR"}, Create(path, type)
      PROVE  \A q \in Paths : Exists(q) => Found(q)' = Found(q)
  BY <1>2, <1>5, <1>6, CreateAdds
<1>7. ASSUME NEW path \in Vacant, NEW type \in {"FILE", "DIR"}, CreateFails(path, type)
      PROVE  \A q \in Paths : Exists(q) => Found(q)' = Found(q)
  BY <1>4, <1>7, CreateFailsKeeps
<1>8. ASSUME NEW src \in Taken, NEW dst \in Vacant, Link(src, dst) \/ Rename(src, dst)
      PROVE  \A q \in Paths : Exists(q) => Found(q)' = Found(q)
  BY <1>5, <1>8, LinkAdds
<1> QED
  BY <1>6, <1>7, <1>8 DEF Inherited

LEMMA AllVarsSame ==
  ASSUME TreeInv, UNCHANGED vars
  PROVE  \A q \in Paths : Exists(q) => Exists(q)'
<1>1. /\ inode' = inode /\ ialloc' = ialloc /\ entry' = entry /\ leaked' = leaked
      /\ Directories' = Directories
  BY DEF vars, Directories
<1>2. \A q \in Paths : Found(q)' = Found(q)
  BY <1>1, SameTree
<1> QED
  BY <1>2 DEF Exists

(* A step of the handles that is no format.                                 *)
HandleStays ==
  \A h \in 1 .. new_handle - 1 :
    /\ h \in Opened' => h \in Opened /\ files'[h] = files[h]
    /\ h \in Opened /\ h \in Opened' /\ ~Aliased =>
         \A path \in {files[h]} : Exists(path) => Exists(path)'

LEMMA HandleStaysIf ==
  ASSUME HandlesTypeOK,
         \A h \in Opened' : h < new_handle => h \in Opened /\ files'[h] = files[h],
         ASSUME NEW h \in Opened, h \in Opened', ~Aliased, NEW q \in Paths, q = files[h], Exists(q)
         PROVE  Exists(q)'
  PROVE  HandleStays
<1>1. ASSUME NEW h \in 1 .. new_handle - 1, h \in Opened'
      PROVE  h \in Opened /\ files'[h] = files[h]
  BY <1>1, HandlesAssumption DEF HandlesTypeOK
<1>2. ASSUME NEW h \in Opened, h \in Opened', ~Aliased, NEW q \in {files[h]}, Exists(q)
      PROVE  Exists(q)'
  BY <1>2 DEF HandlesTypeOK
<1> QED
  BY <1>1, <1>2 DEF HandleStays

LEMMA HandlesStay ==
  ASSUME HandlesTypeOK, TreeInv, ~damaged, HandlesNext, new_handle <= new_handle'
  PROVE  HandleStays
<1>1. \A h \in Opened : files[h] \in Paths /\ h < new_handle /\ h \in Nat
  BY HandlesAssumption DEF HandlesTypeOK
<1>2. ASSUME NEW path \in Paths, Open(path)
      PROVE  HandleStays
  <2>1. /\ files' = [h \in Opened \cup {new_handle} |-> IF h = new_handle THEN path ELSE files[h]]
        /\ UNCHANGED vars
    BY <1>2 DEF Open
  <2>2. /\ Opened' = Opened \cup {new_handle}
        /\ \A h \in Opened' : h = new_handle \/ (h \in Opened /\ files'[h] = files[h])
    BY <2>1 DEF Opened
  <2>3. \A h \in Opened' : h < new_handle => h \in Opened /\ files'[h] = files[h]
    BY <2>2, HandlesAssumption DEF HandlesTypeOK
  <2>4. \A q \in Paths : Exists(q) => Exists(q)'
    BY <2>1, AllVarsSame
  <2> QED
    BY <2>3, <2>4, HandleStaysIf
<1>3. ASSUME NEW path \in Paths, CloseAndUnlink(path)
      PROVE  HandleStays
  <2>1. /\ path # <<>> /\ Pop(path) /\ UnlinkHere(path)
        /\ pending' = pending /\ leaked' = leaked
    BY <1>3 DEF CloseAndUnlink
  <2>2. \A h \in Opened' : h \in Opened /\ files'[h] = files[h] /\ files[h] # path
    BY <2>1, PopTakesHandle
  <2>3. ~Aliased => \A q \in Paths : Exists(q) /\ q # path => Exists(q)'
    BY <2>1, UnlinkHereKeeps
  <2> QED
    BY <2>2, <2>3, HandleStaysIf
<1>4. ASSUME NEW k \in Opened, Close(k)
      PROVE  HandleStays
  <2>1. files' = Restrict(files, Opened \ {k}) /\ UNCHANGED vars
    BY <1>4 DEF Close
  <2>2. \A h \in Opened' : h \in Opened /\ files'[h] = files[h]
    BY <2>1 DEF Restrict, Opened
  <2>3. \A q \in Paths : Exists(q) => Exists(q)'
    BY <2>1, AllVarsSame
  <2> QED
    BY <2>2, <2>3, HandleStaysIf
<1>5. ASSUME EndMove
      PROVE  HandleStays
  <2>1. PICK path \in Paths : path = pending
    BY DEF TreeInv, Basic
  <2>2. /\ path # <<>> /\ Pop(path) /\ UnlinkHere(path)
        /\ pending' = <<>> /\ leaked' = leaked
    BY <1>5, <2>1 DEF EndMove
  <2>3. \A h \in Opened' : h \in Opened /\ files'[h] = files[h] /\ files[h] # path
    BY <2>2, PopTakesHandle
  <2>4. ~Aliased => \A q \in Paths : Exists(q) /\ q # path => Exists(q)'
    BY <2>2, UnlinkHereKeeps
  <2> QED
    BY <2>3, <2>4, HandleStaysIf
<1>6. ASSUME Inherited
      PROVE  HandleStays
  <2>1. files' = files
    BY <1>6 DEF Inherited, handleVars
  <2>2. \A h \in Opened' : h \in Opened /\ files'[h] = files[h]
    BY <2>1 DEF Opened
  <2>3. \A q \in Paths : Exists(q) => Exists(q)'
    BY <1>6, InheritedKeeps
  <2> QED
    BY <2>2, <2>3, HandleStaysIf
<1>7. ASSUME Format
      PROVE  HandleStays
  <2>1. new_handle' = 1 /\ new_handle \in Nat
    BY <1>7, HandlesAssumption DEF Format, HandlesTypeOK
  <2>2. 1 .. new_handle - 1 = {}
    BY <2>1
  <2> QED
    BY <2>2 DEF HandleStays
<1> QED
  BY <1>2, <1>3, <1>4, <1>5, <1>6, <1>7 DEF HandlesNext

(* A number stands for one path until the next format, and what takes a     *)
(* path away takes its handle away, unless a directory has two names or an  *)
(* inode with another entry was deleted: open, close, unlink, both halves   *)
(* of a rename and what is inherited.                                       *)
THEOREM HandlesFollowPaths == HandlesSpec => HandleFollowsPath
<1>1. HandlesTypeOK /\ NameInv /\ [HandlesNext]_allVars
        => [~damaged /\ new_handle <= new_handle' => HandleStays]_allVars
  <2>1. SUFFICES ASSUME HandlesTypeOK, NameInv, HandlesNext, ~damaged, new_handle <= new_handle'
                 PROVE  HandleStays
    OBVIOUS
  <2> QED
    BY <2>1, HandlesStay DEF NameInv
<1>2. HandlesSpec => [][~damaged /\ new_handle <= new_handle' => HandleStays]_allVars
  BY <1>1, OneHandleForAPath, TreeUnderHandles, PTL DEF HandlesSpec
<1> QED
  BY <1>2 DEF HandleFollowsPath, HandleStays
=============================================================================
