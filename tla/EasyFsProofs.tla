----------------------------- MODULE EasyFsProofs ------------------------------
(***************************************************************************)
(* The theorems about the file system (EasyFs.tla), for any block size,    *)
(* number of pointers, device and set of names.  An image is right when    *)
(* the pointers of its inodes are pairwise different, all on the device,   *)
(* and exactly the blocks of the bitmap: growing, clearing, writing and    *)
(* creating are shown to keep that, one after the other, and the directory *)
(* with it.                                                                *)
(***************************************************************************)
EXTENDS EasyFs, SequencesExt, SequenceTheorems, FiniteSetTheorems, WellFoundedInduction, TLAPS

\* A set of numbers has a least element: induction over numbers is done with it.
LEMMA MinMember ==
  ASSUME NEW S \in SUBSET Nat, S # {}
  PROVE  Min(S) \in S /\ \A x \in S : Min(S) <= x
<1> DEFINE less == OpToRel(<, Nat)
<1>1. PICK x \in S : \A y \in S : ~(<<y, x>> \in less)
  BY NatLessThanWellFounded, WFMin, Zenon
<1>2. less = {ss \in Nat \X Nat : ss[1] < ss[2]}
  BY Zenon DEF OpToRel
<1> HIDE DEF less
<1>3. ASSUME NEW y \in S PROVE x <= y
  <2>1. x \in Nat /\ y \in Nat
    OBVIOUS
  <2>2. y < x => <<y, x>> \in less
    BY <1>2, <2>1
  <2> QED BY <1>1, <2>1, <2>2
<1> QED BY <1>3 DEF Min

----------------------------------------------------------------------------
\* Numbers: blocks, positions in them, and how many blocks a size needs.

\* What the assumptions about the constants say of the sizes that the proofs use.
LEMMA Sizes ==
  /\ BlockSize \in Nat /\ BlockSize > 0
  /\ DirectCount \in Nat /\ DirectCount > 0
  /\ Indirect1Bound \in Nat /\ Indirect1Bound = DirectCount + BlockSize
  /\ Cells = 0 .. BlockSize - 1 /\ 0 \in Cells
  /\ DirentSize = 2 /\ MaxSize \in Nat
BY SizeAssumption DEF Indirect1Bound, Cells

\* A number is its block and its position in it.
LEMMA BlockAndPosition ==
  ASSUME NEW v \in Nat
  PROVE  /\ v \div BlockSize \in Nat /\ v % BlockSize \in Cells
         /\ v = (v \div BlockSize) * BlockSize + (v % BlockSize)
<1>1. BlockSize \in Nat /\ BlockSize > 0 /\ Cells = 0 .. BlockSize - 1
  BY Sizes
<1> QED BY <1>1

\* A number of whole blocks below another.
LEMMA WholeBlocks ==
  ASSUME NEW a \in Int, NEW b \in Int, a < b
  PROVE  a * BlockSize + BlockSize <= b * BlockSize
<1>1. BlockSize \in Nat /\ b - a - 1 \in Nat
  BY Sizes
<1>2. (b - a - 1) * BlockSize >= 0
  BY <1>1
<1>3. (b - a - 1) * BlockSize = b * BlockSize - a * BlockSize - BlockSize
  BY <1>1
<1> QED BY <1>1, <1>2, <1>3

\* Block and position are the only ones a number can be written with.
LEMMA BlockOf ==
  ASSUME NEW i \in Nat, NEW c \in Cells
  PROVE  (i * BlockSize + c) \div BlockSize = i /\ (i * BlockSize + c) % BlockSize = c
<1> DEFINE v == i * BlockSize + c
           j == v \div BlockSize
           d == v % BlockSize
<1>1. BlockSize \in Nat /\ v \in Nat /\ i * BlockSize \in Int /\ c \in 0 .. BlockSize - 1
  BY Sizes
<1>2. j \in Nat /\ d \in 0 .. BlockSize - 1 /\ v = j * BlockSize + d
  BY <1>1, BlockAndPosition, Sizes
<1> HIDE DEF j, d
<1>3. ~(i < j)
  <2>1. i < j => i * BlockSize + BlockSize <= j * BlockSize
    BY <1>2, WholeBlocks
  <2> QED BY <1>1, <1>2, <2>1
<1>4. ~(j < i)
  <2>1. j < i => j * BlockSize + BlockSize <= i * BlockSize
    BY <1>2, WholeBlocks
  <2> QED BY <1>1, <1>2, <2>1
<1>5. i = j
  BY <1>2, <1>3, <1>4
<1> QED BY <1>1, <1>2, <1>5 DEF j, d

\* One more item needs one more block if it is the first of a block.
LEMMA CeilDivSteps ==
  /\ CeilDiv(0, BlockSize) = 0
  /\ \A m \in Nat :
       /\ CeilDiv(m, BlockSize) \in Nat
       /\ CeilDiv(m + 1, BlockSize) = CeilDiv(m, BlockSize) + (IF m % BlockSize = 0 THEN 1 ELSE 0)
       /\ CeilDiv(m, BlockSize) = (m \div BlockSize) + (IF m % BlockSize = 0 THEN 0 ELSE 1)
<1>1. BlockSize \in Nat /\ BlockSize > 0 /\ Cells = 0 .. BlockSize - 1
  BY Sizes
<1>2. CeilDiv(0, BlockSize) = 0
  <2>1. (0 * BlockSize + (BlockSize - 1)) \div BlockSize = 0
    BY <1>1, BlockOf
  <2> QED BY <1>1, <2>1 DEF CeilDiv
<1>3. ASSUME NEW m \in Nat
      PROVE  /\ CeilDiv(m, BlockSize) = (m \div BlockSize) + (IF m % BlockSize = 0 THEN 0 ELSE 1)
             /\ CeilDiv(m + 1, BlockSize) = (m \div BlockSize) + 1
             /\ m \div BlockSize \in Nat
  <2> DEFINE q == m \div BlockSize
             r == m % BlockSize
  <2>1. q \in Nat /\ r \in 0 .. BlockSize - 1 /\ m = q * BlockSize + r
    BY <1>1, BlockAndPosition
  <2> HIDE DEF q, r
  <2>2. q * BlockSize \in Nat /\ (q + 1) * BlockSize = q * BlockSize + BlockSize
    BY <1>1, <2>1
  <2>3. ((q + 1) * BlockSize + r) \div BlockSize = q + 1
    BY <1>1, <2>1, BlockOf
  <2>4. m + 1 + BlockSize - 1 = (q + 1) * BlockSize + r
    BY <1>1, <2>1, <2>2
  <2>5. CeilDiv(m + 1, BlockSize) = q + 1
    BY <2>3, <2>4 DEF CeilDiv
  <2>6. CASE r = 0
    <3>1. (q * BlockSize + (BlockSize - 1)) \div BlockSize = q
      BY <1>1, <2>1, BlockOf
    <3>2. m + BlockSize - 1 = q * BlockSize + (BlockSize - 1)
      BY <1>1, <2>1, <2>2, <2>6
    <3>3. CeilDiv(m, BlockSize) = q
      BY <3>1, <3>2 DEF CeilDiv
    <3> QED BY <2>1, <2>5, <2>6, <3>3 DEF q, r
  <2>7. CASE r # 0
    <3>1. ((q + 1) * BlockSize + (r - 1)) \div BlockSize = q + 1
      BY <1>1, <2>1, <2>7, BlockOf
    <3>2. m + BlockSize - 1 = (q + 1) * BlockSize + (r - 1)
      BY <1>1, <2>1, <2>2
    <3>3. CeilDiv(m, BlockSize) = q + 1
      BY <3>1, <3>2 DEF CeilDiv
    <3> QED BY <2>1, <2>5, <2>7, <3>3 DEF q, r
  <2> QED BY <2>6, <2>7
<1> QED BY <1>2, <1>3

\* The data blocks of a size: a byte of the file is in one of them, and the byte
\* after the file only if the last one is not full.
LEMMA DataBlocksOf ==
  ASSUME NEW size \in Nat
  PROVE  /\ DataBlocks(size) \in Nat
         /\ \A o \in Nat : o < size => o \div BlockSize < DataBlocks(size)
         /\ size % BlockSize = 0 => size \div BlockSize = DataBlocks(size)
         /\ size % BlockSize # 0 => size \div BlockSize < DataBlocks(size)
         /\ \A larger \in Nat : size <= larger => DataBlocks(size) <= DataBlocks(larger)
         /\ DataBlocks(0) = 0
<1>1. BlockSize \in Nat /\ BlockSize > 0 /\ Cells = 0 .. BlockSize - 1
  BY Sizes
<1>2. \A n \in Nat : /\ DataBlocks(n) \in Nat
                     /\ DataBlocks(n) = (n \div BlockSize) + (IF n % BlockSize = 0 THEN 0 ELSE 1)
                     /\ n \div BlockSize \in Nat /\ n % BlockSize \in 0 .. BlockSize - 1
                     /\ n = (n \div BlockSize) * BlockSize + (n % BlockSize)
  BY <1>1, CeilDivSteps, BlockAndPosition DEF DataBlocks
<1>3. ASSUME NEW n \in Nat, NEW o \in Nat, o < n PROVE o \div BlockSize < DataBlocks(n)
  <2> DEFINE p == o \div BlockSize
             q == n \div BlockSize
  <2>1. /\ p \in Nat /\ q \in Nat
        /\ o % BlockSize \in 0 .. BlockSize - 1 /\ n % BlockSize \in 0 .. BlockSize - 1
        /\ o = p * BlockSize + (o % BlockSize) /\ n = q * BlockSize + (n % BlockSize)
        /\ DataBlocks(n) = q + (IF n % BlockSize = 0 THEN 0 ELSE 1)
    BY <1>2, <1>3
  <2> HIDE DEF p, q
  <2>2. q < p => q * BlockSize + BlockSize <= p * BlockSize
    BY <2>1, WholeBlocks
  <2>3. ~(q < p)
    BY <1>1, <1>3, <2>1, <2>2
  <2>4. p = q => n % BlockSize # 0
    BY <1>1, <1>3, <2>1
  <2>5. p < DataBlocks(n)
    BY <2>1, <2>3, <2>4
  <2> QED BY <2>5 DEF p
<1>4. ASSUME NEW larger \in Nat, size <= larger PROVE DataBlocks(size) <= DataBlocks(larger)
  <2>1. CASE size = larger
    BY <1>2, <2>1
  <2>2. CASE size < larger
    <3>1. size \div BlockSize < DataBlocks(larger)
      BY <1>3, <2>2
    <3> QED BY <1>2, <3>1
  <2> QED BY <1>4, <2>1, <2>2
<1>5. DataBlocks(0) = 0
  BY CeilDivSteps DEF DataBlocks
<1> QED BY <1>2, <1>3, <1>4, <1>5

----------------------------------------------------------------------------
\* Places: where the pointers of an inode are.  A pointer is in the inode or in an
\* index block, and the block that holds it is itself pointed to from a place.
Ind1 == [of |-> "indirect1", at |-> 0]
Ind2 == [of |-> "indirect2", at |-> 0]
IndexPlace(j) == [of |-> "index", at |-> j]
DataPlace(k) == [of |-> "data", at |-> k]

AllPlaces == {Ind1, Ind2} \cup {IndexPlace(j) : j \in Nat} \cup {DataPlace(k) : k \in Nat}

Inner(p) == p.of = "index" \/ (p.of = "data" /\ p.at >= DirectCount)

Holder(p) ==
  IF p.of = "index" THEN Ind2
  ELSE IF p.at < Indirect1Bound THEN Ind1
  ELSE IndexPlace((p.at - Indirect1Bound) \div BlockSize)

Position(p) ==
  IF p.of = "index" THEN p.at
  ELSE IF p.at < Indirect1Bound THEN p.at - DirectCount
  ELSE (p.at - Indirect1Bound) % BlockSize

\* The data block that a pointer comes with.
Born(p) ==
  IF p.of = "data" THEN p.at
  ELSE IF p.of = "index" THEN Indirect1Bound + p.at * BlockSize
  ELSE IF p.of = "indirect1" THEN DirectCount ELSE Indirect1Bound

PlaceSet(n) == {p \in AllPlaces : Born(p) < n}

\* The pointer in the inode itself.
Field(inode, p) ==
  IF p.of = "indirect1" THEN inode.indirect1
  ELSE IF p.of = "indirect2" THEN inode.indirect2 ELSE inode.direct[p.at]

\* A place is of one of four kinds.
LEMMA PlaceKinds ==
  ASSUME NEW p \in AllPlaces
  PROVE  \/ p = Ind1 \/ p = Ind2
         \/ p.at \in Nat /\ p.of = "index" /\ p = IndexPlace(p.at)
         \/ p.at \in Nat /\ p.of = "data" /\ p = DataPlace(p.at)
BY DEF AllPlaces, IndexPlace, DataPlace

\* The four kinds, expanded.
LEMMA KindsOf ==
  /\ Ind1 \in AllPlaces /\ Ind1.of = "indirect1" /\ Ind1.at = 0
  /\ Ind2 \in AllPlaces /\ Ind2.of = "indirect2" /\ Ind2.at = 0
  /\ \A j \in Nat : IndexPlace(j) \in AllPlaces /\ IndexPlace(j).of = "index" /\ IndexPlace(j).at = j
  /\ \A k \in Nat : DataPlace(k) \in AllPlaces /\ DataPlace(k).of = "data" /\ DataPlace(k).at = k
BY DEF AllPlaces, Ind1, Ind2, IndexPlace, DataPlace

\* What each kind is: its holder, its position in it and the block it comes with.
LEMMA PlaceFacts ==
  /\ ~Inner(Ind1) /\ Born(Ind1) = DirectCount
  /\ ~Inner(Ind2) /\ Born(Ind2) = Indirect1Bound
  /\ \A j \in Nat : /\ Inner(IndexPlace(j)) /\ Holder(IndexPlace(j)) = Ind2
                    /\ Position(IndexPlace(j)) = j
                    /\ Born(IndexPlace(j)) = Indirect1Bound + j * BlockSize
  /\ \A k \in Nat :
       /\ Born(DataPlace(k)) = k
       /\ Inner(DataPlace(k)) <=> k >= DirectCount
       /\ k >= DirectCount /\ k < Indirect1Bound =>
            Holder(DataPlace(k)) = Ind1 /\ Position(DataPlace(k)) = k - DirectCount
       /\ k >= Indirect1Bound =>
            /\ Holder(DataPlace(k)) = IndexPlace((k - Indirect1Bound) \div BlockSize)
            /\ Position(DataPlace(k)) = (k - Indirect1Bound) % BlockSize
<1>1. DirectCount \in Nat /\ Indirect1Bound \in Nat
  BY Sizes
<1>2. ~Inner(Ind1) /\ Born(Ind1) = DirectCount
  BY KindsOf DEF Inner, Born
<1>3. ~Inner(Ind2) /\ Born(Ind2) = Indirect1Bound
  BY KindsOf DEF Inner, Born
<1>4. ASSUME NEW j \in Nat
      PROVE  /\ Inner(IndexPlace(j)) /\ Holder(IndexPlace(j)) = Ind2
             /\ Position(IndexPlace(j)) = j
             /\ Born(IndexPlace(j)) = Indirect1Bound + j * BlockSize
  <2> DEFINE p == IndexPlace(j)
  <2>1. p.of = "index" /\ p.at = j
    BY KindsOf
  <2> HIDE DEF p
  <2>2. Inner(p) /\ Holder(p) = Ind2 /\ Position(p) = j /\ Born(p) = Indirect1Bound + j * BlockSize
    BY <2>1 DEF Inner, Holder, Position, Born
  <2> QED BY <2>2 DEF p
<1>5. ASSUME NEW k \in Nat
      PROVE  /\ Born(DataPlace(k)) = k
             /\ Inner(DataPlace(k)) <=> k >= DirectCount
             /\ k >= DirectCount /\ k < Indirect1Bound =>
                  Holder(DataPlace(k)) = Ind1 /\ Position(DataPlace(k)) = k - DirectCount
             /\ k >= Indirect1Bound =>
                  /\ Holder(DataPlace(k)) = IndexPlace((k - Indirect1Bound) \div BlockSize)
                  /\ Position(DataPlace(k)) = (k - Indirect1Bound) % BlockSize
  <2> DEFINE p == DataPlace(k)
  <2>1. p.of = "data" /\ p.at = k
    BY KindsOf
  <2> HIDE DEF p
  <2>2. Born(p) = k /\ (Inner(p) <=> k >= DirectCount)
    BY <2>1 DEF Inner, Born
  <2>3. k >= DirectCount /\ k < Indirect1Bound => Holder(p) = Ind1 /\ Position(p) = k - DirectCount
    BY <2>1 DEF Holder, Position
  <2>4. k >= Indirect1Bound => /\ Holder(p) = IndexPlace((k - Indirect1Bound) \div BlockSize)
                               /\ Position(p) = (k - Indirect1Bound) % BlockSize
    BY <1>1, <2>1 DEF Holder, Position
  <2> QED BY <2>2, <2>3, <2>4 DEF p
<1> QED BY <1>2, <1>3, <1>4, <1>5

\* A held pointer is held by a place of the inode, or by an index block that a
\* place of the inode holds; the holder comes no later; and no two places have one
\* holder and one position.
LEMMA HolderFacts ==
  /\ \A p \in AllPlaces : Born(p) \in Nat
  /\ \A p \in AllPlaces : Inner(p) =>
       /\ Holder(p) \in AllPlaces /\ Position(p) \in Nat /\ Born(Holder(p)) <= Born(p)
       /\ Holder(p) # p
       /\ \A k \in Nat : Holder(p) # DataPlace(k)
       /\ Inner(Holder(p)) => ~Inner(Holder(Holder(p)))
  /\ \A p, q \in AllPlaces :
       Inner(p) /\ Inner(q) /\ Holder(p) = Holder(q) /\ Position(p) = Position(q) => p = q
<1>0. /\ DirectCount \in Nat /\ Indirect1Bound \in Nat /\ BlockSize \in Nat /\ BlockSize > 0
      /\ Cells = 0 .. BlockSize - 1 /\ DirectCount < Indirect1Bound
  BY Sizes
<1>1. ASSUME NEW k \in Nat, k >= Indirect1Bound
      PROVE  /\ (k - Indirect1Bound) \div BlockSize \in Nat
             /\ (k - Indirect1Bound) % BlockSize \in Nat
             /\ k = Indirect1Bound + ((k - Indirect1Bound) \div BlockSize) * BlockSize
                      + ((k - Indirect1Bound) % BlockSize)
  <2> DEFINE m == k - Indirect1Bound
  <2>1. m \in Nat /\ k = Indirect1Bound + m
    BY <1>0, <1>1
  <2> HIDE DEF m
  <2>2. m \div BlockSize \in Nat /\ m % BlockSize \in Nat /\ m = (m \div BlockSize) * BlockSize + (m % BlockSize)
    BY <1>0, <2>1, BlockAndPosition
  <2>3. (m \div BlockSize) * BlockSize \in Nat
    <3>1. \A i \in Nat : i * BlockSize \in Nat
      BY <1>0
    <3> QED BY <2>2, <3>1
  <2>4. k = Indirect1Bound + (m \div BlockSize) * BlockSize + (m % BlockSize)
    BY ONLY <1>0, <2>1, <2>2, <2>3
  <2> QED BY <2>2, <2>4 DEF m
<1>2. ASSUME NEW p \in AllPlaces PROVE Born(p) \in Nat
  <2>1. CASE p = Ind1
    BY <1>0, <2>1, PlaceFacts
  <2>2. CASE p = Ind2
    BY <1>0, <2>2, PlaceFacts
  <2>3. CASE p.at \in Nat /\ p = IndexPlace(p.at)
    <3>1. p.at * BlockSize \in Nat
      BY <1>0, <2>3
    <3>2. Born(p) = Indirect1Bound + p.at * BlockSize
      BY <2>3, PlaceFacts, Zenon
    <3> QED BY <1>0, <3>1, <3>2
  <2>4. CASE p.at \in Nat /\ p = DataPlace(p.at)
    <3>1. Born(p) = p.at
      BY <2>4, PlaceFacts, Zenon
    <3> QED BY <2>4, <3>1
  <2> QED BY <2>1, <2>2, <2>3, <2>4, PlaceKinds
<1>3. ASSUME NEW p \in AllPlaces, Inner(p)
      PROVE  \/ p.at \in Nat /\ p = IndexPlace(p.at)
             \/ p.at \in Nat /\ p = DataPlace(p.at) /\ p.at >= DirectCount
  <2>1. p # Ind1 /\ p # Ind2
    BY <1>3, PlaceFacts
  <2>2. \/ p.at \in Nat /\ p = IndexPlace(p.at)
        \/ p.at \in Nat /\ p = DataPlace(p.at)
    BY <2>1, PlaceKinds
  <2>3. p.at \in Nat /\ p = DataPlace(p.at) => p.at >= DirectCount
    BY <1>3, PlaceFacts
  <2> QED BY <2>2, <2>3
<1>4. ASSUME NEW p \in AllPlaces, Inner(p)
      PROVE  /\ Holder(p) \in AllPlaces /\ Position(p) \in Nat /\ Born(Holder(p)) <= Born(p)
             /\ Holder(p) # p
             /\ \A k \in Nat : Holder(p) # DataPlace(k)
             /\ Inner(Holder(p)) => ~Inner(Holder(Holder(p)))
  <2>1. CASE p.at \in Nat /\ p = IndexPlace(p.at)
    <3> DEFINE j == p.at
    <3>1. Holder(p) = Ind2 /\ Position(p) = j /\ Born(p) = Indirect1Bound + j * BlockSize /\ j \in Nat
      BY <2>1, PlaceFacts, Zenon
    <3>2. p.of = "index" /\ Ind2.of = "indirect2" /\ Ind2 \in AllPlaces
      BY <2>1, KindsOf
    <3>3. Born(Ind2) = Indirect1Bound /\ ~Inner(Ind2) /\ \A k \in Nat : Ind2 # DataPlace(k)
      <4>1. Born(Ind2) = Indirect1Bound /\ ~Inner(Ind2)
        BY PlaceFacts, Zenon
      <4>2. ASSUME NEW k \in Nat PROVE Ind2 # DataPlace(k)
        <5>1. DataPlace(k).of = "data"
          BY KindsOf
        <5> QED BY <3>2, <5>1
      <4> QED BY <4>1, <4>2
    <3>4. Ind2 # p
      BY <3>2
    <3>5. j * BlockSize >= 0 /\ j * BlockSize \in Int
      BY <1>0, <2>1
    <3>6. Indirect1Bound <= Indirect1Bound + j * BlockSize
      BY <1>0, <3>5
    <3> QED BY <3>1, <3>2, <3>3, <3>4, <3>6
  <2>2. CASE p.at \in Nat /\ p = DataPlace(p.at) /\ p.at >= DirectCount /\ p.at < Indirect1Bound
    <3> DEFINE k == p.at
    <3>1. Holder(p) = Ind1 /\ Position(p) = k - DirectCount /\ Born(p) = k /\ k \in Nat
      BY <2>2, PlaceFacts, Zenon
    <3>2. p.of = "data" /\ Ind1.of = "indirect1" /\ Ind1 \in AllPlaces
      BY <2>2, KindsOf
    <3>3. Born(Ind1) = DirectCount /\ ~Inner(Ind1) /\ \A l \in Nat : Ind1 # DataPlace(l)
      <4>1. Born(Ind1) = DirectCount /\ ~Inner(Ind1)
        BY PlaceFacts, Zenon
      <4>2. ASSUME NEW l \in Nat PROVE Ind1 # DataPlace(l)
        <5>1. DataPlace(l).of = "data"
          BY KindsOf
        <5> QED BY <3>2, <5>1
      <4> QED BY <4>1, <4>2
    <3>4. Ind1 # p
      BY <3>2
    <3>5. k - DirectCount \in Nat /\ DirectCount <= k
      BY <1>0, <2>2
    <3> QED BY <3>1, <3>2, <3>3, <3>4, <3>5
  <2>3. CASE p.at \in Nat /\ p = DataPlace(p.at) /\ p.at >= Indirect1Bound
    <3> DEFINE k == p.at
               j == (k - Indirect1Bound) \div BlockSize
    <3>1. /\ Holder(p) = IndexPlace(j) /\ Position(p) = (k - Indirect1Bound) % BlockSize /\ Born(p) = k
          /\ k \in Nat
      BY <2>3, PlaceFacts, Zenon
    <3>2. j \in Nat /\ Position(p) \in Nat /\ k = Indirect1Bound + j * BlockSize + Position(p)
      BY <1>1, <2>3, <3>1
    <3> HIDE DEF j
    <3>3. /\ Born(IndexPlace(j)) = Indirect1Bound + j * BlockSize
          /\ Holder(IndexPlace(j)) = Ind2 /\ ~Inner(Ind2) /\ IndexPlace(j) \in AllPlaces
      BY <3>2, PlaceFacts, KindsOf, Zenon
    <3>4. ASSUME NEW l \in Nat PROVE IndexPlace(j) # DataPlace(l)
      BY <3>2, KindsOf
    <3>5. IndexPlace(j) # p
      BY <3>1, <3>4, <2>3
    <3>6. j * BlockSize \in Nat
      BY <1>0, <3>2
    <3>7. Indirect1Bound + j * BlockSize <= k
      BY <1>0, <3>2, <3>6
    <3> QED BY <3>1, <3>2, <3>3, <3>4, <3>5, <3>7
  <2>4. \/ p.at \in Nat /\ p = IndexPlace(p.at)
        \/ p.at \in Nat /\ p = DataPlace(p.at) /\ p.at >= DirectCount
    BY <1>3, <1>4
  <2>5. p.at \in Nat => p.at < Indirect1Bound \/ p.at >= Indirect1Bound
    BY <1>0
  <2> QED BY <2>1, <2>2, <2>3, <2>4, <2>5
<1>5. ASSUME NEW p \in AllPlaces, NEW q \in AllPlaces,
             Inner(p), Inner(q), Holder(p) = Holder(q), Position(p) = Position(q)
      PROVE  p = q
  <2> DEFINE Kind(r) == IF r.of = "index" THEN "two"
                        ELSE IF r.at < Indirect1Bound THEN "one" ELSE "block"
  <2>1. \A r \in AllPlaces : Inner(r) =>
          \/ Kind(r) = "two" /\ Holder(r) = Ind2 /\ r.at \in Nat /\ r = IndexPlace(r.at) /\ Position(r) = r.at
          \/ /\ Kind(r) = "one" /\ Holder(r) = Ind1 /\ r.at \in Nat /\ r = DataPlace(r.at)
             /\ Position(r) = r.at - DirectCount
          \/ /\ Kind(r) = "block" /\ r.at \in Nat /\ r = DataPlace(r.at)
             /\ (r.at - Indirect1Bound) \div BlockSize \in Nat
             /\ Holder(r) = IndexPlace((r.at - Indirect1Bound) \div BlockSize)
             /\ Position(r) = (r.at - Indirect1Bound) % BlockSize
             /\ Position(r) \in Nat
             /\ r.at = Indirect1Bound + ((r.at - Indirect1Bound) \div BlockSize) * BlockSize + Position(r)
    <3> SUFFICES ASSUME NEW r \in AllPlaces, Inner(r)
                 PROVE
          \/ Kind(r) = "two" /\ Holder(r) = Ind2 /\ r.at \in Nat /\ r = IndexPlace(r.at) /\ Position(r) = r.at
          \/ /\ Kind(r) = "one" /\ Holder(r) = Ind1 /\ r.at \in Nat /\ r = DataPlace(r.at)
             /\ Position(r) = r.at - DirectCount
          \/ /\ Kind(r) = "block" /\ r.at \in Nat /\ r = DataPlace(r.at)
             /\ (r.at - Indirect1Bound) \div BlockSize \in Nat
             /\ Holder(r) = IndexPlace((r.at - Indirect1Bound) \div BlockSize)
             /\ Position(r) = (r.at - Indirect1Bound) % BlockSize
             /\ Position(r) \in Nat
             /\ r.at = Indirect1Bound + ((r.at - Indirect1Bound) \div BlockSize) * BlockSize + Position(r)
      OBVIOUS
    <3>1. CASE r.at \in Nat /\ r = IndexPlace(r.at)
      <4>1. r.of = "index"
        BY <3>1, KindsOf
      <4>2. Holder(r) = Ind2 /\ Position(r) = r.at
        BY <3>1, PlaceFacts, Zenon
      <4> QED BY <3>1, <4>1, <4>2
    <3>2. CASE r.at \in Nat /\ r = DataPlace(r.at) /\ r.at >= DirectCount /\ r.at < Indirect1Bound
      <4>1. r.of = "data"
        BY <3>2, KindsOf
      <4>2. Holder(r) = Ind1 /\ Position(r) = r.at - DirectCount
        BY <3>2, PlaceFacts, Zenon
      <4> QED BY <3>2, <4>1, <4>2
    <3>3. CASE r.at \in Nat /\ r = DataPlace(r.at) /\ r.at >= Indirect1Bound
      <4>1. r.of = "data" /\ ~(r.at < Indirect1Bound)
        BY <1>0, <3>3, KindsOf
      <4>2. /\ Holder(r) = IndexPlace((r.at - Indirect1Bound) \div BlockSize)
            /\ Position(r) = (r.at - Indirect1Bound) % BlockSize
        BY <3>3, PlaceFacts, Zenon
      <4>3. /\ (r.at - Indirect1Bound) \div BlockSize \in Nat
            /\ (r.at - Indirect1Bound) % BlockSize \in Nat
            /\ r.at = Indirect1Bound + ((r.at - Indirect1Bound) \div BlockSize) * BlockSize
                      + ((r.at - Indirect1Bound) % BlockSize)
        BY <1>1, <3>3
      <4> QED BY <3>3, <4>1, <4>2, <4>3, Zenon
    <3>4. \/ r.at \in Nat /\ r = IndexPlace(r.at)
          \/ r.at \in Nat /\ r = DataPlace(r.at) /\ r.at >= DirectCount
      BY <1>3
    <3>5. r.at \in Nat => r.at < Indirect1Bound \/ r.at >= Indirect1Bound
      BY <1>0
    <3> HIDE DEF Kind
    <3> QED BY <3>1, <3>2, <3>3, <3>4, <3>5
  <2>2. Ind1 # Ind2 /\ \A j \in Nat : IndexPlace(j) # Ind1 /\ IndexPlace(j) # Ind2
    BY KindsOf
  <2>3. \A i, j \in Nat : IndexPlace(i) = IndexPlace(j) => i = j
    BY KindsOf
  <2> HIDE DEF Kind
  <2>4. Kind(p) = Kind(q)
    BY <1>5, <2>1, <2>2
  <2>5. CASE Kind(p) = "two"
    BY <1>5, <2>1, <2>4, <2>5
  <2>6. CASE Kind(p) = "one"
    <3>1. p.at \in Nat /\ q.at \in Nat /\ p.at - DirectCount = q.at - DirectCount
          /\ p = DataPlace(p.at) /\ q = DataPlace(q.at)
      BY <1>5, <2>1, <2>4, <2>6
    <3>2. p.at = q.at
      BY <1>0, <3>1
    <3> QED BY <3>1, <3>2, Zenon
  <2>7. CASE Kind(p) = "block"
    <3> DEFINE i == (p.at - Indirect1Bound) \div BlockSize
               j == (q.at - Indirect1Bound) \div BlockSize
    <3>1. /\ p = DataPlace(p.at) /\ q = DataPlace(q.at)
          /\ i \in Nat /\ j \in Nat /\ IndexPlace(i) = IndexPlace(j)
          /\ p.at = Indirect1Bound + i * BlockSize + Position(p)
          /\ q.at = Indirect1Bound + j * BlockSize + Position(q)
      BY <1>5, <2>1, <2>4, <2>7
    <3> HIDE DEF i, j
    <3>2. i = j
      BY <2>3, <3>1
    <3>3. p.at = q.at
      BY <1>5, <3>1, <3>2, Zenon
    <3> QED BY <3>1, <3>3, Zenon
  <2> QED BY <1>5, <2>1, <2>5, <2>6, <2>7
<1> QED BY <1>2, <1>4, <1>5

----------------------------------------------------------------------------
\* Images, and what one access to a block does to them.
OnDevice == {0} \cup DataArea

InodeRecords ==
  [size : Nat, direct : [0 .. DirectCount - 1 -> BlockIds], indirect1 : BlockIds, indirect2 : BlockIds]

Images ==
  [inode_bitmap : SUBSET Inodes, data_bitmap : SUBSET DataBits,
   inode : UNION {[S -> InodeRecords] : S \in SUBSET Inodes},
   block : [OnDevice -> [Cells -> Nat]],
   fault : {"none", "alloc", "device", "dangling", "index", "assert"}]

\* The layout of the device: numbers, and the magic number is none of its blocks.
LEMMA Layout ==
  /\ DataAreaStart \in Nat /\ DataAreaStart > 0
  /\ DeviceBlocks \in Nat /\ Magic \in Nat /\ Magic > DeviceBlocks
  /\ DataBits \subseteq Nat /\ IsFiniteSet(DataBits)
  /\ Inodes \subseteq Nat /\ Root \in Inodes /\ IsFiniteSet(Inodes)
  /\ OnDevice \subseteq Nat /\ 0 \in OnDevice
  /\ \A b \in OnDevice : b < DeviceBlocks
  /\ \A b \in Nat : b \in DataArea <=> DataAreaStart <= b /\ b < DeviceBlocks
  /\ BlockIds \subseteq Nat /\ 0 \in BlockIds
  /\ \A d \in DataBits : DataAreaStart + d \in BlockIds
<1>1. /\ DeviceBlocks \in Nat /\ DeviceBlocks > 0 /\ InodeBitmapBlocks \in Nat /\ InodeBitmapBlocks > 0
      /\ BlockBits \in Nat /\ BlockBits > 0 /\ InodesPerBlock \in Nat /\ InodesPerBlock > 0
  BY SizeAssumption
<1>2. \A a, b \in Nat : b > 0 => CeilDiv(a, b) \in Nat
  BY DEF CeilDiv
<1>3. InodeBitmapBlocks * BlockBits \in Nat /\ InodeBitmapBlocks * BlockBits > 0
  BY <1>1
<1>4. InodeAreaBlocks \in Nat
  BY <1>1, <1>2, <1>3 DEF InodeAreaBlocks
<1>5. DataTotalBlocks \in Nat
  BY <1>1, <1>4, LayoutAssumption DEF DataTotalBlocks
<1>6. DataBitmapBlocks \in Nat
  BY <1>1, <1>2, <1>5 DEF DataBitmapBlocks
<1>7. DataAreaStart \in Nat /\ DataAreaStart > 0
  BY <1>1, <1>4, <1>6 DEF DataAreaStart
<1>8. DataBitmapBlocks * BlockBits \in Nat
  <2>1. \A i, j \in Nat : i * j \in Nat
    OBVIOUS
  <2> QED BY <1>1, <1>6, <2>1
<1>9. DataBits \subseteq Nat /\ IsFiniteSet(DataBits)
  BY <1>8, FS_Interval DEF DataBits
<1>10. Inodes \subseteq Nat /\ Root \in Inodes /\ IsFiniteSet(Inodes)
  BY <1>3, FS_Interval DEF Inodes, Root
<1>11. \A b \in Nat : b \in DataArea <=> DataAreaStart <= b /\ b < DeviceBlocks
  BY <1>1, <1>7 DEF DataArea
<1>12. OnDevice \subseteq Nat /\ 0 \in OnDevice /\ \A b \in OnDevice : b < DeviceBlocks
  BY <1>1, <1>7 DEF DataArea, OnDevice
<1>13. Magic \in Nat /\ Magic > DeviceBlocks
  BY <1>1 DEF Magic
<1>14. BlockIds \subseteq Nat /\ 0 \in BlockIds /\ \A d \in DataBits : DataAreaStart + d \in BlockIds
  BY <1>7, <1>9 DEF BlockIds
<1> QED BY <1>1, <1>7, <1>9, <1>10, <1>11, <1>12, <1>13, <1>14

\* The parts of an image.
LEMMA ImageParts ==
  ASSUME NEW im \in Images
  PROVE  /\ im.inode_bitmap \subseteq Inodes /\ im.data_bitmap \subseteq DataBits
         /\ im.block \in [OnDevice -> [Cells -> Nat]] /\ DOMAIN im.block = OnDevice
         /\ DOMAIN im.inode \subseteq Inodes
         /\ \A i \in DOMAIN im.inode : im.inode[i] \in InodeRecords /\ im.inode[i].size \in Nat
         /\ im.fault \in {"none", "alloc", "device", "dangling", "index", "assert"}
<1>1. im.inode \in UNION {[S -> InodeRecords] : S \in SUBSET Inodes}
  BY DEF Images
<1>2. PICK S \in SUBSET Inodes : im.inode \in [S -> InodeRecords]
  BY <1>1
<1>3. \A i \in DOMAIN im.inode : im.inode[i] \in InodeRecords
  BY <1>2
<1>4. \A r \in InodeRecords : r.size \in Nat
  BY DEF InodeRecords
<1> QED BY <1>2, <1>3, <1>4 DEF Images

\* r is im with another inode at i.
InodeChanged(r, im, i, inode) ==
  /\ r \in Images /\ r.fault = im.fault /\ r.inode_bitmap = im.inode_bitmap
  /\ r.data_bitmap = im.data_bitmap /\ r.block = im.block
  /\ DOMAIN r.inode = DOMAIN im.inode /\ r.inode[i] = inode
  /\ \A j \in DOMAIN im.inode : j # i => r.inode[j] = im.inode[j]

\* An image made from another by changing an inode.
LEMMA InodeChanges ==
  ASSUME NEW im \in Images, NEW i \in DOMAIN im.inode, NEW inode \in InodeRecords
  PROVE  InodeChanged(WithInode(im, i, inode), im, i, inode)
<1> DEFINE f == [im.inode EXCEPT ![i] = inode]
           r == [im EXCEPT !.inode = f]
<1>1. PICK S \in SUBSET Inodes : im.inode \in [S -> InodeRecords]
  BY DEF Images
<1>2. f \in [S -> InodeRecords] /\ f[i] = inode /\ DOMAIN f = DOMAIN im.inode
      /\ \A j \in DOMAIN im.inode : j # i => f[j] = im.inode[j]
  BY <1>1
<1>3. f \in UNION {[T -> InodeRecords] : T \in SUBSET Inodes}
  BY <1>1, <1>2
<1>4. WithInode(im, i, inode) = r
  BY DEF WithInode, Images
<1> HIDE DEF f
<1>5. /\ r \in Images /\ r.fault = im.fault /\ r.inode_bitmap = im.inode_bitmap
      /\ r.data_bitmap = im.data_bitmap /\ r.block = im.block /\ r.inode = f
  BY <1>3 DEF Images
<1> HIDE DEF r
<1> QED BY <1>2, <1>4, <1>5 DEF InodeChanged

\* A fault is noted once.
LEMMA FaultDoes ==
  ASSUME NEW im \in Images, NEW why \in {"alloc", "device", "dangling", "index", "assert"}
  PROVE  /\ Fault(im, why) \in Images
         /\ Fault(im, why).inode_bitmap = im.inode_bitmap /\ Fault(im, why).data_bitmap = im.data_bitmap
         /\ Fault(im, why).inode = im.inode /\ Fault(im, why).block = im.block
         /\ Fault(im, why).fault = IF im.fault = "none" THEN why ELSE im.fault
<1>1. CASE im.fault = "none"
  <2> DEFINE r == [im EXCEPT !.fault = why]
  <2>1. Fault(im, why) = r
    BY <1>1 DEF Fault
  <2>2. /\ r \in Images /\ r.fault = why /\ r.inode_bitmap = im.inode_bitmap
        /\ r.data_bitmap = im.data_bitmap /\ r.inode = im.inode /\ r.block = im.block
    BY DEF Images
  <2> HIDE DEF r
  <2> QED BY <1>1, <2>1, <2>2
<1>2. CASE im.fault # "none"
  BY <1>2 DEF Fault
<1> QED BY <1>1, <1>2

\* A cell that is there is a number; one that is not is Bad.
LEMMA CellIs ==
  ASSUME NEW im \in Images, NEW b, NEW c
  PROVE  /\ b \in OnDevice /\ c \in Cells => Cell(im, b, c) = im.block[b][c] /\ Cell(im, b, c) \in Nat
         /\ ~(b \in OnDevice /\ c \in Cells) => Cell(im, b, c) = Bad
         /\ Cell(im, b, c) \in Int /\ (Cell(im, b, c) \in Nat => b \in OnDevice /\ c \in Cells)
         /\ Bad \in Int /\ Bad \notin Nat
<1>1. im.block \in [OnDevice -> [Cells -> Nat]] /\ DOMAIN im.block = OnDevice
  BY ImageParts
<1>2. Bad \in Int /\ Bad \notin Nat
  BY DEF Bad
<1> QED BY <1>1, <1>2 DEF Cell

\* A write of a cell: only that cell changes, and only if it is there.
LEMMA PokeDoes ==
  ASSUME NEW im \in Images, NEW b, NEW c, NEW v \in Nat
  PROVE  /\ Poke(im, b, c, v) \in Images
         /\ Poke(im, b, c, v).inode_bitmap = im.inode_bitmap
         /\ Poke(im, b, c, v).data_bitmap = im.data_bitmap
         /\ Poke(im, b, c, v).inode = im.inode
         /\ b \in OnDevice /\ c \in Cells =>
              /\ Poke(im, b, c, v).fault = im.fault
              /\ Cell(Poke(im, b, c, v), b, c) = v
         /\ b \notin OnDevice =>
              Poke(im, b, c, v).fault = IF im.fault = "none" THEN "device" ELSE im.fault
         /\ b \in OnDevice /\ c \notin Cells =>
              Poke(im, b, c, v).fault = IF im.fault = "none" THEN "index" ELSE im.fault
         /\ \A x, y : x # b \/ y # c => Cell(Poke(im, b, c, v), x, y) = Cell(im, x, y)
<1>1. im.block \in [OnDevice -> [Cells -> Nat]] /\ DOMAIN im.block = OnDevice
  BY ImageParts
<1>2. CASE b \notin OnDevice
  <2>1. Poke(im, b, c, v) = Fault(im, "device")
    BY <1>1, <1>2 DEF Poke
  <2>2. \A x, y : Cell(Fault(im, "device"), x, y) = Cell(im, x, y)
    BY FaultDoes DEF Cell
  <2> QED BY <1>2, <2>1, <2>2, FaultDoes
<1>3. CASE b \in OnDevice /\ c \notin Cells
  <2>1. Poke(im, b, c, v) = Fault(im, "index")
    BY <1>1, <1>3 DEF Poke
  <2>2. \A x, y : Cell(Fault(im, "index"), x, y) = Cell(im, x, y)
    BY FaultDoes DEF Cell
  <2> QED BY <1>3, <2>1, <2>2, FaultDoes
<1>4. CASE b \in OnDevice /\ c \in Cells
  <2> DEFINE f == [im.block EXCEPT ![b][c] = v]
             r == [im EXCEPT !.block = f]
  <2>1. Poke(im, b, c, v) = r
    BY <1>1, <1>4 DEF Poke, Images
  <2>2. /\ f \in [OnDevice -> [Cells -> Nat]] /\ f[b][c] = v /\ DOMAIN f = OnDevice
        /\ \A x \in OnDevice : x # b => f[x] = im.block[x]
        /\ \A y \in Cells : y # c => f[b][y] = im.block[b][y]
    BY <1>1, <1>4
  <2> HIDE DEF f
  <2>3. /\ r \in Images /\ r.fault = im.fault /\ r.inode_bitmap = im.inode_bitmap
        /\ r.data_bitmap = im.data_bitmap /\ r.inode = im.inode /\ r.block = f
    BY <2>2 DEF Images
  <2> HIDE DEF r
  <2>4. Cell(r, b, c) = v
    BY <1>4, <2>2, <2>3 DEF Cell
  <2>5. ASSUME NEW x, NEW y, x # b \/ y # c PROVE Cell(r, x, y) = Cell(im, x, y)
    BY <1>1, <1>4, <2>2, <2>3, <2>5 DEF Cell
  <2> QED BY <1>4, <2>1, <2>3, <2>4, <2>5
<1> QED BY <1>2, <1>3, <1>4

----------------------------------------------------------------------------
\* Pointers by their places.

\* A held pointer is the cell at its position in the block its holder points to.
LEMMA PointerIs ==
  ASSUME NEW im, NEW inode, NEW p \in AllPlaces
  PROVE  /\ ~Inner(p) => PointerAt(im, inode, p) = Field(inode, p)
         /\ Inner(p) => PointerAt(im, inode, p) = Cell(im, PointerAt(im, inode, Holder(p)), Position(p))
<1>0. DirectCount \in Nat /\ Indirect1Bound \in Nat /\ DirectCount < Indirect1Bound
  BY Sizes
<1>1. PointerAt(im, inode, Ind1) = inode.indirect1 /\ PointerAt(im, inode, Ind2) = inode.indirect2
  BY KindsOf DEF PointerAt
<1>2. \A j \in Nat : PointerAt(im, inode, IndexPlace(j)) = Cell(im, inode.indirect2, j)
  BY KindsOf DEF PointerAt
<1>3. \A k \in Nat : PointerAt(im, inode, DataPlace(k)) = GetBlockId(im, inode, k)
  BY KindsOf DEF PointerAt
<1>4. CASE p = Ind1 \/ p = Ind2
  <2>1. ~Inner(p) /\ Field(inode, Ind1) = inode.indirect1 /\ Field(inode, Ind2) = inode.indirect2
    BY <1>4, PlaceFacts, KindsOf DEF Field
  <2> QED BY <1>1, <1>4, <2>1
<1>5. CASE p.at \in Nat /\ p.of = "index" /\ p = IndexPlace(p.at)
  <2>1. Inner(p) /\ Holder(p) = Ind2 /\ Position(p) = p.at
    BY <1>5, PlaceFacts, Zenon
  <2>2. PointerAt(im, inode, p) = Cell(im, inode.indirect2, p.at)
    BY <1>2, <1>5, Zenon
  <2> QED BY <1>1, <2>1, <2>2, Zenon
<1>6. CASE p.at \in Nat /\ p.of = "data" /\ p = DataPlace(p.at)
  <2> DEFINE k == p.at
  <2>0. PointerAt(im, inode, p) = GetBlockId(im, inode, k) /\ k \in Nat
    BY <1>3, <1>6, Zenon
  <2>1. CASE k < DirectCount
    <3>1. ~Inner(p)
      BY <1>0, <1>6, <2>1 DEF Inner
    <3>2. Field(inode, p) = inode.direct[k]
      BY <1>6 DEF Field
    <3>3. GetBlockId(im, inode, k) = inode.direct[k]
      BY <2>1 DEF GetBlockId
    <3> QED BY <2>0, <3>1, <3>2, <3>3
  <2>2. CASE k >= DirectCount /\ k < Indirect1Bound
    <3>1. Inner(p) /\ Holder(p) = Ind1 /\ Position(p) = k - DirectCount
      BY <1>6, <2>2, PlaceFacts, Zenon
    <3>2. GetBlockId(im, inode, k) = Cell(im, inode.indirect1, k - DirectCount)
      BY <1>0, <1>6, <2>2 DEF GetBlockId
    <3> QED BY <1>1, <2>0, <3>1, <3>2, Zenon
  <2>3. CASE k >= Indirect1Bound
    <3> DEFINE j == (k - Indirect1Bound) \div BlockSize
               c == (k - Indirect1Bound) % BlockSize
    <3>1. Inner(p) /\ Holder(p) = IndexPlace(j) /\ Position(p) = c /\ j \in Nat
      <4>1. k >= DirectCount
        BY <1>0, <1>6, <2>3
      <4>2. Inner(p) /\ Holder(p) = IndexPlace(j) /\ Position(p) = c
        BY <1>6, <2>3, <4>1, PlaceFacts, Zenon
      <4>3. k - Indirect1Bound \in Nat
        BY <1>0, <1>6, <2>3
      <4> QED BY <4>2, <4>3, BlockAndPosition
    <3>2. GetBlockId(im, inode, k) = Cell(im, Cell(im, inode.indirect2, j), c)
      BY <1>0, <1>6, <2>3 DEF GetBlockId
    <3> HIDE DEF j, c
    <3>3. PointerAt(im, inode, IndexPlace(j)) = Cell(im, inode.indirect2, j)
      BY <1>2, <3>1
    <3> QED BY <2>0, <3>1, <3>2, <3>3, Zenon
  <2>4. k < DirectCount \/ (k >= DirectCount /\ k < Indirect1Bound) \/ k >= Indirect1Bound
    BY <1>0, <1>6
  <2> QED BY <2>1, <2>2, <2>3, <2>4
<1> QED BY <1>4, <1>5, <1>6, PlaceKinds

\* An inode with another pointer at a place.
WithField(inode, p, id) ==
  IF p.of = "indirect1" THEN [inode EXCEPT !.indirect1 = id]
  ELSE IF p.of = "indirect2" THEN [inode EXCEPT !.indirect2 = id]
  ELSE [inode EXCEPT !.direct[p.at] = id]

\* A pointer of the inode itself is one of its fields.
LEMMA FieldDoes ==
  ASSUME NEW inode \in InodeRecords, NEW p \in AllPlaces, ~Inner(p), NEW id \in BlockIds
  PROVE  /\ WithField(inode, p, id) \in InodeRecords
         /\ WithField(inode, p, id).size = inode.size
         /\ Field(WithField(inode, p, id), p) = id
         /\ \A q \in AllPlaces : ~Inner(q) /\ q # p => Field(WithField(inode, p, id), q) = Field(inode, q)
         /\ \A q \in AllPlaces : ~Inner(q) => Field(inode, q) \in BlockIds
<1>1. \A q \in AllPlaces : ~Inner(q) =>
        \/ (q = Ind1 /\ q.of = "indirect1") \/ (q = Ind2 /\ q.of = "indirect2")
        \/ q.at \in 0 .. DirectCount - 1 /\ q.of = "data" /\ q = DataPlace(q.at)
  <2> SUFFICES ASSUME NEW q \in AllPlaces, ~Inner(q)
               PROVE \/ (q = Ind1 /\ q.of = "indirect1") \/ (q = Ind2 /\ q.of = "indirect2")
                     \/ q.at \in 0 .. DirectCount - 1 /\ q.of = "data" /\ q = DataPlace(q.at)
    OBVIOUS
  <2>1. Ind1.of = "indirect1" /\ Ind2.of = "indirect2" /\ DirectCount \in Nat
    BY KindsOf, Sizes
  <2> QED BY <2>1, PlaceKinds DEF Inner
<1> DEFINE w == WithField(inode, p, id)
<1>2. CASE p = Ind1 /\ p.of = "indirect1"
  <2>1. w = [inode EXCEPT !.indirect1 = id]
    BY <1>2 DEF WithField
  <2>2. w \in InodeRecords /\ w.size = inode.size /\ w.indirect1 = id /\ w.indirect2 = inode.indirect2
        /\ w.direct = inode.direct
    BY <2>1 DEF InodeRecords
  <2> HIDE DEF w
  <2>3. Field(w, p) = id
    BY <1>2, <2>2 DEF Field
  <2>4. ASSUME NEW q \in AllPlaces, ~Inner(q), q # p PROVE Field(w, q) = Field(inode, q)
    <3>1. q.of # "indirect1"
      BY <1>1, <1>2, <2>4, KindsOf
    <3> QED BY <2>2, <3>1 DEF Field
  <2> QED BY <2>2, <2>3, <2>4, <1>1 DEF w, Field, InodeRecords
<1>3. CASE p = Ind2 /\ p.of = "indirect2"
  <2>1. w = [inode EXCEPT !.indirect2 = id]
    BY <1>3 DEF WithField
  <2>2. w \in InodeRecords /\ w.size = inode.size /\ w.indirect2 = id /\ w.indirect1 = inode.indirect1
        /\ w.direct = inode.direct
    BY <2>1 DEF InodeRecords
  <2> HIDE DEF w
  <2>3. Field(w, p) = id
    BY <1>3, <2>2 DEF Field
  <2>4. ASSUME NEW q \in AllPlaces, ~Inner(q), q # p PROVE Field(w, q) = Field(inode, q)
    <3>1. q.of # "indirect2"
      BY <1>1, <1>3, <2>4, KindsOf
    <3> QED BY <2>2, <3>1 DEF Field
  <2> QED BY <2>2, <2>3, <2>4, <1>1 DEF w, Field, InodeRecords
<1>4. CASE p.at \in 0 .. DirectCount - 1 /\ p.of = "data" /\ p = DataPlace(p.at)
  <2> DEFINE f == [inode.direct EXCEPT ![p.at] = id]
  <2>1. w = [inode EXCEPT !.direct = f]
    BY <1>4 DEF WithField, InodeRecords
  <2>2. /\ f \in [0 .. DirectCount - 1 -> BlockIds] /\ f[p.at] = id
        /\ \A k \in 0 .. DirectCount - 1 : k # p.at => f[k] = inode.direct[k]
    BY <1>4 DEF InodeRecords
  <2> HIDE DEF f
  <2>3. w \in InodeRecords /\ w.size = inode.size /\ w.indirect2 = inode.indirect2 /\ w.indirect1 = inode.indirect1
        /\ w.direct = f
    BY <2>1, <2>2 DEF InodeRecords
  <2> HIDE DEF w
  <2>4. Field(w, p) = id
    BY <1>4, <2>2, <2>3 DEF Field
  <2>5. ASSUME NEW q \in AllPlaces, ~Inner(q), q # p PROVE Field(w, q) = Field(inode, q)
    <3>1. CASE q.of = "data"
      <4>1. q.at \in 0 .. DirectCount - 1 /\ q = DataPlace(q.at)
        BY <1>1, <2>5, <3>1, KindsOf
      <4>2. q.at # p.at
        BY <1>4, <2>5, <4>1, Zenon
      <4> QED BY <2>2, <2>3, <3>1, <4>1, <4>2 DEF Field
    <3>2. CASE q.of # "data"
      BY <1>1, <2>3, <2>5, <3>2 DEF Field
    <3> QED BY <3>1, <3>2
  <2>6. \A q \in AllPlaces : ~Inner(q) => Field(inode, q) \in BlockIds
    BY <1>1 DEF Field, InodeRecords
  <2> QED BY <2>3, <2>4, <2>5, <2>6 DEF w
<1> QED BY <1>1, <1>2, <1>3, <1>4

\* A pointer is set where it is read.
LEMMA SetPointerIs ==
  ASSUME NEW im, NEW ino, NEW p \in AllPlaces, NEW id
  PROVE  /\ ~Inner(p) => SetPointer(im, ino, p, id) = WithInode(im, ino, WithField(im.inode[ino], p, id))
         /\ Inner(p) => SetPointer(im, ino, p, id)
                          = Poke(im, PointerAt(im, im.inode[ino], Holder(p)), Position(p), id)
<1>0. DirectCount \in Nat /\ Indirect1Bound \in Nat /\ DirectCount < Indirect1Bound
  BY Sizes
<1> DEFINE inode == im.inode[ino]
<1>1. PointerAt(im, inode, Ind1) = inode.indirect1 /\ PointerAt(im, inode, Ind2) = inode.indirect2
  BY KindsOf DEF PointerAt
<1>2. \A j \in Nat : PointerAt(im, inode, IndexPlace(j)) = Cell(im, inode.indirect2, j)
  BY KindsOf DEF PointerAt
<1>4. CASE p = Ind1
  <2>1. ~Inner(p) /\ p.of = "indirect1"
    BY <1>4, PlaceFacts, KindsOf
  <2> QED BY <2>1 DEF SetPointer, WithField
<1>5. CASE p = Ind2
  <2>1. ~Inner(p) /\ p.of = "indirect2"
    BY <1>5, PlaceFacts, KindsOf
  <2> QED BY <2>1 DEF SetPointer, WithField
<1>6. CASE p.at \in Nat /\ p.of = "index" /\ p = IndexPlace(p.at)
  <2>1. Inner(p) /\ Holder(p) = Ind2 /\ Position(p) = p.at
    BY <1>6, PlaceFacts, Zenon
  <2>2. SetPointer(im, ino, p, id) = Poke(im, inode.indirect2, p.at, id)
    BY <1>6 DEF SetPointer
  <2> QED BY <1>1, <2>1, <2>2, Zenon
<1>7. CASE p.at \in Nat /\ p.of = "data" /\ p = DataPlace(p.at)
  <2> DEFINE k == p.at
  <2>1. CASE k < DirectCount
    <3>1. ~Inner(p)
      BY <1>0, <1>7, <2>1 DEF Inner
    <3> QED BY <1>7, <2>1, <3>1 DEF SetPointer, WithField
  <2>2. CASE k >= DirectCount /\ k < Indirect1Bound
    <3>1. Inner(p) /\ Holder(p) = Ind1 /\ Position(p) = k - DirectCount
      BY <1>7, <2>2, PlaceFacts, Zenon
    <3>2. SetPointer(im, ino, p, id) = Poke(im, inode.indirect1, k - DirectCount, id)
      BY <1>0, <1>7, <2>2 DEF SetPointer
    <3> QED BY <1>1, <3>1, <3>2, Zenon
  <2>3. CASE k >= Indirect1Bound
    <3> DEFINE j == (k - Indirect1Bound) \div BlockSize
               c == (k - Indirect1Bound) % BlockSize
    <3>1. Inner(p) /\ Holder(p) = IndexPlace(j) /\ Position(p) = c /\ j \in Nat
      <4>1. k >= DirectCount
        BY <1>0, <1>7, <2>3
      <4>2. Inner(p) /\ Holder(p) = IndexPlace(j) /\ Position(p) = c
        BY <1>7, <2>3, <4>1, PlaceFacts, Zenon
      <4>3. k - Indirect1Bound \in Nat
        BY <1>0, <1>7, <2>3
      <4> QED BY <4>2, <4>3, BlockAndPosition
    <3>2. SetPointer(im, ino, p, id) = Poke(im, Cell(im, inode.indirect2, j), c, id)
      BY <1>0, <1>7, <2>3 DEF SetPointer
    <3> HIDE DEF j, c
    <3>3. PointerAt(im, inode, IndexPlace(j)) = Cell(im, inode.indirect2, j)
      BY <1>2, <3>1
    <3> HIDE DEF inode
    <3> QED BY <3>1, <3>2, <3>3, Zenon DEF inode
  <2>4. k < DirectCount \/ (k >= DirectCount /\ k < Indirect1Bound) \/ k >= Indirect1Bound
    BY <1>0, <1>7
  <2> QED BY <2>1, <2>2, <2>3, <2>4
<1> QED BY <1>4, <1>5, <1>6, <1>7, PlaceKinds

\* Pointers stay when the fields and cells they are in do.
LEMMA SamePointers ==
  ASSUME NEW im, NEW r, NEW inode, NEW inode2, NEW S \in SUBSET AllPlaces,
         \A p \in S : Inner(p) => Holder(p) \in S,
         \A p \in S : ~Inner(p) => Field(inode2, p) = Field(inode, p),
         \A p \in S : Inner(p) => Cell(r, PointerAt(im, inode, Holder(p)), Position(p))
                                    = Cell(im, PointerAt(im, inode, Holder(p)), Position(p))
  PROVE  \A p \in S : PointerAt(r, inode2, p) = PointerAt(im, inode, p)
<1>1. \A p \in S : ~Inner(p) => PointerAt(r, inode2, p) = PointerAt(im, inode, p)
  BY PointerIs
<1>2. ASSUME NEW p \in S, Inner(p), PointerAt(r, inode2, Holder(p)) = PointerAt(im, inode, Holder(p))
      PROVE  PointerAt(r, inode2, p) = PointerAt(im, inode, p)
  <2>1. PointerAt(r, inode2, p) = Cell(r, PointerAt(r, inode2, Holder(p)), Position(p))
    BY <1>2, PointerIs
  <2>2. PointerAt(im, inode, p) = Cell(im, PointerAt(im, inode, Holder(p)), Position(p))
    BY <1>2, PointerIs
  <2> QED BY <1>2, <2>1, <2>2
<1>3. \A p \in S : Inner(p) => Holder(p) \in S /\ (Inner(Holder(p)) => ~Inner(Holder(Holder(p))))
  BY HolderFacts
<1>4. \A p \in S : Inner(p) /\ ~Inner(Holder(p)) => PointerAt(r, inode2, p) = PointerAt(im, inode, p)
  BY <1>1, <1>2, <1>3
<1>5. \A p \in S : Inner(p) /\ Inner(Holder(p)) => PointerAt(r, inode2, p) = PointerAt(im, inode, p)
  BY <1>2, <1>3, <1>4
<1> QED BY <1>1, <1>4, <1>5

----------------------------------------------------------------------------
\* Rounds: what a loop of the code does is an iteration, and what holds after each
\* round is shown by the first round after which it would not.

\* Whatever holds before the first round, and after each if it did before, holds
\* after each.
LEMMA AllRounds ==
  ASSUME NEW n \in Nat, NEW S \in SUBSET (0 .. n), 0 \in S,
         \A k \in 1 .. n : k - 1 \in S => k \in S
  PROVE  \A k \in 0 .. n : k \in S
<1> DEFINE bad == {k \in 0 .. n : k \notin S}
<1> SUFFICES ASSUME bad # {} PROVE FALSE
  OBVIOUS
<1>1. PICK k \in bad : \A l \in bad : k <= l
  <2>1. bad \in SUBSET Nat
    OBVIOUS
  <2> HIDE DEF bad
  <2> QED BY <2>1, MinMember
<1>2. k \in 1 .. n /\ k \notin S
  OBVIOUS
<1>3. k - 1 \notin bad
  <2>1. k - 1 < k /\ k \in Int
    BY <1>2
  <2> HIDE DEF bad
  <2> QED BY <1>1, <2>1
<1>4. k - 1 \in S
  BY <1>2, <1>3
<1> QED BY <1>2, <1>4

\* f[k] is what k rounds leave, the k-th doing step[k].
Rounds(f, T, first, n, step) ==
  f \in [0 .. n -> T] /\ f[0] = first /\ \A k \in 1 .. n : f[k] = step[k][f[k - 1]]

\* The results of the rounds exist.
LEMMA Iterates ==
  ASSUME NEW T, NEW first \in T, NEW n \in Nat, NEW step \in [1 .. n -> [T -> T]]
  PROVE  \E f : Rounds(f, T, first, n, step)
<1> DEFINE IsRun(f, m) == /\ f \in [0 .. m -> T] /\ f[0] = first
                          /\ \A k \in 1 .. m : f[k] = step[k][f[k - 1]]
           S == {m \in 0 .. n : \E f : IsRun(f, m)}
<1>1. 0 \in S
  <2>1. IsRun([k \in 0 .. 0 |-> first], 0)
    OBVIOUS
  <2> HIDE DEF IsRun
  <2> QED BY <2>1
<1>2. ASSUME NEW m \in 1 .. n, m - 1 \in S PROVE m \in S
  <2>1. PICK f : IsRun(f, m - 1)
    BY <1>2
  <2> DEFINE g == [k \in 0 .. m |-> IF k = m THEN step[m][f[m - 1]] ELSE f[k]]
  <2>2. m \in Nat /\ m - 1 \in 0 .. m - 1 /\ 0 \in 0 .. m - 1
    BY <1>2
  <2>3. \A k \in 0 .. m - 1 : g[k] = f[k]
    BY <2>2
  <2>4. g[m] = step[m][f[m - 1]] /\ f[m - 1] \in T
    BY <2>1, <2>2
  <2>5. g \in [0 .. m -> T]
    <3>1. \A k \in 0 .. m : k = m \/ k \in 0 .. m - 1
      BY <2>2
    <3> QED BY <2>1, <2>4, <3>1, <1>2
  <2>6. g[0] = first
    BY <2>1, <2>2, <2>3
  <2>7. ASSUME NEW k \in 1 .. m PROVE g[k] = step[k][g[k - 1]]
    <3>1. CASE k = m
      BY <2>2, <2>3, <2>4, <3>1
    <3>2. CASE k # m
      <4>1. k \in 1 .. m - 1 /\ k \in 0 .. m - 1 /\ k - 1 \in 0 .. m - 1
        BY <2>2, <3>2
      <4>2. g[k] = f[k] /\ g[k - 1] = f[k - 1]
        BY <2>3, <4>1
      <4> HIDE DEF g
      <4> QED BY <2>1, <4>1, <4>2
    <3> QED BY <3>1, <3>2
  <2> HIDE DEF g
  <2>8. IsRun(g, m)
    BY <2>5, <2>6, <2>7
  <2> HIDE DEF IsRun
  <2> QED BY <1>2, <2>8
<1> HIDE DEF IsRun
<1>3. \A m \in 0 .. n : m \in S
  <2>1. S \in SUBSET (0 .. n)
    OBVIOUS
  <2> HIDE DEF S
  <2> QED BY <1>1, <1>2, <2>1, AllRounds
<1>4. PICK f : IsRun(f, n)
  BY <1>3
<1> QED BY <1>4 DEF IsRun, Rounds

----------------------------------------------------------------------------
\* The order of the places.

BlocksUpTo(n) ==
  n + (IF n > DirectCount THEN 1 ELSE 0)
    + (IF n > Indirect1Bound THEN 1 + CeilDiv(n - Indirect1Bound, BlockSize) ELSE 0)

\* A sequence of the places that come with data blocks from .. to - 1: each once,
\* and none before the one that holds it.
Lists(s, from, to) ==
  /\ s \in Seq(AllPlaces)
  /\ \A p \in AllPlaces : (\E i \in 1 .. Len(s) : s[i] = p) <=> (from <= Born(p) /\ Born(p) < to)
  /\ \A i, j \in 1 .. Len(s) : s[i] = s[j] => i = j
  /\ \A i \in 1 .. Len(s) : Inner(s[i]) =>
       Born(Holder(s[i])) < from \/ \E j \in 1 .. i - 1 : s[j] = Holder(s[i])
  /\ Len(s) = BlocksUpTo(to) - BlocksUpTo(from)

\* What one more data block takes.
LEMMA BlocksUpToSteps ==
  /\ BlocksUpTo(0) = 0
  /\ \A n \in Nat :
       /\ BlocksUpTo(n) \in Nat
       /\ BlocksUpTo(n + 1) = BlocksUpTo(n) +
            (IF n = DirectCount THEN 2
             ELSE IF n = Indirect1Bound THEN 3
             ELSE IF n > Indirect1Bound /\ (n - Indirect1Bound) % BlockSize = 0 THEN 2 ELSE 1)
<1>0. /\ DirectCount \in Nat /\ DirectCount > 0 /\ Indirect1Bound \in Nat /\ DirectCount < Indirect1Bound
      /\ BlockSize \in Nat /\ BlockSize > 0
  BY Sizes
<1>1. BlocksUpTo(0) = 0
  BY <1>0 DEF BlocksUpTo
<1>2. \A m \in Nat : /\ CeilDiv(m, BlockSize) \in Nat
                     /\ CeilDiv(m + 1, BlockSize) = CeilDiv(m, BlockSize) + (IF m % BlockSize = 0 THEN 1 ELSE 0)
  BY CeilDivSteps
<1>3. CeilDiv(0, BlockSize) = 0 /\ 0 % BlockSize = 0
  BY <1>0, CeilDivSteps
<1>4. ASSUME NEW n \in Nat
      PROVE  /\ BlocksUpTo(n) \in Nat
             /\ BlocksUpTo(n + 1) = BlocksUpTo(n) +
                 (IF n = DirectCount THEN 2
                  ELSE IF n = Indirect1Bound THEN 3
                  ELSE IF n > Indirect1Bound /\ (n - Indirect1Bound) % BlockSize = 0 THEN 2 ELSE 1)
  <2>1. CASE n < Indirect1Bound
    BY <1>0, <2>1 DEF BlocksUpTo
  <2>2. CASE n >= Indirect1Bound
    <3> DEFINE m == n - Indirect1Bound
    <3>1. m \in Nat /\ n = Indirect1Bound + m /\ (n + 1) - Indirect1Bound = m + 1
      BY <1>0, <2>2
    <3> HIDE DEF m
    <3>2. /\ CeilDiv(m, BlockSize) \in Nat
          /\ CeilDiv(m + 1, BlockSize) = CeilDiv(m, BlockSize) + (IF m % BlockSize = 0 THEN 1 ELSE 0)
      BY <1>2, <3>1
    <3>3. BlocksUpTo(n + 1) = n + 1 + 1 + (1 + CeilDiv(m + 1, BlockSize))
      BY <1>0, <2>2, <3>1 DEF BlocksUpTo
    <3>4. BlocksUpTo(n) = n + 1 + (IF n > Indirect1Bound THEN 1 + CeilDiv(m, BlockSize) ELSE 0)
      BY <1>0, <2>2, <3>1 DEF BlocksUpTo, m
    <3>5. n = Indirect1Bound => m = 0
      BY <1>0, <3>1
    <3>6. n - Indirect1Bound = m
      BY DEF m
    <3> QED BY <1>0, <1>3, <2>2, <3>1, <3>2, <3>3, <3>4, <3>5, <3>6
  <2> QED BY <1>0, <2>1, <2>2
<1> QED BY <1>1, <1>4

\* Which places come with one data block.
LEMMA BornAt ==
  ASSUME NEW p \in AllPlaces, NEW k \in Nat
  PROVE  Born(p) = k <=>
           \/ p = DataPlace(k)
           \/ p = Ind1 /\ k = DirectCount
           \/ p = Ind2 /\ k = Indirect1Bound
           \/ /\ k >= Indirect1Bound /\ (k - Indirect1Bound) % BlockSize = 0
              /\ p = IndexPlace((k - Indirect1Bound) \div BlockSize)
<1>0. /\ DirectCount \in Nat /\ DirectCount > 0 /\ Indirect1Bound \in Nat /\ DirectCount < Indirect1Bound
      /\ BlockSize \in Nat /\ BlockSize > 0 /\ 0 \in Cells
  BY Sizes
<1> DEFINE m == k - Indirect1Bound
<1>1. CASE p = Ind1 \/ p = Ind2
  <2>1. /\ Born(Ind1) = DirectCount /\ Born(Ind2) = Indirect1Bound
        /\ Ind1 # Ind2 /\ Ind1 # DataPlace(k) /\ Ind2 # DataPlace(k)
    BY PlaceFacts, KindsOf
  <2>2. k >= Indirect1Bound => m \div BlockSize \in Nat
    <3>1. k >= Indirect1Bound => m \in Nat
      BY <1>0
    <3> QED BY <3>1, BlockAndPosition
  <2>3. k >= Indirect1Bound => p # IndexPlace(m \div BlockSize)
    BY <1>1, <2>2, KindsOf
  <2> QED BY <1>1, <2>1, <2>3
<1>2. CASE p.at \in Nat /\ p.of = "data" /\ p = DataPlace(p.at)
  <2>1. Born(p) = p.at
    BY <1>2, PlaceFacts, Zenon
  <2>2. p # Ind1 /\ p # Ind2 /\ \A j \in Nat : p # IndexPlace(j)
    BY <1>2, KindsOf
  <2>3. k >= Indirect1Bound => m \div BlockSize \in Nat
    <3>1. k >= Indirect1Bound => m \in Nat
      BY <1>0
    <3> QED BY <3>1, BlockAndPosition
  <2>4. p = DataPlace(k) => p.at = k
    BY KindsOf
  <2>5. p.at = k => p = DataPlace(k)
    BY <1>2, Zenon
  <2> QED BY <2>1, <2>2, <2>3, <2>4, <2>5
<1>3. CASE p.at \in Nat /\ p.of = "index" /\ p = IndexPlace(p.at)
  <2> DEFINE j == p.at
  <2>1. Born(p) = Indirect1Bound + j * BlockSize /\ j \in Nat
    BY <1>3, PlaceFacts, Zenon
  <2>2. p # Ind1 /\ p # Ind2 /\ p # DataPlace(k)
    BY <1>3, KindsOf
  <2>3. ASSUME Born(p) = k
        PROVE  k >= Indirect1Bound /\ m % BlockSize = 0 /\ p = IndexPlace(m \div BlockSize)
    <3>1. j * BlockSize \in Nat
      <4>1. \A i \in Nat : i * BlockSize \in Nat
        BY <1>0
      <4> QED BY <2>1, <4>1
    <3>2. m = j * BlockSize + 0 /\ k >= Indirect1Bound
      BY <1>0, <2>1, <2>3, <3>1
    <3>3. (j * BlockSize + 0) \div BlockSize = j /\ (j * BlockSize + 0) % BlockSize = 0
      BY <1>0, <2>1, BlockOf
    <3> HIDE DEF m
    <3> QED BY <1>3, <3>2, <3>3, Zenon
  <2>4. ASSUME k >= Indirect1Bound, m % BlockSize = 0, p = IndexPlace(m \div BlockSize)
        PROVE  Born(p) = k
    <3>1. m \in Nat /\ k = Indirect1Bound + m
      BY <1>0, <2>4
    <3>2. m \div BlockSize \in Nat /\ m = (m \div BlockSize) * BlockSize + 0
      <4> HIDE DEF m
      <4> QED BY <2>4, <3>1, BlockAndPosition
    <3>3. Born(p) = Indirect1Bound + (m \div BlockSize) * BlockSize
      BY <2>4, <3>2, PlaceFacts, Zenon
    <3> HIDE DEF m
    <3>4. (m \div BlockSize) * BlockSize \in Int
      BY <1>0, <3>2
    <3> QED BY <1>0, <3>1, <3>2, <3>3, <3>4
  <2> HIDE DEF m
  <2> QED BY <2>2, <2>3, <2>4 DEF m
<1> HIDE DEF m
<1> QED BY <1>1, <1>2, <1>3, PlaceKinds DEF m

\* Short sequences joined.
LEMMA Joined ==
  ASSUME NEW T
  PROVE  /\ \A x, y \in T : <<x>> \o <<y>> = <<x, y>>
         /\ \A x, y, z \in T : <<x, y>> \o <<z>> = <<x, y, z>>
<1>1. ASSUME NEW x \in T, NEW y \in T PROVE <<x>> \o <<y>> = <<x, y>>
  <2> DEFINE a == <<x>>
             b == <<y>>
             ab == <<x, y>>
  <2>1. a \in Seq(T) /\ b \in Seq(T) /\ ab \in Seq(T) /\ Len(a) = 1 /\ Len(b) = 1 /\ Len(ab) = 2
        /\ a[1] = x /\ b[1] = y /\ ab[1] = x /\ ab[2] = y
    OBVIOUS
  <2> HIDE DEF a, b, ab
  <2>2. a \o b \in Seq(T) /\ Len(a \o b) = 2 /\ (a \o b)[1] = a[1] /\ (a \o b)[2] = b[1]
    <3>1. /\ a \o b \in Seq(T) /\ Len(a \o b) = Len(a) + Len(b)
          /\ \A i \in 1 .. Len(a) + Len(b) : (a \o b)[i] = IF i <= Len(a) THEN a[i] ELSE b[i - Len(a)]
      BY <2>1, ConcatProperties
    <3> QED BY ONLY <2>1, <3>1
  <2>3. \A i \in 1 .. 2 : (a \o b)[i] = ab[i]
    BY ONLY <2>1, <2>2
  <2>4. a \o b = ab
    BY <2>1, <2>2, <2>3, SeqEqual
  <2> QED BY <2>4 DEF a, b, ab
<1>2. ASSUME NEW x \in T, NEW y \in T, NEW z \in T PROVE <<x, y>> \o <<z>> = <<x, y, z>>
  <2> DEFINE a == <<x, y>>
             b == <<z>>
             ab == <<x, y, z>>
  <2>1. a \in Seq(T) /\ b \in Seq(T) /\ ab \in Seq(T) /\ Len(a) = 2 /\ Len(b) = 1 /\ Len(ab) = 3
        /\ a[1] = x /\ a[2] = y /\ b[1] = z /\ ab[1] = x /\ ab[2] = y /\ ab[3] = z
    OBVIOUS
  <2> HIDE DEF a, b, ab
  <2>2. /\ a \o b \in Seq(T) /\ Len(a \o b) = 3 /\ (a \o b)[1] = a[1] /\ (a \o b)[2] = a[2]
        /\ (a \o b)[3] = b[1]
    <3>1. /\ a \o b \in Seq(T) /\ Len(a \o b) = Len(a) + Len(b)
          /\ \A i \in 1 .. Len(a) + Len(b) : (a \o b)[i] = IF i <= Len(a) THEN a[i] ELSE b[i - Len(a)]
      BY <2>1, ConcatProperties
    <3> QED BY ONLY <2>1, <3>1
  <2>3. \A i \in 1 .. 3 : (a \o b)[i] = ab[i]
    BY ONLY <2>1, <2>2
  <2>4. a \o b = ab
    BY <2>1, <2>2, <2>3, SeqEqual
  <2> QED BY <2>4 DEF a, b, ab
<1> QED BY <1>1, <1>2

\* The places that come with one data block, in order.
LEMMA PlacesOfIs ==
  ASSUME NEW k \in Nat
  PROVE  PlacesOf(k) =
           IF k = DirectCount THEN <<Ind1, DataPlace(k)>>
           ELSE IF k = Indirect1Bound THEN <<Ind2, IndexPlace(0), DataPlace(k)>>
           ELSE IF k > Indirect1Bound /\ (k - Indirect1Bound) % BlockSize = 0
           THEN <<IndexPlace((k - Indirect1Bound) \div BlockSize), DataPlace(k)>>
           ELSE <<DataPlace(k)>>
<1>0. /\ DirectCount \in Nat /\ DirectCount > 0 /\ Indirect1Bound \in Nat /\ DirectCount < Indirect1Bound
      /\ BlockSize \in Nat /\ BlockSize > 0
  BY Sizes
<1>1. /\ 0 \div BlockSize = 0 /\ 0 % BlockSize = 0
  BY <1>0
<1>2. /\ \A s \in Seq(AllPlaces) : <<>> \o s = s /\ s \o <<>> = s
      /\ <<>> \in Seq(AllPlaces) /\ \A x \in AllPlaces : <<x>> \in Seq(AllPlaces)
      /\ \A x, y \in AllPlaces : <<x>> \o <<y>> = <<x, y>>
      /\ \A x, y, z \in AllPlaces : <<x, y>> \o <<z>> = <<x, y, z>>
  BY Joined, ConcatEmptySeq
<1>8. /\ Ind1 \in AllPlaces /\ Ind2 \in AllPlaces /\ DataPlace(k) \in AllPlaces
      /\ IndexPlace(0) \in AllPlaces
      /\ k > Indirect1Bound => IndexPlace((k - Indirect1Bound) \div BlockSize) \in AllPlaces
  <2>1. k > Indirect1Bound => (k - Indirect1Bound) \div BlockSize \in Nat
    <3>1. k > Indirect1Bound => k - Indirect1Bound \in Nat
      BY <1>0
    <3> QED BY <3>1, BlockAndPosition
  <2> QED BY <2>1, KindsOf
<1> DEFINE last == k - Indirect1Bound
           a == IF k = DirectCount THEN <<Ind1>> ELSE <<>>
           b == IF last = 0 THEN <<Ind2>> ELSE <<>>
           c == IF last >= 0 /\ last % BlockSize = 0 THEN <<IndexPlace(last \div BlockSize)>> ELSE <<>>
<1>3. PlacesOf(k) = ((a \o b) \o c) \o <<DataPlace(k)>>
  BY DEF PlacesOf, Ind1, Ind2, IndexPlace, DataPlace
<1>4. CASE k = DirectCount
  <2>1. a = <<Ind1>> /\ b = <<>> /\ c = <<>>
    BY <1>0, <1>4
  <2> HIDE DEF a, b, c
  <2> QED BY <1>2, <1>3, <1>4, <1>8, <2>1
<1>5. CASE k = Indirect1Bound
  <2>1. a = <<>> /\ b = <<Ind2>> /\ c = <<IndexPlace(0)>>
    BY <1>0, <1>1, <1>5
  <2> HIDE DEF a, b, c
  <2> QED BY <1>0, <1>2, <1>3, <1>5, <1>8, <2>1
<1>6. CASE k > Indirect1Bound /\ last % BlockSize = 0
  <2>1. a = <<>> /\ b = <<>> /\ c = <<IndexPlace(last \div BlockSize)>>
    BY <1>0, <1>6
  <2> HIDE DEF a, b, c
  <2> QED BY <1>0, <1>2, <1>3, <1>6, <1>8, <2>1
<1>7. CASE k # DirectCount /\ k # Indirect1Bound /\ ~(k > Indirect1Bound /\ last % BlockSize = 0)
  <2>1. a = <<>> /\ b = <<>> /\ c = <<>>
    BY <1>0, <1>7
  <2> HIDE DEF a, b, c
  <2> QED BY <1>0, <1>2, <1>3, <1>7, <1>8, <2>1
<1> QED BY <1>4, <1>5, <1>6, <1>7

\* The places of one data block are listed.
LEMMA OneBlockLists ==
  ASSUME NEW k \in Nat
  PROVE  Lists(PlacesOf(k), k, k + 1)
<1>0. /\ DirectCount \in Nat /\ DirectCount > 0 /\ Indirect1Bound \in Nat /\ DirectCount < Indirect1Bound
      /\ BlockSize \in Nat /\ BlockSize > 0 /\ Indirect1Bound = DirectCount + BlockSize
  BY Sizes
<1> DEFINE s == PlacesOf(k)
           j == (k - Indirect1Bound) \div BlockSize
           data == DataPlace(k)
<1>1. \A p \in AllPlaces : Born(p) \in Nat
  BY HolderFacts
<1>2. \A p \in AllPlaces : (k <= Born(p) /\ Born(p) < k + 1) <=> Born(p) = k
  BY <1>1
<1>3. \A p \in AllPlaces : Inner(p) => Holder(p) \in AllPlaces /\ Born(Holder(p)) <= Born(p)
  BY HolderFacts
<1>4. /\ data \in AllPlaces /\ Ind1 \in AllPlaces /\ Ind2 \in AllPlaces /\ IndexPlace(0) \in AllPlaces
      /\ data # Ind1 /\ data # Ind2 /\ Ind1 # Ind2 /\ \A i \in Nat : IndexPlace(i) # data /\ IndexPlace(i) # Ind2
      /\ IndexPlace(0) # Ind2
  BY KindsOf
<1>5. \A p \in AllPlaces : Born(p) = k <=>
           \/ p = data
           \/ p = Ind1 /\ k = DirectCount
           \/ p = Ind2 /\ k = Indirect1Bound
           \/ k >= Indirect1Bound /\ (k - Indirect1Bound) % BlockSize = 0 /\ p = IndexPlace(j)
  BY BornAt
<1>6. \A i \in Nat : Inner(IndexPlace(i)) /\ Holder(IndexPlace(i)) = Ind2
  BY PlaceFacts
<1>7. ~Inner(Ind1) /\ ~Inner(Ind2) /\ Born(Ind1) = DirectCount /\ Born(Ind2) = Indirect1Bound
  BY PlaceFacts
<1>8. \A q : Born(q) = k => ~(Born(q) < k)
  BY <1>0
<1>10. k >= Indirect1Bound => j \in Nat /\ IndexPlace(j) \in AllPlaces
  <2>1. k >= Indirect1Bound => k - Indirect1Bound \in Nat
    BY <1>0
  <2>2. k >= Indirect1Bound => j \in Nat
    BY <2>1, BlockAndPosition
  <2> QED BY <2>2, KindsOf
<1>11. k = Indirect1Bound => (k - Indirect1Bound) % BlockSize = 0 /\ j = 0
  BY <1>0
\* The holder of the data block's pointer comes with an earlier block, or with this.
<1>12. Inner(data) => Born(Holder(data)) < k \/ (Holder(data) \in AllPlaces /\ Born(Holder(data)) = k)
  <2>1. Inner(data) => Holder(data) \in AllPlaces /\ Born(Holder(data)) <= Born(data)
    BY <1>3, <1>4
  <2>2. Inner(data) => Born(Holder(data)) \in Nat /\ Born(data) = k
    BY <1>1, <2>1, PlaceFacts
  <2> QED BY <2>1, <2>2
<1>13. Inner(data) => Holder(data) # data
  BY <1>4, HolderFacts
<1>14. BlocksUpTo(k) \in Nat /\ BlocksUpTo(k + 1) - BlocksUpTo(k) =
         (IF k = DirectCount THEN 2
          ELSE IF k = Indirect1Bound THEN 3
          ELSE IF k > Indirect1Bound /\ (k - Indirect1Bound) % BlockSize = 0 THEN 2 ELSE 1)
  BY BlocksUpToSteps
<1>15. Inner(data) /\ k >= Indirect1Bound => Holder(data) = IndexPlace(j)
  BY PlaceFacts
<1>16. Inner(data) /\ k = DirectCount => Holder(data) = Ind1
  BY <1>0, PlaceFacts
<1>17. \A i \in 1 .. 3 : i \in {1, 2, 3}
  OBVIOUS
<1> HIDE DEF j, data
<1>20. CASE k = DirectCount
  <2>1. s = <<Ind1, data>>
    BY <1>20, PlacesOfIs DEF data
  <2>2. s \in Seq(AllPlaces) /\ Len(s) = 2 /\ s[1] = Ind1 /\ s[2] = data
    BY <1>4, <2>1
  <2>3. ~(k >= Indirect1Bound) /\ k # Indirect1Bound
    BY <1>0, <1>20
  <2> HIDE DEF s
  <2>4. \A i \in 1 .. 2 : i = 1 \/ i = 2
    OBVIOUS
  <2>5. \A p \in AllPlaces : (\E i \in 1 .. Len(s) : s[i] = p) <=> (k <= Born(p) /\ Born(p) < k + 1)
    <3>1. \A p : (\E i \in 1 .. 2 : s[i] = p) <=> (p = Ind1 \/ p = data)
      BY <2>2
    <3> QED BY <1>2, <1>5, <1>20, <2>2, <2>3, <3>1
  <2>6. \A i, l \in 1 .. Len(s) : s[i] = s[l] => i = l
    BY <1>4, <2>2, <2>4
  <2>7. \A i \in 1 .. Len(s) : Inner(s[i]) =>
          Born(Holder(s[i])) < k \/ \E l \in 1 .. i - 1 : s[l] = Holder(s[i])
    <3>1. Inner(data) => \E l \in 1 .. 2 - 1 : s[l] = Holder(data)
      BY <1>16, <1>20, <2>2
    <3> QED BY <1>7, <2>2, <2>4, <3>1
  <2>10. Lists(s, k, k + 1)
    BY <1>14, <1>20, <2>2, <2>5, <2>6, <2>7 DEF Lists
  <2> QED BY <2>10 DEF s
<1>21. CASE k = Indirect1Bound
  <2>1. s = <<Ind2, IndexPlace(0), data>>
    BY <1>0, <1>21, PlacesOfIs DEF data
  <2>2. s \in Seq(AllPlaces) /\ Len(s) = 3 /\ s[1] = Ind2 /\ s[2] = IndexPlace(0) /\ s[3] = data
    BY <1>4, <2>1
  <2>3. k >= Indirect1Bound /\ k # DirectCount /\ j = 0 /\ (k - Indirect1Bound) % BlockSize = 0
    BY <1>0, <1>11, <1>21
  <2> HIDE DEF s
  <2>4. \A i \in 1 .. 3 : i = 1 \/ i = 2 \/ i = 3
    OBVIOUS
  <2>5. \A p \in AllPlaces : (\E i \in 1 .. Len(s) : s[i] = p) <=> (k <= Born(p) /\ Born(p) < k + 1)
    <3>1. \A p : (\E i \in 1 .. 3 : s[i] = p) <=> (p = Ind2 \/ p = IndexPlace(0) \/ p = data)
      BY <2>2
    <3> QED BY <1>2, <1>5, <1>21, <2>2, <2>3, <3>1
  <2>6. \A i, l \in 1 .. Len(s) : s[i] = s[l] => i = l
    <3>1. IndexPlace(0) # data
      BY <1>4
    <3> QED BY <1>4, <2>2, <2>4, <3>1
  <2>7. \A i \in 1 .. Len(s) : Inner(s[i]) =>
          Born(Holder(s[i])) < k \/ \E l \in 1 .. i - 1 : s[l] = Holder(s[i])
    <3>1. Inner(data) => \E l \in 1 .. 3 - 1 : s[l] = Holder(data)
      <4>1. Inner(data) => Holder(data) = IndexPlace(0)
        BY <1>15, <2>3
      <4> QED BY <2>2, <4>1
    <3>2. \E l \in 1 .. 2 - 1 : s[l] = Holder(IndexPlace(0))
      <4>1. Holder(IndexPlace(0)) = Ind2
        BY <1>6
      <4> QED BY <2>2, <4>1
    <3> QED BY <1>7, <2>2, <2>4, <3>1, <3>2
  <2>8. k + 1 \in Int /\ BlocksUpTo(k + 1) - BlocksUpTo(k) = 3
    BY <1>14, <1>21, <2>3
  <2>10. Lists(s, k, k + 1)
    BY <2>2, <2>5, <2>6, <2>7, <2>8 DEF Lists
  <2> QED BY <2>10 DEF s
<1>22. CASE k > Indirect1Bound /\ (k - Indirect1Bound) % BlockSize = 0
  <2>1. s = <<IndexPlace(j), data>>
    BY <1>0, <1>22, PlacesOfIs DEF data, j
  <2>3. k >= Indirect1Bound /\ k # DirectCount /\ k # Indirect1Bound /\ j \in Nat
        /\ IndexPlace(j) \in AllPlaces /\ IndexPlace(j) # data
    BY <1>0, <1>4, <1>10, <1>22
  <2>2. s \in Seq(AllPlaces) /\ Len(s) = 2 /\ s[1] = IndexPlace(j) /\ s[2] = data
    BY <1>4, <2>1, <2>3
  <2> HIDE DEF s
  <2>4. \A i \in 1 .. 2 : i = 1 \/ i = 2
    OBVIOUS
  <2>5. \A p \in AllPlaces : (\E i \in 1 .. Len(s) : s[i] = p) <=> (k <= Born(p) /\ Born(p) < k + 1)
    <3>1. \A p : (\E i \in 1 .. 2 : s[i] = p) <=> (p = IndexPlace(j) \/ p = data)
      BY <2>2
    <3> QED BY <1>2, <1>5, <1>22, <2>2, <2>3, <3>1
  <2>6. \A i, l \in 1 .. Len(s) : s[i] = s[l] => i = l
    BY <2>2, <2>3, <2>4
  <2>7. \A i \in 1 .. Len(s) : Inner(s[i]) =>
          Born(Holder(s[i])) < k \/ \E l \in 1 .. i - 1 : s[l] = Holder(s[i])
    <3>1. Inner(data) => \E l \in 1 .. 2 - 1 : s[l] = Holder(data)
      BY <1>15, <2>2, <2>3
    <3>2. Born(Holder(IndexPlace(j))) < k
      <4>1. Holder(IndexPlace(j)) = Ind2
        BY <1>6, <2>3
      <4> QED BY <1>7, <1>22, <4>1
    <3> QED BY <2>2, <2>4, <3>1, <3>2
  <2>10. Lists(s, k, k + 1)
    BY <1>14, <1>22, <2>2, <2>3, <2>5, <2>6, <2>7 DEF Lists
  <2> QED BY <2>10 DEF s
<1>23. CASE k # DirectCount /\ k # Indirect1Bound
            /\ ~(k > Indirect1Bound /\ (k - Indirect1Bound) % BlockSize = 0)
  <2>1. s = <<data>>
    BY <1>0, <1>23, PlacesOfIs DEF data
  <2>2. s \in Seq(AllPlaces) /\ Len(s) = 1 /\ s[1] = data
    BY <1>4, <2>1
  <2>3. ~(k >= Indirect1Bound /\ (k - Indirect1Bound) % BlockSize = 0)
    BY <1>0, <1>23
  <2> HIDE DEF s
  <2>4. \A i \in 1 .. 1 : i = 1
    OBVIOUS
  <2>9. \A p \in AllPlaces : Born(p) = k <=> p = data
    BY <1>5, <1>23, <2>3
  <2>5. \A p \in AllPlaces : (\E i \in 1 .. Len(s) : s[i] = p) <=> (k <= Born(p) /\ Born(p) < k + 1)
    <3>1. \A p : (\E i \in 1 .. 1 : s[i] = p) <=> p = data
      BY <2>2
    <3> QED BY <1>2, <2>2, <2>9, <3>1
  <2>6. \A i, l \in 1 .. Len(s) : s[i] = s[l] => i = l
    BY <2>2, <2>4
  <2>7. \A i \in 1 .. Len(s) : Inner(s[i]) =>
          Born(Holder(s[i])) < k \/ \E l \in 1 .. i - 1 : s[l] = Holder(s[i])
    <3>1. Inner(data) => Born(Holder(data)) < k
      BY <1>12, <1>13, <2>9
    <3> QED BY <2>2, <2>4, <3>1
  <2>10. Lists(s, k, k + 1)
    BY <1>14, <1>23, <2>2, <2>5, <2>6, <2>7 DEF Lists
  <2> QED BY <2>10 DEF s
<1> QED BY <1>20, <1>21, <1>22, <1>23

\* Two lists joined list what both do.
LEMMA ListsJoin ==
  ASSUME NEW a \in Nat, NEW b \in Nat, NEW c \in Nat, a <= b, b <= c,
         NEW s, NEW t, Lists(s, a, b), Lists(t, b, c)
  PROVE  Lists(s \o t, a, c)
<1> DEFINE st == s \o t
<1>1. s \in Seq(AllPlaces) /\ t \in Seq(AllPlaces)
  BY DEF Lists
<1>2. Len(s) \in Nat /\ Len(t) \in Nat
  BY <1>1
<1>3. /\ st \in Seq(AllPlaces) /\ Len(st) = Len(s) + Len(t)
      /\ \A i \in 1 .. Len(s) + Len(t) : st[i] = IF i <= Len(s) THEN s[i] ELSE t[i - Len(s)]
  BY <1>1, ConcatProperties
<1>4. /\ \A i \in 1 .. Len(s) : i \in 1 .. Len(st) /\ st[i] = s[i]
      /\ \A i \in 1 .. Len(t) : i + Len(s) \in 1 .. Len(st) /\ st[i + Len(s)] = t[i]
      /\ \A i \in 1 .. Len(st) : i \in 1 .. Len(s) \/ (i - Len(s) \in 1 .. Len(t) /\ st[i] = t[i - Len(s)])
  BY <1>2, <1>3
<1> HIDE DEF st
<1>5. \A p \in AllPlaces : Born(p) \in Nat
  BY HolderFacts
<1>6. /\ \A i \in 1 .. Len(s) : s[i] \in AllPlaces
      /\ \A i \in 1 .. Len(t) : t[i] \in AllPlaces
  BY <1>1
<1>7. /\ \A i \in 1 .. Len(s) : a <= Born(s[i]) /\ Born(s[i]) < b
      /\ \A i \in 1 .. Len(t) : b <= Born(t[i]) /\ Born(t[i]) < c
  BY <1>6 DEF Lists
<1>8. ASSUME NEW p \in AllPlaces
      PROVE  (\E i \in 1 .. Len(st) : st[i] = p) <=> (a <= Born(p) /\ Born(p) < c)
  <2>1. ASSUME NEW i \in 1 .. Len(st), st[i] = p PROVE a <= Born(p) /\ Born(p) < c
    <3>1. CASE i \in 1 .. Len(s)
      BY <1>4, <1>5, <1>7, <2>1, <3>1
    <3>2. CASE i - Len(s) \in 1 .. Len(t) /\ st[i] = t[i - Len(s)]
      BY <1>4, <1>5, <1>7, <2>1, <3>2
    <3> QED BY <1>4, <3>1, <3>2
  <2>2. ASSUME a <= Born(p), Born(p) < c PROVE \E i \in 1 .. Len(st) : st[i] = p
    <3>1. CASE Born(p) < b
      <4>1. PICK i \in 1 .. Len(s) : s[i] = p
        BY <2>2, <3>1 DEF Lists
      <4> QED BY <1>4, <4>1
    <3>2. CASE b <= Born(p)
      <4>1. PICK i \in 1 .. Len(t) : t[i] = p
        BY <2>2, <3>2 DEF Lists
      <4> QED BY <1>4, <4>1
    <3> QED BY <1>5, <3>1, <3>2
  <2> QED BY <2>1, <2>2
<1>9. ASSUME NEW i \in 1 .. Len(st), NEW j \in 1 .. Len(st), st[i] = st[j] PROVE i = j
  <2>1. CASE i \in 1 .. Len(s) /\ j \in 1 .. Len(s)
    BY <1>4, <1>9, <2>1 DEF Lists
  <2>2. CASE i \in 1 .. Len(s) /\ j - Len(s) \in 1 .. Len(t) /\ st[j] = t[j - Len(s)]
    <3>1. Born(st[i]) < b /\ b <= Born(st[j]) /\ Born(st[i]) \in Nat
      BY <1>4, <1>5, <1>6, <1>7, <2>2
    <3> QED BY <1>9, <3>1
  <2>3. CASE j \in 1 .. Len(s) /\ i - Len(s) \in 1 .. Len(t) /\ st[i] = t[i - Len(s)]
    <3>1. Born(st[j]) < b /\ b <= Born(st[i]) /\ Born(st[i]) \in Nat
      BY <1>4, <1>5, <1>6, <1>7, <2>3
    <3> QED BY <1>9, <3>1
  <2>4. CASE /\ i - Len(s) \in 1 .. Len(t) /\ st[i] = t[i - Len(s)]
             /\ j - Len(s) \in 1 .. Len(t) /\ st[j] = t[j - Len(s)]
    <3>1. i - Len(s) = j - Len(s)
      BY <1>9, <2>4 DEF Lists
    <3> QED BY <1>2, <3>1
  <2> QED BY <1>4, <2>1, <2>2, <2>3, <2>4
<1>10. ASSUME NEW i \in 1 .. Len(st), Inner(st[i])
       PROVE  Born(Holder(st[i])) < a \/ \E j \in 1 .. i - 1 : st[j] = Holder(st[i])
  <2>1. CASE i \in 1 .. Len(s)
    <3>1. st[i] = s[i] /\ (Born(Holder(s[i])) < a \/ \E j \in 1 .. i - 1 : s[j] = Holder(s[i]))
      BY <1>4, <1>10, <2>1 DEF Lists
    <3>2. \A j \in 1 .. i - 1 : j \in 1 .. Len(s)
      BY <1>2, <2>1
    <3> QED BY <1>4, <3>1, <3>2
  <2>2. CASE i - Len(s) \in 1 .. Len(t) /\ st[i] = t[i - Len(s)]
    <3> DEFINE l == i - Len(s)
    <3>1. Born(Holder(t[l])) < b \/ \E j \in 1 .. l - 1 : t[j] = Holder(t[l])
      BY <1>10, <2>2 DEF Lists
    <3>2. CASE \E j \in 1 .. l - 1 : t[j] = Holder(t[l])
      <4>1. PICK j \in 1 .. l - 1 : t[j] = Holder(t[l])
        BY <3>2
      <4>2. j \in 1 .. Len(t) /\ j + Len(s) \in 1 .. i - 1
        BY <1>2, <2>2
      <4> QED BY <1>4, <2>2, <4>1, <4>2
    <3>3. CASE Born(Holder(t[l])) < b
      <4>1. Holder(t[l]) \in AllPlaces
        BY <1>6, <1>10, <2>2, HolderFacts
      <4>2. a <= Born(Holder(t[l])) => \E j \in 1 .. Len(s) : s[j] = Holder(t[l])
        BY <3>3, <4>1 DEF Lists
      <4>3. \A j \in 1 .. Len(s) : j \in 1 .. i - 1
        BY <1>2, <2>2
      <4> QED BY <1>4, <1>5, <2>2, <4>1, <4>2, <4>3
    <3> QED BY <3>1, <3>2, <3>3
  <2> QED BY <1>4, <2>1, <2>2
<1>11. Len(st) = BlocksUpTo(c) - BlocksUpTo(a)
  <2>1. BlocksUpTo(a) \in Nat /\ BlocksUpTo(b) \in Nat /\ BlocksUpTo(c) \in Nat
    BY BlocksUpToSteps
  <2>2. Len(s) = BlocksUpTo(b) - BlocksUpTo(a) /\ Len(t) = BlocksUpTo(c) - BlocksUpTo(b)
    BY DEF Lists
  <2> QED BY <1>3, <2>1, <2>2
<1> QED BY <1>3, <1>8, <1>9, <1>10, <1>11 DEF st, Lists

\* The places between two numbers of data blocks are listed.
LEMMA PlacesLists ==
  ASSUME NEW from \in Nat, NEW to \in Nat, from <= to
  PROVE  Lists(Places(from, to), from, to)
<1> DEFINE n == to - from
           step == [k \in 1 .. n |-> [s \in Seq(AllPlaces) |-> s \o PlacesOf(from + k - 1)]]
           IsRun(f) == f = [k \in from .. to |-> IF k = from THEN <<>> ELSE f[k - 1] \o PlacesOf(k - 1)]
<1>1. n \in Nat
  OBVIOUS
<1>2. \A k \in Nat : PlacesOf(k) \in Seq(AllPlaces)
  BY OneBlockLists DEF Lists
<1>3. step \in [1 .. n -> [Seq(AllPlaces) -> Seq(AllPlaces)]]
  <2>1. \A k \in 1 .. n : from + k - 1 \in Nat
    BY <1>1
  <2>2. \A k \in 1 .. n : \A s \in Seq(AllPlaces) : s \o PlacesOf(from + k - 1) \in Seq(AllPlaces)
    BY <1>2, <2>1, ConcatProperties
  <2> QED BY <2>2
<1>4. PICK f : Rounds(f, Seq(AllPlaces), <<>>, n, step)
  <2>1. <<>> \in Seq(AllPlaces)
    OBVIOUS
  <2> HIDE DEF step, n
  <2> QED BY <1>1, <1>3, <2>1, Iterates, Zenon
<1>5. \A k \in 1 .. n : f[k] = f[k - 1] \o PlacesOf(from + k - 1)
  <2>1. \A k \in 1 .. n : k - 1 \in 0 .. n /\ f[k - 1] \in Seq(AllPlaces)
    BY <1>1, <1>4 DEF Rounds
  <2> HIDE DEF n
  <2> QED BY <1>4, <2>1 DEF Rounds
<1>6. IsRun([k \in from .. to |-> f[k - from]])
  <2> DEFINE g == [k \in from .. to |-> f[k - from]]
  <2>1. ASSUME NEW k \in from .. to PROVE g[k] = IF k = from THEN <<>> ELSE g[k - 1] \o PlacesOf(k - 1)
    <3>1. CASE k = from
      BY <1>4, <3>1 DEF Rounds
    <3>2. CASE k # from
      <4>1. k - from \in 1 .. n /\ k - 1 \in from .. to /\ from + (k - from) - 1 = k - 1
            /\ (k - from) - 1 = (k - 1) - from
        BY <3>2
      <4>2. f[k - from] = f[(k - 1) - from] \o PlacesOf(k - 1)
        BY <1>5, <4>1
      <4> QED BY <3>2, <4>1, <4>2
    <3> QED BY <3>1, <3>2
  <2>2. g = [k \in from .. to |-> g[k]]
    OBVIOUS
  <2>3. IsRun(g)
    <3> HIDE DEF g
    <3> QED BY <2>1, <2>2
  <2> QED BY <2>3
<1>7. PICK run : run = (CHOOSE g : IsRun(g)) /\ Places(from, to) = run[to]
  BY DEF Places
<1>8. IsRun(run)
  BY <1>6, <1>7
<1>9. run[from] = <<>> /\ \A k \in from + 1 .. to : run[k] = run[k - 1] \o PlacesOf(k - 1)
  <2>1. from \in from .. to /\ \A k \in from + 1 .. to : k \in from .. to /\ k # from
    OBVIOUS
  <2> QED BY <1>8, <2>1
<1> DEFINE S == {k \in 0 .. n : Lists(run[from + k], from, from + k)}
<1>10. 0 \in S
  <2>1. run[from + 0] = <<>>
    BY <1>9
  <2>2. Lists(<<>>, from, from + 0)
    <3>1. \A p \in AllPlaces : ~(from <= Born(p) /\ Born(p) < from + 0)
      BY HolderFacts
    <3>2. BlocksUpTo(from + 0) - BlocksUpTo(from) = 0
      BY BlocksUpToSteps
    <3>3. <<>> \in Seq(AllPlaces) /\ Len(<<>>) = 0
      OBVIOUS
    <3>4. \A i \in 1 .. Len(<<>>) : FALSE
      BY <3>3
    <3> QED BY <3>1, <3>2, <3>3, <3>4 DEF Lists
  <2> QED BY <1>1, <2>1, <2>2
<1>11. ASSUME NEW k \in 1 .. n, k - 1 \in S PROVE k \in S
  <2> DEFINE m == from + k - 1
  <2>1. m \in Nat /\ m + 1 = from + k /\ from <= m /\ from + (k - 1) = m /\ m + 1 \in from + 1 .. to
        /\ (m + 1) - 1 = m
    BY <1>1
  <2>2. Lists(run[m], from, m)
    BY <1>11, <2>1
  <2>3. Lists(PlacesOf(m), m, m + 1)
    BY <2>1, OneBlockLists
  <2>4. Lists(run[m] \o PlacesOf(m), from, m + 1)
    <3>1. m + 1 \in Nat /\ m <= m + 1
      BY <2>1
    <3> HIDE DEF m
    <3> QED BY <2>1, <2>2, <2>3, <3>1, ListsJoin
  <2>5. run[m + 1] = run[m] \o PlacesOf(m)
    <3> HIDE DEF m
    <3> QED BY <1>9, <2>1
  <2>6. Lists(run[from + k], from, from + k)
    <3> HIDE DEF m
    <3> QED BY <2>1, <2>4, <2>5, Zenon
  <2>7. k \in 0 .. n
    BY <1>1
  <2> QED BY <2>6, <2>7
<1>12. n \in S
  <2>1. S \in SUBSET (0 .. n) /\ n \in 0 .. n
    BY <1>1
  <2> HIDE DEF S, n
  <2> QED BY <1>1, <1>10, <1>11, <2>1, AllRounds
<1>13. from + n = to
  OBVIOUS
<1> QED BY <1>7, <1>12, <1>13

\* total_blocks counts the places.
LEMMA TotalBlocksIs ==
  ASSUME NEW size \in Nat
  PROVE  TotalBlocks(size) = BlocksUpTo(DataBlocks(size)) /\ TotalBlocks(size) \in Nat
<1>1. DataBlocks(size) \in Nat
  BY DataBlocksOf
<1>2. TotalBlocks(size) = BlocksUpTo(DataBlocks(size))
  BY DEF TotalBlocks, BlocksUpTo
<1> QED BY <1>1, <1>2, BlocksUpToSteps

----------------------------------------------------------------------------
\* Images in which the pointers are right.

Ptr(im, i, p) == PointerAt(im, im.inode[i], p)

\* P says which places of each inode hold pointers, bits which blocks are pointed to:
\* each by one pointer; a pointer is held by a block that the device has; a direct
\* pointer that is not one of them is 0.
Good(im, P, bits) ==
  /\ P \in [DOMAIN im.inode -> SUBSET AllPlaces]
  /\ \A i \in DOMAIN im.inode : \A p \in P[i] :
       /\ Ptr(im, i, p) \in Int /\ Ptr(im, i, p) - DataAreaStart \in bits
       /\ Inner(p) => /\ Holder(p) \in P[i] /\ Position(p) \in Cells
                      /\ Ptr(im, i, Holder(p)) \in OnDevice
  /\ \A i, j \in DOMAIN im.inode : \A p \in P[i], q \in P[j] :
       Ptr(im, i, p) = Ptr(im, j, q) => i = j /\ p = q
  /\ \A d \in bits : \E i \in DOMAIN im.inode : \E p \in P[i] : Ptr(im, i, p) = DataAreaStart + d
  /\ \A i \in DOMAIN im.inode : \A k \in 0 .. DirectCount - 1 :
       DataPlace(k) \notin P[i] => Field(im.inode[i], DataPlace(k)) = 0

\* What P says of im holds of r, and the data blocks show the same in both.
Kept(im, r, P) ==
  \A i \in DOMAIN im.inode : \A p \in P[i] :
    /\ Ptr(r, i, p) = Ptr(im, i, p)
    /\ (\E k \in Nat : p = DataPlace(k)) =>
         \A c : Cell(r, Ptr(im, i, p), c) = Cell(im, Ptr(im, i, p), c)

\* An image that differs from another at most in its blocks and one inode's pointers.
Resembles(r, im, ino) ==
  /\ r \in Images
  /\ r.inode_bitmap = im.inode_bitmap /\ r.data_bitmap = im.data_bitmap
  /\ DOMAIN r.inode = DOMAIN im.inode
  /\ \A i \in DOMAIN im.inode : r.inode[i].size = im.inode[i].size
  /\ \A i \in DOMAIN im.inode : i # ino => r.inode[i] = im.inode[i]

With(P, ino, S) == [P EXCEPT ![ino] = @ \cup S]

\* One pointer more, to a block that nothing points to.
LEMMA GoodGrows ==
  ASSUME NEW im, NEW r, NEW P, NEW bits \in SUBSET DataBits, Good(im, P, bits),
         NEW ino \in DOMAIN im.inode, NEW p \in AllPlaces, p \notin P[ino],
         NEW d \in DataBits, d \notin bits,
         DOMAIN r.inode = DOMAIN im.inode,
         \A i \in DOMAIN im.inode : \A q \in P[i] : Ptr(r, i, q) = Ptr(im, i, q),
         Ptr(r, ino, p) = DataAreaStart + d,
         Inner(p) => /\ Holder(p) \in P[ino] /\ Position(p) \in Cells
                     /\ Ptr(im, ino, Holder(p)) \in OnDevice,
         \A i \in DOMAIN im.inode : \A k \in 0 .. DirectCount - 1 :
           (i = ino => DataPlace(k) # p) =>
             Field(r.inode[i], DataPlace(k)) = Field(im.inode[i], DataPlace(k))
  PROVE  Good(r, With(P, ino, {p}), bits \cup {d})
<1> DEFINE Q == With(P, ino, {p})
           I == DOMAIN im.inode
<1>0. DataAreaStart \in Nat /\ DataBits \subseteq Nat
  BY Layout
<1>1. P \in [I -> SUBSET AllPlaces]
  BY DEF Good
<1>2. /\ Q \in [I -> SUBSET AllPlaces] /\ Q[ino] = P[ino] \cup {p}
      /\ \A i \in I : i # ino => Q[i] = P[i]
      /\ \A i \in I : P[i] \subseteq Q[i]
      /\ \A i \in I : \A q \in Q[i] : q \in P[i] \/ (i = ino /\ q = p)
  BY <1>1 DEF With
<1>3. \A i \in I : \A q \in P[i] :
        /\ Ptr(im, i, q) \in Int /\ Ptr(im, i, q) - DataAreaStart \in bits
        /\ Inner(q) => Holder(q) \in P[i] /\ Position(q) \in Cells /\ Ptr(im, i, Holder(q)) \in OnDevice
  BY DEF Good
<1>4. \A i \in I : \A q \in P[i] : Ptr(r, i, q) # DataAreaStart + d
  <2> SUFFICES ASSUME NEW i \in I, NEW q \in P[i], Ptr(r, i, q) = DataAreaStart + d PROVE FALSE
    OBVIOUS
  <2>1. Ptr(im, i, q) - DataAreaStart = d
    BY <1>0, <1>3
  <2> QED BY <1>3, <2>1
<1> HIDE DEF Q
<1>5. ASSUME NEW i \in I, NEW q \in Q[i]
      PROVE  /\ Ptr(r, i, q) \in Int /\ Ptr(r, i, q) - DataAreaStart \in bits \cup {d}
             /\ Inner(q) => Holder(q) \in Q[i] /\ Position(q) \in Cells /\ Ptr(r, i, Holder(q)) \in OnDevice
  <2>1. CASE q \in P[i]
    BY <1>2, <1>3, <2>1
  <2>2. CASE i = ino /\ q = p
    <3>1. Ptr(r, i, q) \in Int /\ Ptr(r, i, q) - DataAreaStart = d
      BY <1>0, <2>2
    <3>2. Inner(p) => Holder(p) \in Q[ino] /\ Position(p) \in Cells /\ Ptr(r, ino, Holder(p)) \in OnDevice
      BY <1>2
    <3> QED BY <2>2, <3>1, <3>2
  <2> QED BY <1>2, <2>1, <2>2
<1>6. ASSUME NEW i \in I, NEW j \in I, NEW a \in Q[i], NEW b \in Q[j], Ptr(r, i, a) = Ptr(r, j, b)
      PROVE  i = j /\ a = b
  <2>1. CASE a \in P[i] /\ b \in P[j]
    <3>1. Ptr(im, i, a) = Ptr(im, j, b)
      BY <1>6, <2>1
    <3> QED BY <2>1, <3>1 DEF Good
  <2>2. CASE a \in P[i] /\ (j = ino /\ b = p)
    BY <1>4, <1>6, <2>2
  <2>3. CASE (i = ino /\ a = p) /\ b \in P[j]
    BY <1>4, <1>6, <2>3
  <2> QED BY <1>2, <2>1, <2>2, <2>3
<1>7. ASSUME NEW e \in bits \cup {d}
      PROVE  \E i \in I : \E q \in Q[i] : Ptr(r, i, q) = DataAreaStart + e
  <2>1. CASE e \in bits
    <3>1. PICK i \in I : \E q \in P[i] : Ptr(im, i, q) = DataAreaStart + e
      BY <2>1 DEF Good
    <3> QED BY <1>2, <3>1
  <2>2. CASE e = d
    BY <1>2, <2>2
  <2> QED BY <2>1, <2>2
<1>8. ASSUME NEW i \in I, NEW k \in 0 .. DirectCount - 1, DataPlace(k) \notin Q[i]
      PROVE  Field(r.inode[i], DataPlace(k)) = 0
  <2>1. DataPlace(k) \notin P[i] /\ (i = ino => DataPlace(k) # p)
    BY <1>2, <1>8
  <2>2. Field(im.inode[i], DataPlace(k)) = 0
    BY <2>1 DEF Good
  <2> QED BY <2>1, <2>2
<1> HIDE DEF I
<1>9. DOMAIN r.inode = I
  BY DEF I
<1> QED BY <1>2, <1>5, <1>6, <1>7, <1>8, <1>9 DEF Good, Q

\* r is im with a pointer set at p, so that P with p is right; or the code panicked.
PointerSet(r, im, ino, p, P, bits) ==
  /\ r.fault = "none" => Good(r, With(P, ino, {p}), bits) /\ Kept(im, r, P)
  /\ r.fault # "none" =>
       /\ Inner(p)
       /\ \/ r.fault = "device" /\ Ptr(im, ino, Holder(p)) \notin OnDevice
          \/ r.fault = "index" /\ Position(p) \notin Cells

\* A pointer set: the others stay, and so does what the data blocks show; or the
\* block to hold it is not on the device, or the position not in a block.
LEMMA SetPointerDoes ==
  ASSUME NEW im \in Images, NEW P, NEW bits \in SUBSET DataBits, Good(im, P, bits),
         im.fault = "none",
         NEW ino \in DOMAIN im.inode, NEW p \in AllPlaces, p \notin P[ino],
         Inner(p) => Holder(p) \in P[ino],
         NEW d \in DataBits, d \notin bits
  PROVE  /\ Resembles(SetPointer(im, ino, p, DataAreaStart + d), im, ino)
         /\ PointerSet(SetPointer(im, ino, p, DataAreaStart + d), im, ino, p, P, bits \cup {d})
<1> DEFINE I == DOMAIN im.inode
           id == DataAreaStart + d
           r == SetPointer(im, ino, p, id)
           inode == im.inode[ino]
<1>0. id \in BlockIds /\ id \in Nat
  BY Layout
<1>1. /\ \A i \in I : im.inode[i] \in InodeRecords
      /\ DOMAIN im.block = OnDevice
  BY ImageParts
<1>2. P \in [I -> SUBSET AllPlaces] /\ \A i \in I : \A q \in P[i] : Inner(q) => Holder(q) \in P[i]
  BY DEF Good
<1>3. CASE ~Inner(p)
  <2> DEFINE w == WithField(inode, p, id)
  <2>1. r = WithInode(im, ino, w)
    BY <1>3, SetPointerIs
  <2>2. /\ w \in InodeRecords /\ w.size = inode.size /\ Field(w, p) = id
        /\ \A q \in AllPlaces : ~Inner(q) /\ q # p => Field(w, q) = Field(inode, q)
    BY <1>0, <1>1, <1>3, FieldDoes
  <2> HIDE DEF w
  <2>3. /\ r \in Images /\ r.fault = im.fault /\ r.inode_bitmap = im.inode_bitmap
        /\ r.data_bitmap = im.data_bitmap /\ r.block = im.block
        /\ DOMAIN r.inode = I /\ r.inode[ino] = w
        /\ \A j \in I : j # ino => r.inode[j] = im.inode[j]
    <3>1. InodeChanged(WithInode(im, ino, w), im, ino, w)
      BY <2>2, InodeChanges
    <3> HIDE DEF r
    <3> QED BY <2>1, <3>1 DEF InodeChanged
  <2> HIDE DEF r
  <2>4. \A b, c : Cell(r, b, c) = Cell(im, b, c)
    BY <2>3 DEF Cell
  <2>5. ASSUME NEW i \in I PROVE \A q \in P[i] : Ptr(r, i, q) = Ptr(im, i, q)
    <3>1. CASE i # ino
      <4>1. \A q \in P[i] : PointerAt(r, im.inode[i], q) = PointerAt(im, im.inode[i], q)
        BY <1>2, <2>4, SamePointers
      <4> QED BY <2>3, <3>1, <4>1 DEF Ptr
    <3>2. CASE i = ino
      <4>1. \A q \in P[ino] : ~Inner(q) => Field(w, q) = Field(inode, q)
        BY <1>2, <2>2
      <4>2. \A q \in P[ino] : PointerAt(r, w, q) = PointerAt(im, inode, q)
        <5> HIDE DEF inode
        <5> QED BY <1>2, <2>4, <4>1, SamePointers
      <4> QED BY <2>3, <3>2, <4>2 DEF Ptr
    <3> QED BY <3>1, <3>2
  <2>6. Ptr(r, ino, p) = id
    BY <1>3, <2>2, <2>3, PointerIs DEF Ptr
  <2>7. ASSUME NEW i \in I, NEW k \in 0 .. DirectCount - 1, i = ino => DataPlace(k) # p
        PROVE  Field(r.inode[i], DataPlace(k)) = Field(im.inode[i], DataPlace(k))
    <3>1. DataPlace(k) \in AllPlaces /\ ~Inner(DataPlace(k))
      BY PlaceFacts, KindsOf, Sizes
    <3> QED BY <2>2, <2>3, <2>7, <3>1
  <2>8. Resembles(r, im, ino)
    BY <2>2, <2>3 DEF Resembles
  <2>9. Good(r, With(P, ino, {p}), bits \cup {d})
    BY <1>3, <2>3, <2>5, <2>6, <2>7, GoodGrows
  <2>10. Kept(im, r, P)
    BY <2>4, <2>5 DEF Kept
  <2>11. r.fault = "none"
    BY <2>3
  <2> QED BY <2>8, <2>9, <2>10, <2>11 DEF r, PointerSet
<1>4. CASE Inner(p)
  <2> DEFINE h == Ptr(im, ino, Holder(p))
             c == Position(p)
  <2>1. r = Poke(im, h, c, id)
    BY <1>4, SetPointerIs DEF Ptr
  <2>2. /\ r \in Images /\ r.inode_bitmap = im.inode_bitmap /\ r.data_bitmap = im.data_bitmap
        /\ r.inode = im.inode
        /\ h \in OnDevice /\ c \in Cells => r.fault = im.fault /\ Cell(r, h, c) = id
        /\ h \notin OnDevice => r.fault = "device"
        /\ h \in OnDevice /\ c \notin Cells => r.fault = "index"
        /\ \A x, y : x # h \/ y # c => Cell(r, x, y) = Cell(im, x, y)
    BY <1>0, <2>1, PokeDoes
  <2> HIDE DEF r
  <2>3. Resembles(r, im, ino)
    BY <2>2 DEF Resembles
  <2>4. ASSUME r.fault = "none" PROVE Good(r, With(P, ino, {p}), bits \cup {d}) /\ Kept(im, r, P)
    <3>1. h \in OnDevice /\ c \in Cells
      BY <2>2, <2>4
    <3>2. \A i \in I : \A q \in P[i] : Ptr(im, i, q) = h => i = ino /\ q = Holder(p)
      <4>1. Holder(p) \in P[ino]
        BY <1>4
      <4> QED BY <4>1 DEF Good
    <3>3. ASSUME NEW i \in I, NEW q \in P[i], Inner(q)
          PROVE  Ptr(im, i, Holder(q)) # h \/ Position(q) # c
      <4> SUFFICES ASSUME Ptr(im, i, Holder(q)) = h, Position(q) = c PROVE FALSE
        OBVIOUS
      <4>1. i = ino /\ Holder(q) = Holder(p)
        BY <1>2, <3>2, <3>3
      <4>2. q = p
        BY <1>2, <1>4, <3>3, <4>1, HolderFacts
      <4> QED BY <4>1, <4>2
    <3>4. ASSUME NEW i \in I PROVE \A q \in P[i] : Ptr(r, i, q) = Ptr(im, i, q)
      <4>1. \A q \in P[i] : Inner(q) =>
              Cell(r, PointerAt(im, im.inode[i], Holder(q)), Position(q))
                = Cell(im, PointerAt(im, im.inode[i], Holder(q)), Position(q))
        BY <2>2, <3>3 DEF Ptr
      <4>2. \A q \in P[i] : PointerAt(r, im.inode[i], q) = PointerAt(im, im.inode[i], q)
        BY <1>2, <4>1, SamePointers
      <4> QED BY <2>2, <4>2 DEF Ptr
    <3>5. Ptr(r, ino, p) = id
      <4>1. Ptr(r, ino, p) = Cell(r, Ptr(r, ino, Holder(p)), c)
        BY <1>4, PointerIs DEF Ptr
      <4>2. Ptr(r, ino, Holder(p)) = h
        BY <1>4, <3>4
      <4> QED BY <2>2, <3>1, <4>1, <4>2
    <3>6. Good(r, With(P, ino, {p}), bits \cup {d})
      <4>1. DOMAIN r.inode = DOMAIN im.inode
        BY <2>2
      <4>2. \A i \in I : \A k \in 0 .. DirectCount - 1 :
             (i = ino => DataPlace(k) # p) =>
               Field(r.inode[i], DataPlace(k)) = Field(im.inode[i], DataPlace(k))
        BY <2>2
      <4> QED BY <1>4, <3>1, <3>4, <3>5, <4>1, <4>2, GoodGrows
    <3>7. ASSUME NEW i \in I, NEW q \in P[i], NEW k \in Nat, q = DataPlace(k)
          PROVE  \A y : Cell(r, Ptr(im, i, q), y) = Cell(im, Ptr(im, i, q), y)
      <4>1. Ptr(im, i, q) # h
        BY <1>4, <3>2, <3>7, HolderFacts
      <4> QED BY <2>2, <4>1
    <3>8. Kept(im, r, P)
      BY <3>4, <3>7 DEF Kept
    <3> QED BY <3>6, <3>8
  <2>5. r.fault # "none" =>
          \/ r.fault = "device" /\ h \notin OnDevice
          \/ r.fault = "index" /\ c \notin Cells
    BY <2>2
  <2> QED BY <1>4, <2>3, <2>4, <2>5 DEF r, PointerSet
<1> QED BY <1>3, <1>4

----------------------------------------------------------------------------
\* Allocation.

\* The lowest free bit is a free bit.
LEMMA LowestFreeIs ==
  ASSUME NEW bits \in SUBSET DataBits, bits # DataBits
  PROVE  LowestFree(bits) \in DataBits /\ LowestFree(bits) \notin bits
<1>1. DataBits \ bits \in SUBSET Nat /\ DataBits \ bits # {}
  BY Layout
<1>2. Min(DataBits \ bits) \in DataBits \ bits
  BY <1>1, MinMember
<1> QED BY <1>2 DEF LowestFree

\* The bits that are set after each of a number of calls of alloc_data.
TakenRight(taken, bits, n) ==
  /\ taken \in [0 .. n -> SUBSET DataBits] /\ taken[0] = bits
  /\ \A k \in 1 .. n :
       /\ taken[k - 1] = DataBits => taken[k] = DataBits
       /\ taken[k - 1] # DataBits => taken[k] = taken[k - 1] \cup {LowestFree(taken[k - 1])}

\* Taken is that.
LEMMA TakenIs ==
  ASSUME NEW bits \in SUBSET DataBits, NEW n \in Nat
  PROVE  TakenRight(Taken(bits, n), bits, n)
<1> DEFINE Step(t) == IF t = DataBits THEN DataBits ELSE t \cup {LowestFree(t)}
           step == [k \in 1 .. n |-> [t \in SUBSET DataBits |-> Step(t)]]
           IsRun(f) == f = [i \in 0 .. n |-> IF i = 0 THEN bits
                                             ELSE IF f[i - 1] = DataBits THEN DataBits
                                             ELSE f[i - 1] \cup {LowestFree(f[i - 1])}]
<1>1. \A t \in SUBSET DataBits : Step(t) \in SUBSET DataBits
  BY LowestFreeIs
<1> HIDE DEF Step
<1>2. step \in [1 .. n -> [SUBSET DataBits -> SUBSET DataBits]]
  BY <1>1
<1>3. PICK f : Rounds(f, SUBSET DataBits, bits, n, step)
  <2> HIDE DEF step
  <2> QED BY <1>2, Iterates, Zenon
<1>4. f \in [0 .. n -> SUBSET DataBits] /\ f[0] = bits /\ \A k \in 1 .. n : f[k] = Step(f[k - 1])
  <2>1. f \in [0 .. n -> SUBSET DataBits] /\ f[0] = bits /\ \A k \in 1 .. n : f[k] = step[k][f[k - 1]]
    BY <1>3 DEF Rounds
  <2>2. \A k \in 1 .. n : k - 1 \in 0 .. n /\ f[k - 1] \in SUBSET DataBits
    BY <2>1
  <2> QED BY <2>1, <2>2
<1>5. IsRun(f)
  <2>1. \A i \in 0 .. n : f[i] = IF i = 0 THEN bits ELSE IF f[i - 1] = DataBits THEN DataBits
                                 ELSE f[i - 1] \cup {LowestFree(f[i - 1])}
    <3>1. \A i \in 0 .. n : i = 0 \/ i \in 1 .. n
      OBVIOUS
    <3> QED BY <1>4, <3>1 DEF Step
  <2>2. f = [i \in 0 .. n |-> f[i]]
    BY <1>4
  <2> QED BY <2>1, <2>2
<1>6. PICK run : run = (CHOOSE g : IsRun(g)) /\ Taken(bits, n) = run
  BY DEF Taken
<1>7. IsRun(run)
  BY <1>5, <1>6
<1>8. /\ run[0] = bits /\ DOMAIN run = 0 .. n /\ run = [i \in 0 .. n |-> run[i]]
      /\ \A k \in 1 .. n : run[k] = IF run[k - 1] = DataBits THEN DataBits
                                    ELSE run[k - 1] \cup {LowestFree(run[k - 1])}
  <2>1. 0 \in 0 .. n /\ \A k \in 1 .. n : k \in 0 .. n /\ k # 0
    OBVIOUS
  <2> QED BY <1>7, <2>1
<1> DEFINE S == {k \in 0 .. n : run[k] \in SUBSET DataBits}
<1>9. \A k \in 0 .. n : k \in S
  <2>1. 0 \in S
    BY <1>8
  <2>2. ASSUME NEW k \in 1 .. n, k - 1 \in S PROVE k \in S
    <3>1. run[k] = Step(run[k - 1]) /\ run[k - 1] \in SUBSET DataBits
      BY <1>8, <2>2 DEF Step
    <3> QED BY <1>1, <3>1
  <2>3. S \in SUBSET (0 .. n)
    OBVIOUS
  <2> HIDE DEF S
  <2> QED BY <2>1, <2>2, <2>3, AllRounds
<1>10. run \in [0 .. n -> SUBSET DataBits]
  <2>1. \A k \in 0 .. n : run[k] \in SUBSET DataBits
    BY <1>9
  <2> QED BY <1>8, <2>1
<1>11. TakenRight(run, bits, n)
  BY <1>8, <1>10 DEF TakenRight
<1> QED BY <1>6, <1>11, Zenon

\* Bits once set stay set.
LEMMA TakenGrows ==
  ASSUME NEW n \in Nat, NEW bits \in SUBSET DataBits, NEW taken, TakenRight(taken, bits, n)
  PROVE  \A k \in 0 .. n : taken[k] \subseteq taken[n]
<1> DEFINE S == {m \in 0 .. n : taken[n - m] \subseteq taken[n]}
<1>1. \A k \in 1 .. n : taken[k - 1] \subseteq taken[k]
  <2>1. \A k \in 1 .. n : k \in 0 .. n /\ k - 1 \in 0 .. n
    OBVIOUS
  <2>2. \A k \in 0 .. n : taken[k] \subseteq DataBits
    BY DEF TakenRight
  <2> QED BY <2>1, <2>2 DEF TakenRight
<1>2. 0 \in S
  <2>1. n - 0 = n
    OBVIOUS
  <2> QED BY <2>1
<1>3. ASSUME NEW m \in 1 .. n, m - 1 \in S PROVE m \in S
  <2>1. n - m + 1 \in 1 .. n /\ n - (m - 1) = n - m + 1 /\ (n - m + 1) - 1 = n - m
    OBVIOUS
  <2>2. taken[n - m] \subseteq taken[n - m + 1] /\ taken[n - m + 1] \subseteq taken[n]
    BY <1>1, <1>3, <2>1
  <2>3. m \in 0 .. n
    OBVIOUS
  <2> QED BY <2>2, <2>3
<1>4. \A m \in 0 .. n : m \in S
  <2>1. S \in SUBSET (0 .. n)
    OBVIOUS
  <2> HIDE DEF S
  <2> QED BY <1>2, <1>3, <2>1, AllRounds
<1>5. \A k \in 0 .. n : n - k \in 0 .. n /\ n - (n - k) = k
  OBVIOUS
<1> QED BY <1>4, <1>5

\* Whatever the image, setting a pointer changes at most blocks and that inode, and
\* a fault stays.
LEMMA SetPointerTotal ==
  ASSUME NEW im \in Images, NEW ino \in DOMAIN im.inode, NEW p \in AllPlaces, NEW id \in BlockIds
  PROVE  /\ Resembles(SetPointer(im, ino, p, id), im, ino)
         /\ im.fault # "none" => SetPointer(im, ino, p, id).fault = im.fault
<1> DEFINE r == SetPointer(im, ino, p, id)
<1>1. im.inode[ino] \in InodeRecords /\ id \in Nat
  BY ImageParts, Layout
<1>2. CASE ~Inner(p)
  <2> DEFINE w == WithField(im.inode[ino], p, id)
  <2>1. w \in InodeRecords /\ w.size = im.inode[ino].size
    BY <1>1, <1>2, FieldDoes
  <2>2. r = WithInode(im, ino, w)
    BY <1>2, SetPointerIs
  <2> HIDE DEF w, r
  <2>3. InodeChanged(r, im, ino, w)
    <3>1. InodeChanged(WithInode(im, ino, w), im, ino, w)
      BY <2>1, InodeChanges
    <3> QED BY <2>2, <3>1
  <2> QED BY <2>1, <2>3 DEF Resembles, InodeChanged, r
<1>3. CASE Inner(p)
  <2> DEFINE h == PointerAt(im, im.inode[ino], Holder(p))
             c == Position(p)
  <2>1. r = Poke(im, h, c, id)
    BY <1>3, SetPointerIs
  <2> HIDE DEF h, c, r
  <2>2. /\ r \in Images /\ r.inode_bitmap = im.inode_bitmap /\ r.data_bitmap = im.data_bitmap
        /\ r.inode = im.inode
        /\ im.fault # "none" => r.fault = im.fault
    <3>1. /\ Poke(im, h, c, id) \in Images
          /\ Poke(im, h, c, id).inode_bitmap = im.inode_bitmap
          /\ Poke(im, h, c, id).data_bitmap = im.data_bitmap
          /\ Poke(im, h, c, id).inode = im.inode
          /\ im.fault # "none" => Poke(im, h, c, id).fault = im.fault
      BY <1>1, PokeDoes
    <3> QED BY <2>1, <3>1
  <2> QED BY <2>2 DEF Resembles, r
<1> QED BY <1>2, <1>3

\* The images after each pointer that increase_size sets.
FillRun(run, im, ino, places, taken) ==
  /\ run[0] = im
  /\ \A k \in 1 .. Len(places) :
       run[k] = SetPointer(run[k - 1], ino, places[k], DataAreaStart + LowestFree(taken[k - 1]))

\* They exist, and FillPointers is the last of them.
LEMMA FillRuns ==
  ASSUME NEW im \in Images, NEW ino \in DOMAIN im.inode, NEW places \in Seq(AllPlaces), NEW taken,
         \A k \in 1 .. Len(places) : LowestFree(taken[k - 1]) \in DataBits
  PROVE  \E run : /\ FillPointers(im, ino, places, taken) = run[Len(places)]
                  /\ FillRun(run, im, ino, places, taken)
<1> DEFINE n == Len(places)
           T == {x \in Images : DOMAIN x.inode = DOMAIN im.inode}
           Id(k) == DataAreaStart + LowestFree(taken[k - 1])
           step == [k \in 1 .. n |-> [x \in T |-> SetPointer(x, ino, places[k], Id(k))]]
           IsRun(f) == f = [i \in 0 .. n |-> IF i = 0 THEN im
                              ELSE SetPointer(f[i - 1], ino, places[i],
                                              DataAreaStart + LowestFree(taken[i - 1]))]
<1>1. n \in Nat /\ im \in T /\ \A k \in 1 .. n : places[k] \in AllPlaces
  OBVIOUS
<1>2. \A k \in 1 .. n : Id(k) \in BlockIds
  BY Layout
<1> HIDE DEF Id
<1>3. \A k \in 1 .. n : \A x \in T : SetPointer(x, ino, places[k], Id(k)) \in T
  BY <1>1, <1>2, SetPointerTotal DEF Resembles
<1>4. step \in [1 .. n -> [T -> T]]
  <2> HIDE DEF T, n
  <2> QED BY <1>3
<1>5. PICK f : Rounds(f, T, im, n, step)
  <2> HIDE DEF step, T, n
  <2> QED BY <1>1, <1>4, Iterates, Zenon
<1>6. f \in [0 .. n -> T] /\ f[0] = im /\ \A k \in 1 .. n : f[k] = SetPointer(f[k - 1], ino, places[k], Id(k))
  <2>1. f \in [0 .. n -> T] /\ f[0] = im /\ \A k \in 1 .. n : f[k] = step[k][f[k - 1]]
    BY <1>5 DEF Rounds
  <2> HIDE DEF T, n
  <2>2. \A k \in 1 .. n : k - 1 \in 0 .. n /\ f[k - 1] \in T
    BY <1>1, <2>1
  <2> QED BY <2>1, <2>2
<1>7. IsRun(f)
  <2> HIDE DEF n
  <2>1. \A i \in 0 .. n : i = 0 \/ i \in 1 .. n
    BY <1>1
  <2>2. \A i \in 0 .. n : f[i] = IF i = 0 THEN im
                            ELSE SetPointer(f[i - 1], ino, places[i],
                                            DataAreaStart + LowestFree(taken[i - 1]))
    BY <1>6, <2>1 DEF Id
  <2>3. f = [i \in 0 .. n |-> f[i]]
    BY <1>6
  <2> QED BY <2>2, <2>3
<1>8. PICK run : run = (CHOOSE g : IsRun(g)) /\ FillPointers(im, ino, places, taken) = run[n]
  BY DEF FillPointers
<1>9. IsRun(run)
  BY <1>7, <1>8
<1>10. FillRun(run, im, ino, places, taken)
  <2> HIDE DEF n
  <2>1. 0 \in 0 .. n /\ \A k \in 1 .. n : k \in 0 .. n /\ k # 0
    BY <1>1
  <2>2. run[0] = im /\ \A k \in 1 .. n :
          run[k] = SetPointer(run[k - 1], ino, places[k], DataAreaStart + LowestFree(taken[k - 1]))
    BY <1>9, <2>1
  <2> QED BY <2>2 DEF FillRun, n
<1> QED BY <1>8, <1>10

\* Between an image, a later one and one later still: what was kept twice is kept.
LEMMA KeptTwice ==
  ASSUME NEW im, NEW r, NEW r2, NEW P, NEW Q, Kept(im, r, P), Kept(r, r2, Q),
         DOMAIN r.inode = DOMAIN im.inode, \A i \in DOMAIN im.inode : P[i] \subseteq Q[i]
  PROVE  Kept(im, r2, P)
<1>1. ASSUME NEW i \in DOMAIN im.inode, NEW p \in P[i]
      PROVE  /\ Ptr(r2, i, p) = Ptr(im, i, p)
             /\ (\E k \in Nat : p = DataPlace(k)) =>
                  \A c : Cell(r2, Ptr(im, i, p), c) = Cell(im, Ptr(im, i, p), c)
  <2>1. p \in Q[i] /\ i \in DOMAIN r.inode
    OBVIOUS
  <2>2. /\ Ptr(r, i, p) = Ptr(im, i, p)
        /\ (\E k \in Nat : p = DataPlace(k)) =>
             \A c : Cell(r, Ptr(im, i, p), c) = Cell(im, Ptr(im, i, p), c)
    BY DEF Kept
  <2>3. /\ Ptr(r2, i, p) = Ptr(r, i, p)
        /\ (\E k \in Nat : p = DataPlace(k)) =>
             \A c : Cell(r2, Ptr(r, i, p), c) = Cell(r, Ptr(r, i, p), c)
    BY <2>1 DEF Kept
  <2> QED BY <2>2, <2>3
<1> QED BY <1>1 DEF Kept

\* Nothing is kept less than everything.
LEMMA KeptSelf ==
  ASSUME NEW im, NEW P
  PROVE  Kept(im, im, P)
BY DEF Kept

\* Block b is an index block of an inode, pointed to from a place of S.
Indexes(im, i, S, b) == \E p \in S : Ptr(im, i, p) = b /\ \A k \in Nat : p # DataPlace(k)

\* r shows what im shows but in index blocks of an inode.
OnlyIndexes(im, r, i, S) == \A b, c : Cell(r, b, c) = Cell(im, b, c) \/ Indexes(r, i, S, b)

\* A pointer set writes an index block of the inode, if any block.
LEMMA OnlyIndexesStep ==
  ASSUME NEW im, NEW x \in Images, NEW ino \in DOMAIN x.inode, NEW p \in AllPlaces, NEW id \in BlockIds,
         NEW S, NEW T, Inner(p) => Holder(p) \in S, S \subseteq T,
         OnlyIndexes(im, x, ino, S),
         \A q \in S : Ptr(SetPointer(x, ino, p, id), ino, q) = Ptr(x, ino, q)
  PROVE  OnlyIndexes(im, SetPointer(x, ino, p, id), ino, T)
<1> DEFINE y == SetPointer(x, ino, p, id)
<1>1. \A b, c : Cell(y, b, c) = Cell(x, b, c) \/ (Inner(p) /\ b = Ptr(x, ino, Holder(p)))
  <2>1. CASE ~Inner(p)
    <3> DEFINE w == WithField(x.inode[ino], p, id)
    <3>1. x.inode[ino] \in InodeRecords
      BY ImageParts
    <3>2. w \in InodeRecords
      BY <2>1, <3>1, FieldDoes
    <3>3. y = WithInode(x, ino, w)
      BY <2>1, SetPointerIs
    <3> HIDE DEF w, y
    <3>4. InodeChanged(y, x, ino, w)
      <4>1. InodeChanged(WithInode(x, ino, w), x, ino, w)
        BY <3>2, InodeChanges
      <4> QED BY <3>3, <4>1
    <3> QED BY <3>4 DEF InodeChanged, Cell
  <2>2. CASE Inner(p)
    <3> DEFINE h == PointerAt(x, x.inode[ino], Holder(p))
               c == Position(p)
    <3>1. y = Poke(x, h, c, id)
      BY <2>2, SetPointerIs
    <3>2. id \in Nat
      BY Layout
    <3> HIDE DEF h, c, y
    <3>3. \A b, k : b # h => Cell(y, b, k) = Cell(x, b, k)
      <4>1. \A b, k : b # h \/ k # c => Cell(Poke(x, h, c, id), b, k) = Cell(x, b, k)
        BY <3>2, PokeDoes
      <4> QED BY <3>1, <4>1
    <3> QED BY <2>2, <3>3 DEF h, Ptr
  <2> QED BY <2>1, <2>2
<1> HIDE DEF y
<1>2. \A b : Indexes(x, ino, S, b) => Indexes(y, ino, T, b)
  BY DEF Indexes, y
<1>3. Inner(p) => Indexes(y, ino, T, Ptr(x, ino, Holder(p)))
  BY HolderFacts DEF Indexes, y
<1>4. OnlyIndexes(im, y, ino, T)
  BY <1>1, <1>2, <1>3 DEF OnlyIndexes
<1> QED BY <1>4 DEF y

\* Why setting pointers panicked: the device is too short, or the inode too small.
FillFault(r, bits, places) ==
  \/ r.fault = "device" /\ \E d \in bits : DataAreaStart + d \notin OnDevice
  \/ r.fault = "index" /\ \E i \in 1 .. Len(places) : Inner(places[i]) /\ Position(places[i]) \notin Cells

\* r is im with pointers set, so that Q and bits are right; or the code panicked.
PointersFilled(r, im, ino, P, Q, bits, places) ==
  /\ Resembles(r, im, ino)
  /\ r.fault = "none" => Good(r, Q, bits) /\ Kept(im, r, P) /\ OnlyIndexes(im, r, ino, Q[ino])
  /\ r.fault # "none" => FillFault(r, bits, places)

\* The pointers that increase_size sets, to blocks newly taken, one after another.
LEMMA FillPointersDoes ==
  ASSUME NEW im \in Images, im.fault = "none", NEW ino \in DOMAIN im.inode,
         NEW bits \in SUBSET DataBits, NEW P, Good(im, P, bits),
         NEW places \in Seq(AllPlaces), NEW taken, TakenRight(taken, bits, Len(places)),
         \A k \in 1 .. Len(places) : taken[k - 1] # DataBits,
         \A i, j \in 1 .. Len(places) : places[i] = places[j] => i = j,
         \A i \in 1 .. Len(places) : places[i] \notin P[ino],
         \A i \in 1 .. Len(places) : Inner(places[i]) =>
           Holder(places[i]) \in P[ino] \/ \E j \in 1 .. i - 1 : places[j] = Holder(places[i])
  PROVE  PointersFilled(FillPointers(im, ino, places, taken), im, ino, P,
                        With(P, ino, {places[i] : i \in 1 .. Len(places)}), taken[Len(places)], places)
<1> DEFINE n == Len(places)
           Now(k) == With(P, ino, {places[i] : i \in 1 .. k})
           id(k) == DataAreaStart + LowestFree(taken[k - 1])
<1>1. n \in Nat /\ \A k \in 1 .. n : places[k] \in AllPlaces
  OBVIOUS
<1>2. /\ \A k \in 0 .. n : taken[k] \in SUBSET DataBits /\ taken[k] \subseteq taken[n]
      /\ taken[0] = bits
      /\ \A k \in 1 .. n : taken[k] = taken[k - 1] \cup {LowestFree(taken[k - 1])}
  <2>1. \A k \in 0 .. n : taken[k] \subseteq taken[n]
    BY <1>1, TakenGrows
  <2> QED BY <2>1 DEF TakenRight
<1>3. \A k \in 1 .. n : k - 1 \in 0 .. n /\ LowestFree(taken[k - 1]) \in DataBits
                        /\ LowestFree(taken[k - 1]) \notin taken[k - 1]
  <2>1. \A k \in 1 .. n : k - 1 \in 0 .. n
    BY <1>1
  <2> QED BY <1>2, <2>1, LowestFreeIs
<1>4. PICK run : FillPointers(im, ino, places, taken) = run[n] /\ FillRun(run, im, ino, places, taken)
  BY <1>3, FillRuns
<1>5. run[0] = im /\ \A k \in 1 .. n : run[k] = SetPointer(run[k - 1], ino, places[k], id(k))
  BY <1>4 DEF FillRun
<1>6. P \in [DOMAIN im.inode -> SUBSET AllPlaces]
  BY DEF Good
<1>7. \A k \in 0 .. n :
        /\ Now(k) \in [DOMAIN im.inode -> SUBSET AllPlaces]
        /\ Now(k)[ino] = P[ino] \cup {places[i] : i \in 1 .. k}
        /\ \A i \in DOMAIN im.inode : P[i] \subseteq Now(k)[i]
        /\ \A i \in DOMAIN im.inode : i # ino => Now(k)[i] = P[i]
  <2> SUFFICES ASSUME NEW k \in 0 .. n
               PROVE  /\ Now(k) \in [DOMAIN im.inode -> SUBSET AllPlaces]
                      /\ Now(k)[ino] = P[ino] \cup {places[i] : i \in 1 .. k}
                      /\ \A i \in DOMAIN im.inode : P[i] \subseteq Now(k)[i]
                      /\ \A i \in DOMAIN im.inode : i # ino => Now(k)[i] = P[i]
    OBVIOUS
  <2>1. {places[i] : i \in 1 .. k} \subseteq AllPlaces
    BY <1>1
  <2> HIDE DEF n
  <2> QED BY <1>6, <2>1 DEF With
<1>8. Now(0) = P
  <2>1. {places[i] : i \in 1 .. 0} = {}
    OBVIOUS
  <2> QED BY <1>6, <2>1 DEF With
<1>9. \A k \in 1 .. n : With(Now(k - 1), ino, {places[k]}) = Now(k)
  <2> SUFFICES ASSUME NEW k \in 1 .. n PROVE With(Now(k - 1), ino, {places[k]}) = Now(k)
    OBVIOUS
  <2>1. {places[i] : i \in 1 .. k} = {places[i] : i \in 1 .. k - 1} \cup {places[k]}
    <3>1. \A i : i \in 1 .. k <=> i \in 1 .. k - 1 \/ i = k
      BY <1>1
    <3> QED BY <3>1
  <2> QED BY <1>6, <2>1 DEF With
<1> DEFINE Filled(k) ==
      /\ Resembles(run[k], im, ino)
      /\ run[k].fault = "none" =>
           Good(run[k], Now(k), taken[k]) /\ Kept(im, run[k], P) /\ OnlyIndexes(im, run[k], ino, Now(k)[ino])
      /\ run[k].fault # "none" => FillFault(run[k], taken[n], places)
           S == {k \in 0 .. n : Filled(k)}
<1>10. 0 \in S
  <2>1. Resembles(im, im, ino)
    BY DEF Resembles
  <2>2. Filled(0)
    <3>1. OnlyIndexes(im, im, ino, P[ino])
      BY DEF OnlyIndexes
    <3> HIDE DEF Now
    <3> QED BY <1>2, <1>5, <1>8, <2>1, <3>1, KeptSelf
  <2> HIDE DEF Filled
  <2> QED BY <1>1, <2>2
<1>11. ASSUME NEW k \in 1 .. n, k - 1 \in S PROVE k \in S
  <2> DEFINE x == run[k - 1]
             y == run[k]
             p == places[k]
             d == LowestFree(taken[k - 1])
  <2>1. Filled(k - 1) /\ k - 1 \in 0 .. n /\ k \in 0 .. n
    BY <1>11, <1>1
  <2>2. /\ x \in Images /\ DOMAIN x.inode = DOMAIN im.inode /\ p \in AllPlaces
        /\ d \in DataBits /\ d \notin taken[k - 1] /\ id(k) \in BlockIds
        /\ y = SetPointer(x, ino, p, DataAreaStart + d)
        /\ Resembles(x, im, ino)
    <3>1. Resembles(x, im, ino)
      BY <2>1
    <3> QED BY <1>1, <1>3, <1>5, <3>1, Layout DEF Resembles
  <2>3. Resembles(y, x, ino) /\ (x.fault # "none" => y.fault = x.fault)
    BY <2>2, SetPointerTotal
  <2>4. Resembles(y, im, ino)
    <3> HIDE DEF x, y
    <3> QED BY <2>2, <2>3 DEF Resembles
  <2>5. CASE x.fault # "none"
    <3>1. FillFault(x, taken[n], places) /\ y.fault = x.fault
      BY <2>1, <2>3, <2>5
    <3>2. FillFault(y, taken[n], places) /\ y.fault # "none"
      <4> HIDE DEF x, y
      <4> QED BY <2>5, <3>1 DEF FillFault
    <3>3. Filled(k)
      BY <2>4, <3>2
    <3> HIDE DEF Filled
    <3> QED BY <2>1, <3>3
  <2>6. CASE x.fault = "none"
    <3> DEFINE Q == Now(k - 1)
    <3>1. Good(x, Q, taken[k - 1]) /\ Kept(im, x, P) /\ OnlyIndexes(im, x, ino, Q[ino])
      BY <2>1, <2>6
    <3>2. /\ Q[ino] = P[ino] \cup {places[i] : i \in 1 .. k - 1}
          /\ \A i \in DOMAIN im.inode : P[i] \subseteq Q[i]
          /\ With(Q, ino, {p}) = Now(k)
          /\ Q[ino] \subseteq Now(k)[ino]
      <4>1. /\ Q[ino] = P[ino] \cup {places[i] : i \in 1 .. k - 1}
            /\ Now(k)[ino] = P[ino] \cup {places[i] : i \in 1 .. k}
            /\ \A i \in DOMAIN im.inode : P[i] \subseteq Q[i]
        BY <1>7, <2>1
      <4>2. With(Q, ino, {p}) = Now(k)
        BY <1>9
      <4>3. \A i \in 1 .. k - 1 : i \in 1 .. k
        BY <1>1
      <4> HIDE DEF Q, Now
      <4> QED BY <4>1, <4>2, <4>3
    <3>3. p \notin Q[ino]
      <4>1. \A i \in 1 .. k - 1 : i \in 1 .. n /\ i # k
        BY <1>1
      <4>2. \A i \in 1 .. k - 1 : places[i] # p
        BY <4>1
      <4> HIDE DEF Q, p
      <4> QED BY <3>2, <4>2 DEF p
    <3>4. Inner(p) => Holder(p) \in Q[ino]
      <4> HIDE DEF Q
      <4> QED BY <3>2
    <3>5. taken[k - 1] \in SUBSET DataBits /\ taken[k - 1] \subseteq taken[n] /\ taken[k] = taken[k - 1] \cup {d}
      BY <1>2, <2>1
    <3> HIDE DEF Q, p, d, x, y, Now
    <3>6. /\ y.fault = "none" => Good(y, With(Q, ino, {p}), taken[k - 1] \cup {d}) /\ Kept(x, y, Q)
          /\ y.fault # "none" =>
                 /\ Inner(p)
                 /\ \/ y.fault = "device" /\ Ptr(x, ino, Holder(p)) \notin OnDevice
                    \/ y.fault = "index" /\ Position(p) \notin Cells
      <4>1. PointerSet(SetPointer(x, ino, p, DataAreaStart + d), x, ino, p, Q, taken[k - 1] \cup {d})
        BY <2>2, <2>6, <3>1, <3>3, <3>4, <3>5, SetPointerDoes
      <4> QED BY <2>2, <4>1 DEF PointerSet
    <3>7. ASSUME y.fault = "none" PROVE Good(y, Now(k), taken[k]) /\ Kept(im, y, P) /\ OnlyIndexes(im, y, ino, Now(k)[ino])
      <4>1. Kept(im, y, P)
        BY <2>2, <3>1, <3>2, <3>6, <3>7, KeptTwice
      <4>2. \A q \in Q[ino] : Ptr(y, ino, q) = Ptr(x, ino, q)
        BY <2>2, <3>6, <3>7 DEF Kept
      <4>3. OnlyIndexes(im, SetPointer(x, ino, p, DataAreaStart + d), ino, Now(k)[ino])
        BY <2>2, <3>1, <3>2, <3>4, <4>2, OnlyIndexesStep, Layout
      <4> QED BY <2>2, <3>2, <3>5, <3>6, <3>7, <4>1, <4>3
    <3>8. ASSUME y.fault # "none" PROVE FillFault(y, taken[n], places)
      <4>1. CASE y.fault = "device" /\ Ptr(x, ino, Holder(p)) \notin OnDevice
        <5>1. /\ Ptr(x, ino, Holder(p)) \in Int
              /\ Ptr(x, ino, Holder(p)) - DataAreaStart \in taken[k - 1]
          BY <2>2, <3>1, <3>4, <3>6, <3>8 DEF Good
        <5>2. DataAreaStart + (Ptr(x, ino, Holder(p)) - DataAreaStart) = Ptr(x, ino, Holder(p))
          BY <5>1, Layout
        <5> QED BY <3>5, <4>1, <5>1, <5>2 DEF FillFault
      <4>2. CASE y.fault = "index" /\ Position(p) \notin Cells
        BY <3>6, <3>8, <4>2 DEF FillFault, p
      <4> QED BY <3>6, <3>8, <4>1, <4>2
    <3>9. Filled(k)
      BY <2>4, <3>7, <3>8 DEF y
    <3> HIDE DEF Filled
    <3> QED BY <2>1, <3>9
  <2> QED BY <2>5, <2>6
<1>12. n \in S
  <2>1. S \in SUBSET (0 .. n) /\ n \in 0 .. n
    BY <1>1
  <2> HIDE DEF S
  <2> QED BY <1>1, <1>10, <1>11, <2>1, AllRounds
<1>13. Filled(n)
  BY <1>12
<1> HIDE DEF n
<1> QED BY <1>4, <1>13 DEF n, PointersFilled

----------------------------------------------------------------------------
\* The size of a file.

\* An inode holds the pointers that come with its data blocks.
Held(im) == [i \in DOMAIN im.inode |-> PlaceSet(DataBlocks(im.inode[i].size))]

\* The file system between two operations: the pointers of every inode are right, and
\* the data bitmap is what they point to.
Right(im) ==
  /\ im \in Images /\ im.fault = "none" /\ DOMAIN im.inode = im.inode_bitmap
  /\ Good(im, Held(im), im.data_bitmap)

\* Why increase_size panicked: no block is left, one that was handed out is not on
\* the device, or the file outgrows the pointers of an inode.
GrowFault(r, ino) ==
  \/ r.fault = "alloc" /\ r.data_bitmap = DataBits
  \/ r.fault = "device" /\ \E d \in r.data_bitmap : DataAreaStart + d \notin OnDevice
  \/ r.fault = "index" /\ DataBlocks(r.inode[ino].size) > Indirect1Bound + BlockSize * BlockSize

\* Cells change in index blocks of an inode only.
ShowsGrown(im, r, ino) == OnlyIndexes(im, r, ino, Held(r)[ino])

\* r is im with a file grown to a size; or the code panicked.
Grown(r, im, ino, size) ==
  /\ r \in Images /\ r.inode_bitmap = im.inode_bitmap /\ DOMAIN r.inode = DOMAIN im.inode
  /\ \A i \in DOMAIN im.inode : i # ino => r.inode[i] = im.inode[i]
  /\ r.inode[ino].size \in {im.inode[ino].size, size}
  /\ r.fault = "none" =>
       Right(r) /\ r.inode[ino].size = size /\ Kept(im, r, Held(im)) /\ ShowsGrown(im, r, ino)
  /\ r.fault # "none" => GrowFault(r, ino)

\* Only the places of the second level's index can lie beyond a block.
LEMMA PositionFits ==
  ASSUME NEW p \in AllPlaces, Inner(p), Position(p) \notin Cells
  PROVE  Born(p) >= Indirect1Bound + BlockSize * BlockSize
<1>0. /\ DirectCount \in Nat /\ Indirect1Bound \in Nat /\ Indirect1Bound = DirectCount + BlockSize
      /\ BlockSize \in Nat /\ BlockSize > 0 /\ Cells = 0 .. BlockSize - 1
  BY Sizes
<1>1. CASE p.at \in Nat /\ p = IndexPlace(p.at)
  <2> DEFINE j == p.at
  <2>1. Position(p) = j /\ Born(p) = Indirect1Bound + j * BlockSize /\ j \in Nat
    BY <1>1, PlaceFacts, Zenon
  <2>2. BlockSize - 1 < j
    BY <1>0, <2>1
  <2>3. (BlockSize - 1) * BlockSize + BlockSize <= j * BlockSize
    BY <1>0, <2>1, <2>2, WholeBlocks
  <2>4. (BlockSize - 1) * BlockSize + BlockSize = BlockSize * BlockSize
    BY <1>0
  <2> HIDE DEF j
  <2>5. j * BlockSize \in Int /\ BlockSize * BlockSize \in Int
    BY <1>0, <2>1
  <2> QED BY <1>0, <2>1, <2>3, <2>4, <2>5
<1>2. CASE p.at \in Nat /\ p = DataPlace(p.at)
  <2> DEFINE k == p.at
  <2>1. k \in Nat /\ k >= DirectCount
        /\ (k < Indirect1Bound => Position(p) = k - DirectCount)
        /\ (k >= Indirect1Bound => Position(p) = (k - Indirect1Bound) % BlockSize)
    BY <1>2, PlaceFacts
  <2>2. k >= Indirect1Bound => k - Indirect1Bound \in Nat
    BY <1>0, <2>1
  <2>3. k >= Indirect1Bound => Position(p) \in Cells
    BY <2>1, <2>2, BlockAndPosition
  <2>4. k < Indirect1Bound => Position(p) \in Cells
    BY <1>0, <2>1
  <2> QED BY <1>0, <2>1, <2>3, <2>4
<1>3. p # Ind1 /\ p # Ind2
  BY PlaceFacts
<1> QED BY <1>1, <1>2, <1>3, PlaceKinds

\* increase_size of a file's inode: to a smaller size it does nothing; else the file
\* has the size and the blocks for it, or the code panics for a reason.
LEMMA IncreaseSizeDoes ==
  ASSUME NEW im, Right(im), NEW ino \in DOMAIN im.inode, NEW size \in Nat
  PROVE  /\ size < im.inode[ino].size => IncreaseSize(im, ino, size) = im
         /\ size >= im.inode[ino].size => Grown(IncreaseSize(im, ino, size), im, ino, size)
<1> DEFINE inode == im.inode[ino]
           old == inode.size
           from == DataBlocks(old)
           to == DataBlocks(size)
           needed == TotalBlocks(size) - TotalBlocks(old)
           taken == Taken(im.data_bitmap, needed)
           places == Places(from, to)
           sized == [inode EXCEPT !.size = size]
           resized == WithInode(im, ino, sized)
           allocated == [resized EXCEPT !.data_bitmap = taken[needed]]
           full == [im EXCEPT !.data_bitmap = DataBits]
           r == IncreaseSize(im, ino, size)
<1>0. im \in Images /\ im.fault = "none" /\ im.data_bitmap \in SUBSET DataBits
      /\ Good(im, Held(im), im.data_bitmap) /\ inode \in InodeRecords /\ old \in Nat
      /\ DOMAIN im.inode = im.inode_bitmap
  BY ImageParts DEF Right
<1>1. size < old => r = im
  BY DEF IncreaseSize
<1> SUFFICES ASSUME size >= old PROVE Grown(r, im, ino, size)
  BY <1>0, <1>1
<1>2. from \in Nat /\ to \in Nat /\ from <= to
  BY <1>0, DataBlocksOf
<1>3. Lists(places, from, to)
  BY <1>2, PlacesLists
<1>4. needed = Len(places) /\ needed \in Nat /\ places \in Seq(AllPlaces)
  <2>1. TotalBlocks(size) = BlocksUpTo(to) /\ TotalBlocks(old) = BlocksUpTo(from)
    BY <1>0, TotalBlocksIs
  <2>2. Len(places) = BlocksUpTo(to) - BlocksUpTo(from) /\ places \in Seq(AllPlaces)
    BY <1>3 DEF Lists
  <2>3. Len(places) \in Nat
    BY <2>2
  <2> QED BY <2>1, <2>2, <2>3
<1>5. TakenRight(taken, im.data_bitmap, needed)
  BY <1>0, <1>4, TakenIs
<1>6. r = IF \E i \in 0 .. needed - 1 : taken[i] = DataBits THEN Fault(full, "alloc")
          ELSE IF Len(places) > needed THEN Fault(im, "assert")
          ELSE FillPointers(allocated, ino, places, taken)
  <2>1. ~(size < old)
    BY <1>0
  <2> QED BY <2>1 DEF IncreaseSize
<1>7. ~(Len(places) > needed)
  BY <1>4
<1> HIDE DEF r, taken, places, needed, from, to
<1>8. CASE \E i \in 0 .. needed - 1 : taken[i] = DataBits
  <2>1. r = Fault(full, "alloc")
    BY <1>6, <1>8
  <2>2. /\ full \in Images /\ full.fault = "none" /\ full.inode_bitmap = im.inode_bitmap
        /\ full.data_bitmap = DataBits /\ full.inode = im.inode
    BY <1>0 DEF Images
  <2> HIDE DEF full
  <2>3. /\ r \in Images /\ r.fault = "alloc" /\ r.inode_bitmap = im.inode_bitmap
        /\ r.data_bitmap = DataBits /\ r.inode = im.inode
    BY <2>1, <2>2, FaultDoes
  <2> QED BY <2>3 DEF Grown, GrowFault
<1>9. CASE ~(\E i \in 0 .. needed - 1 : taken[i] = DataBits)
  <2>1. r = FillPointers(allocated, ino, places, taken)
    BY <1>6, <1>7, <1>9
  <2>2. sized \in InodeRecords /\ sized.size = size /\ \A p : Field(sized, p) = Field(inode, p)
    BY <1>0 DEF InodeRecords, Field
  <2> HIDE DEF sized
  <2>3. InodeChanged(resized, im, ino, sized)
    BY <1>0, <2>2, InodeChanges
  <2> HIDE DEF resized
  <2>4. taken[needed] \in SUBSET DataBits /\ taken[0] = im.data_bitmap
    BY <1>4, <1>5 DEF TakenRight
  <2>5. /\ allocated \in Images /\ allocated.fault = "none"
        /\ allocated.inode_bitmap = im.inode_bitmap /\ allocated.data_bitmap = taken[needed]
        /\ allocated.inode = resized.inode /\ allocated.block = im.block
    <3>1. /\ resized \in Images /\ resized.fault = "none" /\ resized.inode_bitmap = im.inode_bitmap
          /\ resized.block = im.block
      BY <1>0, <2>3 DEF InodeChanged
    <3>2. /\ allocated \in Images /\ allocated.fault = resized.fault
          /\ allocated.inode_bitmap = resized.inode_bitmap /\ allocated.data_bitmap = taken[needed]
          /\ allocated.inode = resized.inode /\ allocated.block = resized.block
      BY <2>4, <3>1 DEF Images
    <3> QED BY <3>1, <3>2
  <2> HIDE DEF allocated
  <2>6. /\ DOMAIN allocated.inode = DOMAIN im.inode /\ allocated.inode[ino] = sized
        /\ \A i \in DOMAIN im.inode : i # ino => allocated.inode[i] = im.inode[i]
    BY <2>3, <2>5 DEF InodeChanged
  <2> DEFINE P == Held(im)
  <2>7. /\ P \in [DOMAIN im.inode -> SUBSET AllPlaces]
        /\ \A i \in DOMAIN im.inode : \A p \in P[i] : Inner(p) => Holder(p) \in P[i]
    BY <1>0 DEF Good
  <2>8. P[ino] = PlaceSet(from)
    BY DEF Held, from
  <2> HIDE DEF P
  <2>9. \A b, c : Cell(allocated, b, c) = Cell(im, b, c)
    BY <2>5 DEF Cell
  <2>10. ASSUME NEW i \in DOMAIN im.inode
         PROVE  \A p \in P[i] : Ptr(allocated, i, p) = Ptr(im, i, p)
    <3>1. \A p \in P[i] : Field(allocated.inode[i], p) = Field(im.inode[i], p)
      BY <2>2, <2>6
    <3>2. \A p \in P[i] : PointerAt(allocated, allocated.inode[i], p) = PointerAt(im, im.inode[i], p)
      BY <2>7, <2>9, <3>1, SamePointers
    <3> QED BY <3>2 DEF Ptr
  <2>11. Good(allocated, P, im.data_bitmap)
    <3>1. Good(im, P, im.data_bitmap)
      BY <1>0 DEF P
    <3>2. \A i \in DOMAIN im.inode : \A k \in 0 .. DirectCount - 1 :
            Field(allocated.inode[i], DataPlace(k)) = Field(im.inode[i], DataPlace(k))
      BY <2>2, <2>6
    <3> QED BY <2>6, <2>7, <2>10, <3>1, <3>2 DEF Good
  <2>12. Kept(im, allocated, P)
    BY <2>9, <2>10 DEF Kept
  <2>13. \A k \in 1 .. Len(places) : taken[k - 1] # DataBits
    <3>1. \A k \in 1 .. Len(places) : k - 1 \in 0 .. needed - 1
      BY <1>4
    <3> QED BY <1>9, <3>1
  <2>14. /\ \A i, j \in 1 .. Len(places) : places[i] = places[j] => i = j
         /\ \A i \in 1 .. Len(places) : places[i] \in AllPlaces
         /\ \A i \in 1 .. Len(places) : from <= Born(places[i]) /\ Born(places[i]) < to
         /\ \A i \in 1 .. Len(places) : Inner(places[i]) =>
              Born(Holder(places[i])) < from \/ \E j \in 1 .. i - 1 : places[j] = Holder(places[i])
         /\ \A p \in AllPlaces : from <= Born(p) /\ Born(p) < to => \E i \in 1 .. Len(places) : places[i] = p
    <3>1. \A i \in 1 .. Len(places) : places[i] \in AllPlaces
      BY <1>4
    <3> QED BY <1>3, <3>1 DEF Lists
  <2>15. \A i \in 1 .. Len(places) : places[i] \notin P[ino]
    <3>1. \A p \in AllPlaces : Born(p) \in Nat
      BY HolderFacts
    <3> QED BY <1>2, <2>8, <2>14, <3>1 DEF PlaceSet
  <2>16. \A i \in 1 .. Len(places) : Inner(places[i]) =>
           Holder(places[i]) \in P[ino] \/ \E j \in 1 .. i - 1 : places[j] = Holder(places[i])
    <3>1. \A i \in 1 .. Len(places) : Inner(places[i]) => Holder(places[i]) \in AllPlaces
      BY <2>14, HolderFacts
    <3> QED BY <2>8, <2>14, <3>1 DEF PlaceSet
  <2> DEFINE Q == With(P, ino, {places[i] : i \in 1 .. Len(places)})
  <2>17. /\ Resembles(r, allocated, ino)
         /\ r.fault = "none" =>
              Good(r, Q, taken[Len(places)]) /\ Kept(allocated, r, P) /\ OnlyIndexes(allocated, r, ino, Q[ino])
         /\ r.fault # "none" => FillFault(r, taken[Len(places)], places)
    <3>1. TakenRight(taken, im.data_bitmap, Len(places)) /\ ino \in DOMAIN allocated.inode
      BY <1>4, <1>5, <2>6
    <3>2. PointersFilled(FillPointers(allocated, ino, places, taken), allocated, ino, P, Q,
                         taken[Len(places)], places)
      <4> HIDE DEF old, inode
      <4> QED BY <1>0, <1>4, <2>5, <2>11, <2>13, <2>14, <2>15, <2>16, <3>1, FillPointersDoes
    <3> HIDE DEF Q
    <3> QED BY <2>1, <3>2 DEF PointersFilled
  <2>18. /\ r \in Images /\ r.inode_bitmap = im.inode_bitmap /\ DOMAIN r.inode = DOMAIN im.inode
         /\ \A i \in DOMAIN im.inode : i # ino => r.inode[i] = im.inode[i]
         /\ r.inode[ino].size = size /\ r.data_bitmap = taken[needed]
    BY <2>2, <2>5, <2>6, <2>17 DEF Resembles
  <2>19. ASSUME r.fault = "none" PROVE Right(r) /\ Kept(im, r, Held(im)) /\ ShowsGrown(im, r, ino)
    <3>1. Q = Held(r)
      <4>1. Q \in [DOMAIN im.inode -> SUBSET AllPlaces] /\ Q[ino] = P[ino] \cup {places[i] : i \in 1 .. Len(places)}
            /\ \A i \in DOMAIN im.inode : i # ino => Q[i] = P[i]
        <5>1. {places[i] : i \in 1 .. Len(places)} \subseteq AllPlaces
          BY <2>14
        <5> QED BY <2>7, <5>1 DEF With
      <4>2. PlaceSet(to) = PlaceSet(from) \cup {places[i] : i \in 1 .. Len(places)}
        <5>1. \A p \in AllPlaces : Born(p) \in Nat
          BY HolderFacts
        <5>2. ASSUME NEW p \in PlaceSet(to) PROVE p \in PlaceSet(from) \cup {places[i] : i \in 1 .. Len(places)}
          BY <1>2, <2>14, <5>1 DEF PlaceSet
        <5>3. \A p \in PlaceSet(from) : p \in PlaceSet(to)
          BY <1>2, <5>1 DEF PlaceSet
        <5>4. \A i \in 1 .. Len(places) : places[i] \in PlaceSet(to)
          BY <2>14 DEF PlaceSet
        <5> QED BY <5>2, <5>3, <5>4
      <4>3. \A i \in DOMAIN im.inode : i # ino => P[i] = PlaceSet(DataBlocks(r.inode[i].size))
        BY <2>18 DEF P, Held
      <4>4. Q[ino] = PlaceSet(DataBlocks(r.inode[ino].size))
        BY <2>8, <2>18, <4>1, <4>2 DEF to
      <4>5. \A i \in DOMAIN im.inode : Q[i] = PlaceSet(DataBlocks(r.inode[i].size))
        BY <4>1, <4>3, <4>4
      <4> HIDE DEF Q
      <4>6. Q = [i \in DOMAIN im.inode |-> Q[i]]
        BY <4>1
      <4> QED BY <2>18, <4>5, <4>6 DEF Held
    <3>2. Good(r, Held(r), r.data_bitmap)
      BY <1>4, <2>17, <2>18, <2>19, <3>1
    <3>3. Kept(im, r, P)
      BY <2>6, <2>12, <2>17, <2>19, KeptTwice
    <3>4. ShowsGrown(im, r, ino)
      <4> HIDE DEF Q
      <4> QED BY <2>9, <2>17, <2>19, <3>1 DEF ShowsGrown, OnlyIndexes
    <3> QED BY <1>0, <2>18, <2>19, <3>2, <3>3, <3>4 DEF Right, P
  <2>20. ASSUME r.fault # "none" PROVE GrowFault(r, ino)
    <3>1. FillFault(r, taken[needed], places)
      BY <1>4, <2>17, <2>20
    <3>2. CASE r.fault = "device" /\ \E d \in taken[needed] : DataAreaStart + d \notin OnDevice
      BY <2>18, <3>2 DEF GrowFault
    <3>3. CASE r.fault = "index" /\ \E i \in 1 .. Len(places) : Inner(places[i]) /\ Position(places[i]) \notin Cells
      <4>1. PICK i \in 1 .. Len(places) : Inner(places[i]) /\ Position(places[i]) \notin Cells
        BY <3>3
      <4>2. Born(places[i]) >= Indirect1Bound + BlockSize * BlockSize /\ Born(places[i]) < to
        BY <2>14, <4>1, PositionFits
      <4>3. Born(places[i]) \in Nat
        BY <2>14, HolderFacts
      <4>4. Indirect1Bound + BlockSize * BlockSize \in Int
        BY Sizes
      <4>5. to > Indirect1Bound + BlockSize * BlockSize
        BY <1>2, <4>2, <4>3, <4>4
      <4> QED BY <2>18, <3>3, <4>5 DEF GrowFault, to
    <3> QED BY <3>1, <3>2, <3>3 DEF FillFault
  <2> QED BY <2>18, <2>19, <2>20 DEF Grown
<1> QED BY <1>8, <1>9

----------------------------------------------------------------------------
\* Writing cells.

\* A data pointer is what get_block_id finds.
LEMMA DataPointerIs ==
  ASSUME NEW im, NEW i, NEW k \in Nat
  PROVE  Ptr(im, i, DataPlace(k)) = GetBlockId(im, im.inode[i], k)
BY KindsOf DEF PointerAt, Ptr

\* A pointer is a number, whatever the image; the magic number is not on the device.
LEMMA PointersAreNumbers ==
  ASSUME NEW im \in Images, NEW i \in DOMAIN im.inode
  PROVE  \A p \in AllPlaces : Ptr(im, i, p) \in Int
<1> SUFFICES ASSUME NEW p \in AllPlaces PROVE Ptr(im, i, p) \in Int
  OBVIOUS
<1>1. CASE Inner(p)
  BY <1>1, PointerIs, CellIs DEF Ptr
<1>2. CASE ~Inner(p)
  <2>1. im.inode[i] \in InodeRecords /\ 0 \in BlockIds /\ BlockIds \subseteq Int
    BY ImageParts, Layout
  <2>2. Field(im.inode[i], p) \in BlockIds
    BY <1>2, <2>1, FieldDoes
  <2> QED BY <1>2, <2>1, <2>2, PointerIs DEF Ptr
<1> QED BY <1>1, <1>2

\* r is im with n cells written, or one of their blocks is not on the device.
Poked(r, im, n, ids, cs, vals) ==
  /\ r \in Images /\ r.inode_bitmap = im.inode_bitmap /\ r.data_bitmap = im.data_bitmap
  /\ r.inode = im.inode
  /\ r.fault = "none" =>
       /\ \A k \in 1 .. n : Cell(r, ids[k], cs[k]) = vals[k]
       /\ \A b, c : (\A k \in 1 .. n : b # ids[k] \/ c # cs[k]) => Cell(r, b, c) = Cell(im, b, c)
  /\ r.fault # "none" => r.fault = "device" /\ \E k \in 1 .. n : ids[k] \notin OnDevice

\* Cells written one after another, each once.
LEMMA PokesDo ==
  ASSUME NEW im \in Images, im.fault = "none", NEW n \in Nat,
         NEW ids, NEW cs \in [1 .. n -> Cells], NEW vals \in [1 .. n -> Nat],
         \A i, j \in 1 .. n : ids[i] = ids[j] /\ cs[i] = cs[j] => i = j,
         NEW run, run[0] = im,
         \A k \in 1 .. n : run[k] = Poke(run[k - 1], ids[k], cs[k], vals[k])
  PROVE  Poked(run[n], im, n, ids, cs, vals)
<1> DEFINE S == {k \in 0 .. n : Poked(run[k], im, k, ids, cs, vals)}
<1>1. 0 \in S
  <2>1. \A k : ~(k \in 1 .. 0)
    OBVIOUS
  <2> QED BY <2>1 DEF Poked
<1>2. ASSUME NEW k \in 1 .. n, k - 1 \in S PROVE k \in S
  <2> DEFINE x == run[k - 1]
             y == run[k]
  <2>1. Poked(x, im, k - 1, ids, cs, vals) /\ k \in 0 .. n
    BY <1>2
  <2>2. y = Poke(x, ids[k], cs[k], vals[k]) /\ cs[k] \in Cells /\ vals[k] \in Nat
    OBVIOUS
  <2>3. /\ \A i : i \in 1 .. k <=> i \in 1 .. k - 1 \/ i = k
        /\ \A i \in 1 .. k - 1 : i \in 1 .. n /\ i # k
    OBVIOUS
  <2> HIDE DEF x, y
  <2>4. x \in Images
    BY <2>1 DEF Poked
  <2>5. /\ y \in Images /\ y.inode_bitmap = x.inode_bitmap /\ y.data_bitmap = x.data_bitmap
        /\ y.inode = x.inode
        /\ ids[k] \in OnDevice => y.fault = x.fault /\ Cell(y, ids[k], cs[k]) = vals[k]
        /\ ids[k] \notin OnDevice => y.fault = IF x.fault = "none" THEN "device" ELSE x.fault
        /\ \A b, c : b # ids[k] \/ c # cs[k] => Cell(y, b, c) = Cell(x, b, c)
    BY <2>2, <2>4, PokeDoes
  <2>6. ASSUME y.fault = "none"
        PROVE  /\ \A i \in 1 .. k : Cell(y, ids[i], cs[i]) = vals[i]
               /\ \A b, c : (\A i \in 1 .. k : b # ids[i] \/ c # cs[i]) => Cell(y, b, c) = Cell(im, b, c)
    <3>1. ids[k] \in OnDevice /\ x.fault = "none"
      BY <2>5, <2>6
    <3>2. \A i \in 1 .. k - 1 : ids[i] # ids[k] \/ cs[i] # cs[k]
      BY <2>3
    <3>3. \A i \in 1 .. k - 1 : Cell(y, ids[i], cs[i]) = vals[i]
      BY <2>1, <2>5, <3>1, <3>2 DEF Poked
    <3>4. \A b, c : (\A i \in 1 .. k - 1 : b # ids[i] \/ c # cs[i]) => Cell(x, b, c) = Cell(im, b, c)
      BY <2>1, <3>1 DEF Poked
    <3> QED BY <2>3, <2>5, <3>1, <3>3, <3>4
  <2>7. ASSUME y.fault # "none" PROVE y.fault = "device" /\ \E i \in 1 .. k : ids[i] \notin OnDevice
    <3>1. CASE x.fault = "none"
      BY <2>3, <2>5, <2>7, <3>1
    <3>2. CASE x.fault # "none"
      <4>1. x.fault = "device" /\ \E i \in 1 .. k - 1 : ids[i] \notin OnDevice
        BY <2>1, <3>2 DEF Poked
      <4> QED BY <2>3, <2>5, <3>2, <4>1
    <3> QED BY <3>1, <3>2
  <2>8. /\ y.inode_bitmap = im.inode_bitmap /\ y.data_bitmap = im.data_bitmap
        /\ y.inode = im.inode
    BY <2>1, <2>5 DEF Poked
  <2>9. Poked(y, im, k, ids, cs, vals)
    BY <2>5, <2>6, <2>7, <2>8 DEF Poked
  <2> QED BY <2>1, <2>9 DEF y
<1>3. n \in S
  <2>1. S \in SUBSET (0 .. n) /\ n \in 0 .. n
    OBVIOUS
  <2> HIDE DEF S
  <2> QED BY <1>1, <1>2, <2>1, AllRounds
<1> QED BY <1>3

\* The images after each cell that write_at writes.
WriteRun(run, im, ino, offset, buf) ==
  /\ run[0] = im
  /\ \A k \in 1 .. Len(buf) :
       run[k] = Poke(run[k - 1], GetBlockId(im, im.inode[ino], (offset + k - 1) \div BlockSize),
                     (offset + k - 1) % BlockSize, buf[k])

\* They exist, and WriteAt is the last of them.
LEMMA WriteRuns ==
  ASSUME NEW im \in Images, NEW ino \in DOMAIN im.inode, NEW offset \in Nat,
         NEW buf \in Seq(Nat), Len(buf) > 0
  PROVE  \E run : /\ WriteAt(im, ino, offset, buf) = run[Len(buf)]
                  /\ WriteRun(run, im, ino, offset, buf)
<1> DEFINE n == Len(buf)
           Id(o) == GetBlockId(im, im.inode[ino], o \div BlockSize)
           step == [k \in 1 .. n |-> [x \in Images |->
                      Poke(x, Id(offset + k - 1), (offset + k - 1) % BlockSize, buf[k])]]
           IsRun(f) == f = [i \in 0 .. n |-> IF i = 0 THEN im
                              ELSE Poke(f[i - 1], Id(offset + i - 1), (offset + i - 1) % BlockSize, buf[i])]
<1>1. n \in Nat /\ \A k \in 1 .. n : buf[k] \in Nat
  OBVIOUS
<1> HIDE DEF Id
<1>2. \A k \in 1 .. n : \A x \in Images :
        Poke(x, Id(offset + k - 1), (offset + k - 1) % BlockSize, buf[k]) \in Images
  BY <1>1, PokeDoes
<1>3. step \in [1 .. n -> [Images -> Images]]
  <2> HIDE DEF n
  <2> QED BY <1>2
<1>4. PICK f : Rounds(f, Images, im, n, step)
  <2> HIDE DEF step, n
  <2> QED BY <1>1, <1>3, Iterates, Zenon
<1>5. /\ f \in [0 .. n -> Images] /\ f[0] = im
      /\ \A k \in 1 .. n : f[k] = Poke(f[k - 1], Id(offset + k - 1), (offset + k - 1) % BlockSize, buf[k])
  <2>1. f \in [0 .. n -> Images] /\ f[0] = im /\ \A k \in 1 .. n : f[k] = step[k][f[k - 1]]
    BY <1>4 DEF Rounds
  <2> HIDE DEF n
  <2>2. \A k \in 1 .. n : k - 1 \in 0 .. n /\ f[k - 1] \in Images
    BY <1>1, <2>1
  <2> QED BY <2>1, <2>2
<1>6. IsRun(f)
  <2> HIDE DEF n
  <2>1. \A i \in 0 .. n : i = 0 \/ i \in 1 .. n
    BY <1>1
  <2>2. \A i \in 0 .. n : f[i] = IF i = 0 THEN im
                            ELSE Poke(f[i - 1], Id(offset + i - 1), (offset + i - 1) % BlockSize, buf[i])
    BY <1>5, <2>1
  <2>3. f = [i \in 0 .. n |-> f[i]]
    BY <1>5
  <2> QED BY <2>2, <2>3
<1>7. PICK run : run = (CHOOSE g : IsRun(g)) /\ WriteAt(im, ino, offset, buf) = run[n]
  BY DEF WriteAt, Id
<1>8. IsRun(run)
  BY <1>6, <1>7
<1>9. WriteRun(run, im, ino, offset, buf)
  <2> HIDE DEF n
  <2>1. 0 \in 0 .. n /\ \A k \in 1 .. n : k \in 0 .. n /\ k # 0
    BY <1>1
  <2>2. run[0] = im /\ \A k \in 1 .. n :
          run[k] = Poke(run[k - 1], Id(offset + k - 1), (offset + k - 1) % BlockSize, buf[k])
    BY <1>8, <2>1
  <2> QED BY <2>2 DEF WriteRun, n, Id
<1> QED BY <1>7, <1>9

----------------------------------------------------------------------------
\* Writing bytes.

\* The byte of a file at an offset.
Byte(im, i, o) == Cell(im, Ptr(im, i, DataPlace(o \div BlockSize)), o % BlockSize)

\* A block that was handed out is not on the device.
Short(im) == \E d \in im.data_bitmap : DataAreaStart + d \notin OnDevice

\* A write of nothing at the end of full blocks, of which the inode holds no next one.
Dangling(im, ino, offset) ==
  LET size == im.inode[ino].size
  IN offset = size /\ size % BlockSize = 0 /\ DataBlocks(size) >= DirectCount

\* What makes an image right depends only on its parts and pointers.
LEMMA RightStays ==
  ASSUME NEW im, Right(im), NEW r \in Images, r.fault = "none",
         r.inode_bitmap = im.inode_bitmap, r.data_bitmap = im.data_bitmap, r.inode = im.inode,
         \A i \in DOMAIN im.inode : \A p \in Held(im)[i] : Ptr(r, i, p) = Ptr(im, i, p)
  PROVE  Right(r)
<1>1. Held(r) = Held(im)
  BY DEF Held
<1>2. Good(im, Held(im), im.data_bitmap) /\ DOMAIN im.inode = im.inode_bitmap
  BY DEF Right
<1> DEFINE P == Held(im)
           bits == im.data_bitmap
<1>3. \A i \in DOMAIN im.inode : \A p \in P[i] : Inner(p) => Holder(p) \in P[i]
  BY <1>2 DEF Good
<1> HIDE DEF P
<1>4. \A i \in DOMAIN im.inode : \A p \in P[i] : Ptr(r, i, p) = Ptr(im, i, p)
  BY DEF P
<1>5. Good(im, P, bits)
  BY <1>2 DEF P
<1>6. Good(r, P, bits)
  BY <1>3, <1>4, <1>5 DEF Good
<1> QED BY <1>1, <1>2, <1>6 DEF Right, P

\* In a right image the block of each byte is one of the inode's, and bytes of two
\* places are two cells.
LEMMA BytesAreApart ==
  ASSUME NEW im, Right(im)
  PROVE  /\ \A i \in DOMAIN im.inode, o \in Nat : o < im.inode[i].size =>
              /\ DataPlace(o \div BlockSize) \in Held(im)[i]
              /\ Ptr(im, i, DataPlace(o \div BlockSize)) - DataAreaStart \in im.data_bitmap
              /\ Ptr(im, i, DataPlace(o \div BlockSize)) \in Int
         /\ \A i, j \in DOMAIN im.inode : \A a, b \in Nat :
              a < im.inode[i].size /\ b < im.inode[j].size
              /\ Ptr(im, i, DataPlace(a \div BlockSize)) = Ptr(im, j, DataPlace(b \div BlockSize))
              /\ a % BlockSize = b % BlockSize => i = j /\ a = b
<1>0. im \in Images /\ Good(im, Held(im), im.data_bitmap) /\ \A i \in DOMAIN im.inode : im.inode[i].size \in Nat
  BY ImageParts DEF Right
<1>1. ASSUME NEW i \in DOMAIN im.inode, NEW o \in Nat, o < im.inode[i].size
      PROVE  /\ DataPlace(o \div BlockSize) \in Held(im)[i]
             /\ Ptr(im, i, DataPlace(o \div BlockSize)) - DataAreaStart \in im.data_bitmap
             /\ Ptr(im, i, DataPlace(o \div BlockSize)) \in Int
  <2>1. o \div BlockSize \in Nat /\ o \div BlockSize < DataBlocks(im.inode[i].size)
    BY <1>0, <1>1, DataBlocksOf, BlockAndPosition
  <2> DEFINE p == DataPlace(o \div BlockSize)
  <2>2. p \in AllPlaces /\ Born(p) = o \div BlockSize
    BY <2>1, KindsOf, PlaceFacts
  <2> HIDE DEF p
  <2>3. p \in Held(im)[i]
    BY <2>1, <2>2 DEF Held, PlaceSet
  <2>4. Ptr(im, i, p) - DataAreaStart \in im.data_bitmap /\ Ptr(im, i, p) \in Int
    BY <1>0, <2>3 DEF Good
  <2> QED BY <2>3, <2>4 DEF p
<1>3. \A i, j \in DOMAIN im.inode : \A p \in Held(im)[i], q \in Held(im)[j] :
        Ptr(im, i, p) = Ptr(im, j, q) => i = j /\ p = q
  BY <1>0 DEF Good
<1>4. \A x, y \in Nat : DataPlace(x) = DataPlace(y) => x = y
  BY KindsOf
<1>2. ASSUME NEW i \in DOMAIN im.inode, NEW j \in DOMAIN im.inode, NEW a \in Nat, NEW b \in Nat,
             a < im.inode[i].size, b < im.inode[j].size,
             Ptr(im, i, DataPlace(a \div BlockSize)) = Ptr(im, j, DataPlace(b \div BlockSize)),
             a % BlockSize = b % BlockSize
      PROVE  i = j /\ a = b
  <2>1. DataPlace(a \div BlockSize) \in Held(im)[i] /\ DataPlace(b \div BlockSize) \in Held(im)[j]
    BY <1>1, <1>2
  <2>2. i = j /\ DataPlace(a \div BlockSize) = DataPlace(b \div BlockSize)
    BY <1>2, <1>3, <2>1, Zenon
  <2>3. /\ a \div BlockSize \in Nat /\ a = (a \div BlockSize) * BlockSize + (a % BlockSize)
        /\ b \div BlockSize \in Nat /\ b = (b \div BlockSize) * BlockSize + (b % BlockSize)
    BY BlockAndPosition
  <2>4. a \div BlockSize = b \div BlockSize
    BY <1>4, <2>2, <2>3, Zenon
  <2>5. a = b
    BY <1>2, <2>3, <2>4, Zenon
  <2> QED BY <2>2, <2>5
<1> QED BY <1>1, <1>2

\* The blocks that the bitmap has bits for, on the device or not.
AreaIds == {DataAreaStart + d : d \in DataBits}

\* The cell of a byte of a file.
FileCell(im, i, b, c) ==
  \E o \in Nat : o < im.inode[i].size /\ b = Ptr(im, i, DataPlace(o \div BlockSize)) /\ c = o % BlockSize

\* A cell of an index block, or of a byte of a file.
Used(im, b, c) ==
  \E i \in DOMAIN im.inode : Indexes(im, i, Held(im)[i], b) \/ FileCell(im, i, b, c)

\* The other cells of the data area, those after the end of a file too, show zero, or
\* nothing where the device ends: what a file grows by is zero.
Zeroed(im) ==
  \A b \in AreaIds : \A c : Cell(im, b, c) \in {0, Bad} \/ Used(im, b, c)

\* Cells stay zero when those that change become zero or used.
LEMMA ZeroedStays ==
  ASSUME NEW im, Zeroed(im), NEW r,
         \A b \in AreaIds : \A c :
           \/ Cell(r, b, c) \in {0, Bad} \/ Used(r, b, c)
           \/ Cell(r, b, c) = Cell(im, b, c) /\ (Used(im, b, c) => Used(r, b, c))
  PROVE  Zeroed(r)
BY DEF Zeroed

\* A pointer of a right image is the id of a block that the bitmap has a bit for.
LEMMA PointersInArea ==
  ASSUME NEW im, Right(im), NEW i \in DOMAIN im.inode, NEW p \in Held(im)[i]
  PROVE  Ptr(im, i, p) \in AreaIds
<1>1. /\ Ptr(im, i, p) \in Int /\ Ptr(im, i, p) - DataAreaStart \in im.data_bitmap
  BY DEF Right, Good
<1>2. im.data_bitmap \subseteq DataBits
  BY ImageParts DEF Right
<1>3. DataAreaStart + (Ptr(im, i, p) - DataAreaStart) = Ptr(im, i, p)
  BY <1>1, Layout
<1> QED BY <1>1, <1>2, <1>3 DEF AreaIds

\* A grown file shows zero where it grew, and what was zero stays zero.
LEMMA GrowZeroed ==
  ASSUME NEW im, Right(im), Zeroed(im), NEW ino \in DOMAIN im.inode, NEW size \in Nat,
         NEW r, Grown(r, im, ino, size), r.fault = "none", im.inode[ino].size <= size
  PROVE  /\ Zeroed(r)
         /\ \A o \in Nat : im.inode[ino].size <= o /\ o < size => Byte(r, ino, o) \in {0, Bad}
<1> DEFINE P == Held(im)
           Q == Held(r)
           I == DOMAIN im.inode
<1>1. /\ Right(r) /\ DOMAIN r.inode = I /\ r.inode[ino].size = size
      /\ \A i \in I : i # ino => r.inode[i] = im.inode[i]
      /\ Kept(im, r, P) /\ OnlyIndexes(im, r, ino, Q[ino])
  BY DEF Grown, ShowsGrown
<1>2. \A i \in I : im.inode[i].size \in Nat /\ r.inode[i].size \in Nat /\ im.inode[i].size <= r.inode[i].size
  <2>1. \A i \in I : im.inode[i].size \in Nat /\ r.inode[i].size \in Nat
    BY <1>1, ImageParts DEF Right
  <2>2. ASSUME NEW i \in I PROVE im.inode[i].size <= r.inode[i].size
    <3>1. CASE i = ino
      BY <1>1, <3>1
    <3>2. CASE i # ino
      <4>1. r.inode[i].size = im.inode[i].size
        BY <1>1, <3>2
      <4> QED BY <2>1, <4>1
    <3> QED BY <3>1, <3>2
  <2> QED BY <2>1, <2>2
<1>3. \A i \in I : P[i] \subseteq Q[i] /\ P[i] \subseteq AllPlaces
  <2> SUFFICES ASSUME NEW i \in I PROVE P[i] \subseteq Q[i] /\ P[i] \subseteq AllPlaces
    OBVIOUS
  <2>1. /\ P[i] = PlaceSet(DataBlocks(im.inode[i].size)) /\ Q[i] = PlaceSet(DataBlocks(r.inode[i].size))
    BY <1>1 DEF Held
  <2>2. /\ DataBlocks(im.inode[i].size) \in Nat /\ DataBlocks(r.inode[i].size) \in Nat
        /\ DataBlocks(im.inode[i].size) <= DataBlocks(r.inode[i].size)
    BY <1>2, DataBlocksOf
  <2>3. \A p \in AllPlaces : Born(p) \in Nat
    BY HolderFacts
  <2> QED BY <2>1, <2>2, <2>3 DEF PlaceSet
<1>4. \A i \in I : \A p \in P[i] : Ptr(r, i, p) = Ptr(im, i, p)
  BY <1>1 DEF Kept
<1>5. \A i \in I, o \in Nat : o < im.inode[i].size =>
        /\ DataPlace(o \div BlockSize) \in P[i] /\ o < r.inode[i].size
        /\ Ptr(r, i, DataPlace(o \div BlockSize)) = Ptr(im, i, DataPlace(o \div BlockSize))
  BY <1>2, <1>4, BytesAreApart
<1> HIDE DEF P, Q
<1>6. \A b, c : Used(im, b, c) => Used(r, b, c)
  <2> SUFFICES ASSUME NEW b, NEW c, Used(im, b, c) PROVE Used(r, b, c)
    OBVIOUS
  <2>1. PICK i \in I : Indexes(im, i, P[i], b) \/ FileCell(im, i, b, c)
    BY DEF Used, P
  <2>2. CASE Indexes(im, i, P[i], b)
    <3>1. Indexes(r, i, Q[i], b)
      BY <1>3, <1>4, <2>2 DEF Indexes
    <3> QED BY <1>1, <3>1 DEF Used, Q
  <2>3. CASE FileCell(im, i, b, c)
    <3>1. FileCell(r, i, b, c)
      BY <1>5, <2>3 DEF FileCell
    <3> QED BY <1>1, <3>1 DEF Used
  <2> QED BY <2>1, <2>2, <2>3
<1>7. Zeroed(r)
  <2>1. \A b, c : Indexes(r, ino, Q[ino], b) => Used(r, b, c)
    BY <1>1 DEF Used, Q
  <2>2. \A b, c : Cell(r, b, c) = Cell(im, b, c) \/ Used(r, b, c)
    BY <1>1, <2>1 DEF OnlyIndexes
  <2> QED BY <1>6, <2>2, ZeroedStays
<1>8. ASSUME NEW o \in Nat, im.inode[ino].size <= o, o < size PROVE Byte(r, ino, o) \in {0, Bad}
  <2> DEFINE p == DataPlace(o \div BlockSize)
             b == Ptr(r, ino, p)
             c == o % BlockSize
  <2>1. p \in Q[ino] /\ b \in AreaIds /\ o \div BlockSize \in Nat
    BY <1>1, <1>8, BytesAreApart, BlockAndPosition, PointersInArea DEF Q
  <2>2. \A i, j \in I : \A q \in Q[i], q2 \in Q[j] : Ptr(r, i, q) = Ptr(r, j, q2) => i = j /\ q = q2
    BY <1>1 DEF Right, Good, Q
  <2>3. \A i \in I : ~Indexes(r, i, Q[i], b)
    BY <2>1, <2>2 DEF Indexes
  <2>4. Cell(r, b, c) = Cell(im, b, c)
    BY <1>1, <2>3 DEF OnlyIndexes
  <2>5. ~Used(im, b, c)
    <3> SUFFICES ASSUME NEW i \in I, Indexes(im, i, P[i], b) \/ FileCell(im, i, b, c) PROVE FALSE
      BY DEF Used, P
    <3>1. CASE Indexes(im, i, P[i], b)
      <4>1. Indexes(r, i, Q[i], b)
        <5> HIDE DEF b
        <5> QED BY <1>3, <1>4, <3>1 DEF Indexes
      <4> QED BY <2>3, <4>1
    <3>2. CASE FileCell(im, i, b, c)
      <4>1. PICK a \in Nat : a < im.inode[i].size /\ b = Ptr(im, i, DataPlace(a \div BlockSize)) /\ c = a % BlockSize
        BY <3>2 DEF FileCell
      <4>2. a < r.inode[i].size /\ Ptr(r, i, DataPlace(a \div BlockSize)) = b
        BY <1>5, <4>1
      <4>3. i = ino /\ a = o
        BY <1>1, <1>8, <4>1, <4>2, BytesAreApart
      <4> QED BY <1>2, <1>8, <4>1, <4>3
    <3> QED BY <3>1, <3>2
  <2>6. Cell(im, b, c) \in {0, Bad}
    <3> HIDE DEF b, c
    <3> QED BY <2>1, <2>5 DEF Zeroed
  <2> QED BY <2>4, <2>6 DEF Byte
<1> QED BY <1>7, <1>8

InRange(o, offset, buf) == offset <= o /\ o < offset + Len(buf)

\* Cells change in the bytes of a file only, and no pointer changes.
ShowsWritten(im, r, ino) ==
  /\ \A i \in DOMAIN im.inode : \A p \in Held(im)[i] : Ptr(r, i, p) = Ptr(im, i, p)
  /\ \A b, c : Cell(r, b, c) = Cell(im, b, c) \/ FileCell(im, ino, b, c)

\* r is im with bytes written in one file; or the code panicked.
Written(r, im, ino, offset, buf) ==
  /\ r \in Images /\ r.inode_bitmap = im.inode_bitmap /\ r.data_bitmap = im.data_bitmap
  /\ r.inode = im.inode
  /\ r.fault = "none" =>
       /\ Right(r)
       /\ \A i \in DOMAIN im.inode, o \in Nat : o < im.inode[i].size =>
            Byte(r, i, o) = IF i = ino /\ InRange(o, offset, buf) THEN buf[o - offset + 1] ELSE Byte(im, i, o)
       /\ ShowsWritten(im, r, ino)
  /\ r.fault # "none" =>
       \/ r.fault = "device" /\ Short(r)
       \/ r.fault = "dangling" /\ Len(buf) = 0 /\ Dangling(r, ino, offset)

\* write_at, when the file has the size for it.
LEMMA WriteAtDoes ==
  ASSUME NEW im, Right(im), NEW ino \in DOMAIN im.inode, NEW offset \in Nat,
         NEW buf \in Seq(Nat), offset + Len(buf) <= im.inode[ino].size
  PROVE  Written(WriteAt(im, ino, offset, buf), im, ino, offset, buf)
<1> DEFINE n == Len(buf)
           size == im.inode[ino].size
           r == WriteAt(im, ino, offset, buf)
<1>0. /\ im \in Images /\ im.fault = "none" /\ n \in Nat /\ size \in Nat
      /\ DataAreaStart \in Nat /\ im.data_bitmap \in SUBSET Nat
      /\ \A k \in 1 .. n : buf[k] \in Nat
  <2>1. im \in Images /\ im.fault = "none"
    BY DEF Right
  <2>2. size \in Nat /\ im.data_bitmap \in SUBSET DataBits
    BY <2>1, ImageParts
  <2>3. DataAreaStart \in Nat /\ DataBits \subseteq Nat
    BY Layout
  <2> HIDE DEF size
  <2>4. n \in Nat /\ \A k \in 1 .. n : buf[k] \in Nat
    OBVIOUS
  <2> QED BY <2>1, <2>2, <2>3, <2>4
<1>1. CASE n > 0
  <2> DEFINE Off(k) == offset + k - 1
             ids == [k \in 1 .. n |-> Ptr(im, ino, DataPlace(Off(k) \div BlockSize))]
             cs == [k \in 1 .. n |-> Off(k) % BlockSize]
  <2>1. PICK run : r = run[n] /\ WriteRun(run, im, ino, offset, buf)
    BY <1>0, <1>1, WriteRuns
  <2>2. \A k \in 1 .. n : Off(k) \in Nat /\ Off(k) < size
    BY <1>0
  <2>3. \A k \in 1 .. n : Off(k) \div BlockSize \in Nat /\ Off(k) % BlockSize \in Cells
    BY <2>2, BlockAndPosition
  <2>4. \A k \in 1 .. n : /\ ids[k] = GetBlockId(im, im.inode[ino], Off(k) \div BlockSize)
                          /\ ids[k] = Ptr(im, ino, DataPlace(Off(k) \div BlockSize))
                          /\ cs[k] = Off(k) % BlockSize
    BY <2>3, DataPointerIs
  <2>5. cs \in [1 .. n -> Cells] /\ DOMAIN cs = 1 .. n
    BY <2>3
  <2>6. buf \in [1 .. n -> Nat]
    BY <1>0
  <2>7. \A k \in 1 .. n : Off(k) = offset + k - 1
    OBVIOUS
  <2> HIDE DEF ids, cs, r, Off
  <2>8. \A i, j \in 1 .. n : ids[i] = ids[j] /\ cs[i] = cs[j] => i = j
    <3> SUFFICES ASSUME NEW i \in 1 .. n, NEW j \in 1 .. n, ids[i] = ids[j], cs[i] = cs[j] PROVE i = j
      OBVIOUS
    <3>1. Off(i) = Off(j)
      BY <2>2, <2>4, BytesAreApart
    <3>2. Off(i) = offset + i - 1 /\ Off(j) = offset + j - 1
      BY <2>7
    <3>3. offset + i - 1 = offset + j - 1
      BY <3>1, <3>2, Zenon
    <3>4. i \in Int /\ j \in Int /\ offset \in Int
      OBVIOUS
    <3> QED BY ONLY <3>3, <3>4
  <2>9. run[0] = im /\ \A k \in 1 .. n : run[k] = Poke(run[k - 1], ids[k], cs[k], buf[k])
    <3>1. run[0] = im /\ \A k \in 1 .. n : run[k] = Poke(run[k - 1], GetBlockId(im, im.inode[ino], Off(k) \div BlockSize),
                     Off(k) % BlockSize, buf[k])
      BY <2>1, <2>7 DEF WriteRun
    <3> QED BY <2>4, <3>1
  <2>10. Poked(r, im, n, ids, cs, buf)
    <3>1. Poked(run[n], im, n, ids, cs, buf)
      <4> HIDE DEF n
      <4> QED BY <1>0, <2>5, <2>6, <2>8, <2>9, PokesDo
    <3> QED BY <2>1, <3>1
  <2>11. ASSUME r.fault = "none"
         PROVE  /\ Right(r)
                /\ \A i \in DOMAIN im.inode, o \in Nat : o < im.inode[i].size =>
                     Byte(r, i, o) = IF i = ino /\ InRange(o, offset, buf) THEN buf[o - offset + 1] ELSE Byte(im, i, o)
                /\ ShowsWritten(im, r, ino)
    <3>1. /\ \A k \in 1 .. n : Cell(r, ids[k], cs[k]) = buf[k]
          /\ \A b, c : (\A k \in 1 .. n : b # ids[k] \/ c # cs[k]) => Cell(r, b, c) = Cell(im, b, c)
          /\ r \in Images /\ r.inode = im.inode /\ r.inode_bitmap = im.inode_bitmap
          /\ r.data_bitmap = im.data_bitmap
      BY <2>10, <2>11 DEF Poked
    <3>2. /\ Good(im, Held(im), im.data_bitmap)
          /\ \A k \in 1 .. n : DataPlace(Off(k) \div BlockSize) \in Held(im)[ino]
      BY <2>2, BytesAreApart DEF Right
    <3>3. ASSUME NEW i \in DOMAIN im.inode
          PROVE  \A p \in Held(im)[i] : Ptr(r, i, p) = Ptr(im, i, p)
      <4> DEFINE S == Held(im)[i]
      <4>1. S \in SUBSET AllPlaces /\ \A p \in S : Inner(p) => Holder(p) \in S
        BY <3>2 DEF Good
      <4>2. \A p \in S, k \in 1 .. n : Inner(p) => Ptr(im, i, Holder(p)) # ids[k]
        <5> SUFFICES ASSUME NEW p \in S, NEW k \in 1 .. n, Inner(p), Ptr(im, i, Holder(p)) = ids[k] PROVE FALSE
          OBVIOUS
        <5>1. Holder(p) = DataPlace(Off(k) \div BlockSize)
          <6>1. \A j \in DOMAIN im.inode : \A a \in S, b \in Held(im)[j] :
                  Ptr(im, i, a) = Ptr(im, j, b) => a = b
            BY <3>2 DEF Good
          <6>2. Holder(p) \in S
            BY <4>1
          <6> QED BY <2>4, <3>2, <6>1, <6>2, Zenon
        <5> QED BY <2>3, <4>1, <5>1, HolderFacts
      <4>3. \A p \in S : Inner(p) => Cell(r, PointerAt(im, im.inode[i], Holder(p)), Position(p))
                                       = Cell(im, PointerAt(im, im.inode[i], Holder(p)), Position(p))
        BY <3>1, <4>2 DEF Ptr
      <4> HIDE DEF S
      <4>4. \A p \in S : PointerAt(r, im.inode[i], p) = PointerAt(im, im.inode[i], p)
        BY <4>1, <4>3, SamePointers
      <4> QED BY <3>1, <4>4 DEF S, Ptr
    <3>4. Right(r)
      BY <2>11, <3>1, <3>3, RightStays
    <3>5. ASSUME NEW i \in DOMAIN im.inode, NEW o \in Nat, o < im.inode[i].size
          PROVE  Byte(r, i, o) = IF i = ino /\ InRange(o, offset, buf) THEN buf[o - offset + 1] ELSE Byte(im, i, o)
      <4> DEFINE b == Ptr(im, i, DataPlace(o \div BlockSize))
      <4>1. Byte(r, i, o) = Cell(r, b, o % BlockSize) /\ Byte(im, i, o) = Cell(im, b, o % BlockSize)
        BY <3>3, <3>5, BytesAreApart DEF Byte
      <4>2. CASE i = ino /\ InRange(o, offset, buf)
        <5> DEFINE k == o - offset + 1
        <5>1. k \in 1 .. n /\ Off(k) = o
          BY <1>0, <2>7, <4>2 DEF InRange
        <5>2. ids[k] = b /\ cs[k] = o % BlockSize
          BY <2>4, <4>2, <5>1
        <5> HIDE DEF k, b
        <5> QED BY <3>1, <4>1, <4>2, <5>1, <5>2 DEF k
      <4>3. CASE ~(i = ino /\ InRange(o, offset, buf))
        <5>1. \A k \in 1 .. n : b # ids[k] \/ o % BlockSize # cs[k]
          <6> SUFFICES ASSUME NEW k \in 1 .. n, b = ids[k], o % BlockSize = cs[k] PROVE FALSE
            OBVIOUS
          <6>1. i = ino /\ o = Off(k)
            BY <2>2, <2>4, <3>5, BytesAreApart
          <6>2. InRange(o, offset, buf)
            BY <1>0, <2>7, <6>1 DEF InRange
          <6> QED BY <4>3, <6>1, <6>2
        <5> HIDE DEF b
        <5> QED BY <3>1, <4>1, <4>3, <5>1
      <4> QED BY <4>2, <4>3
    <3>6. ASSUME NEW b, NEW c, Cell(r, b, c) # Cell(im, b, c) PROVE FileCell(im, ino, b, c)
      <4>1. PICK k \in 1 .. n : b = ids[k] /\ c = cs[k]
        BY <3>1, <3>6
      <4> QED BY <2>2, <2>4, <4>1 DEF FileCell
    <3>7. ShowsWritten(im, r, ino)
      BY <3>3, <3>6 DEF ShowsWritten
    <3> QED BY <3>4, <3>5, <3>7
  <2>12. ASSUME r.fault # "none" PROVE r.fault = "device" /\ Short(r)
    <3>1. r.fault = "device" /\ r.data_bitmap = im.data_bitmap /\ \E k \in 1 .. n : ids[k] \notin OnDevice
      BY <2>10, <2>12 DEF Poked
    <3>2. PICK k \in 1 .. n : ids[k] \notin OnDevice
      BY <3>1
    <3>3. ids[k] - DataAreaStart \in im.data_bitmap /\ ids[k] \in Int
      BY <2>2, <2>4, BytesAreApart
    <3>4. DataAreaStart + (ids[k] - DataAreaStart) = ids[k]
      BY <1>0, <3>3
    <3> QED BY <3>1, <3>2, <3>3, <3>4 DEF Short
  <2>13. r \in Images /\ r.inode_bitmap = im.inode_bitmap /\ r.data_bitmap = im.data_bitmap /\ r.inode = im.inode
    BY <2>10 DEF Poked
  <2> QED BY <2>11, <2>12, <2>13 DEF Written, r
<1>2. CASE n = 0
  <2> DEFINE k == offset \div BlockSize
             id == GetBlockId(im, im.inode[ino], k)
  <2>1. k \in Nat /\ id = Ptr(im, ino, DataPlace(k)) /\ id \in Int
    <3>1. k \in Nat
      BY BlockAndPosition
    <3>2. id = Ptr(im, ino, DataPlace(k)) /\ DataPlace(k) \in AllPlaces
      BY <3>1, DataPointerIs, KindsOf
    <3>3. Ptr(im, ino, DataPlace(k)) \in Int
      BY <1>0, <3>2, PointersAreNumbers
    <3> QED BY <3>1, <3>2, <3>3
  <2>2. DOMAIN im.block = OnDevice
    BY <1>0, ImageParts
  <2>3. r = IF id \in OnDevice THEN im
            ELSE Fault(im, IF id - DataAreaStart \in im.data_bitmap THEN "device" ELSE "dangling")
    BY <1>2, <2>2 DEF WriteAt
  <2>4. \A o \in Nat : ~InRange(o, offset, buf)
    BY <1>2 DEF InRange
  <2> HIDE DEF r, id
  <2>5. CASE id \in OnDevice
    <3>1. ShowsWritten(im, im, ino)
      BY DEF ShowsWritten
    <3> QED BY <1>0, <2>3, <2>4, <2>5, <3>1 DEF Written, r
  <2>6. CASE id \notin OnDevice /\ id - DataAreaStart \in im.data_bitmap
    <3>1. r = Fault(im, "device")
      BY <2>3, <2>6
    <3>2. /\ r \in Images /\ r.inode_bitmap = im.inode_bitmap /\ r.data_bitmap = im.data_bitmap
          /\ r.inode = im.inode /\ r.fault = "device"
      BY <1>0, <3>1, FaultDoes
    <3>3. DataAreaStart + (id - DataAreaStart) = id
      BY <1>0, <2>1
    <3>4. Short(r)
      BY <2>6, <3>2, <3>3 DEF Short
    <3> QED BY <3>2, <3>4 DEF Written, r
  <2>7. CASE id \notin OnDevice /\ id - DataAreaStart \notin im.data_bitmap
    <3>1. r = Fault(im, "dangling")
      BY <2>3, <2>7
    <3>2. /\ r \in Images /\ r.inode_bitmap = im.inode_bitmap /\ r.data_bitmap = im.data_bitmap
          /\ r.inode = im.inode /\ r.fault = "dangling"
      BY <1>0, <3>1, FaultDoes
    <3>3. ~(offset < size)
      BY <2>1, <2>7, BytesAreApart
    <3>4. offset = size
      BY <1>0, <1>2, <3>3
    <3> DEFINE p == DataPlace(k)
    <3>5. p \in AllPlaces /\ Born(p) = k /\ (Inner(p) <=> k >= DirectCount)
      BY <2>1, KindsOf, PlaceFacts
    <3>6. Good(im, Held(im), im.data_bitmap) /\ Held(im)[ino] = PlaceSet(DataBlocks(size))
      BY DEF Right, Held
    <3>7. p \notin Held(im)[ino]
      BY <2>1, <2>7, <3>6 DEF Good
    <3>8. ~(k < DataBlocks(size))
      <4> HIDE DEF p
      <4> QED BY <3>5, <3>6, <3>7 DEF PlaceSet
    <3>9. size % BlockSize = 0 /\ k = DataBlocks(size)
      BY <1>0, <3>4, <3>8, DataBlocksOf
    <3>10. k >= DirectCount
      <4> SUFFICES ASSUME k < DirectCount PROVE FALSE
        BY <2>1, Sizes
      <4>1. k \in 0 .. DirectCount - 1
        BY <2>1, Sizes
      <4>2. Field(im.inode[ino], p) = 0
        BY <3>6, <3>7, <4>1 DEF Good
      <4>3. ~Inner(p)
        BY <2>1, <3>5, Sizes
      <4>4. Ptr(im, ino, p) = 0
        <5> HIDE DEF p
        <5> QED BY <3>5, <4>2, <4>3, PointerIs DEF Ptr
      <4> QED BY <2>1, <2>7, <4>4, Layout
    <3>11. Dangling(r, ino, offset)
      BY <3>2, <3>4, <3>9, <3>10 DEF Dangling
    <3> QED BY <1>2, <3>2, <3>11 DEF Written, r
  <2> QED BY <2>5, <2>6, <2>7 DEF r
<1> QED BY <1>0, <1>1, <1>2

\* What a file grew by is zero but for the bytes written there, and what was zero
\* stays zero.
StoredZeroed(r, im, ino, offset, buf) ==
  /\ Zeroed(r)
  /\ \A o \in Nat : /\ im.inode[ino].size <= o /\ o < r.inode[ino].size
                     /\ ~InRange(o, offset, buf) => Byte(r, ino, o) \in {0, Bad}

\* A write changes cells of the file only.
LEMMA WriteZeroed ==
  ASSUME NEW im, Right(im), Zeroed(im), NEW ino \in DOMAIN im.inode, NEW offset, NEW buf,
         NEW r, Written(r, im, ino, offset, buf), r.fault = "none"
  PROVE  Zeroed(r)
<1>1. /\ r.inode = im.inode
      /\ \A i \in DOMAIN im.inode : \A p \in Held(im)[i] : Ptr(r, i, p) = Ptr(im, i, p)
      /\ \A b, c : Cell(r, b, c) = Cell(im, b, c) \/ FileCell(im, ino, b, c)
  BY DEF Written, ShowsWritten
<1>2. Held(r) = Held(im)
  BY <1>1 DEF Held
<1>3. \A i \in DOMAIN im.inode : \A b, c : FileCell(im, i, b, c) => FileCell(r, i, b, c)
  BY <1>1, BytesAreApart DEF FileCell
<1>4. \A b, c : Used(im, b, c) => Used(r, b, c)
  BY <1>1, <1>2, <1>3 DEF Used, Indexes
<1>5. \A b, c : Cell(r, b, c) = Cell(im, b, c) \/ Used(r, b, c)
  BY <1>1, <1>3 DEF Used
<1> QED BY <1>4, <1>5, ZeroedStays

\* r is im with bytes stored in one file, which grew for them if it had to; or the
\* code panicked.
Stored(r, im, ino, offset, buf) ==
  /\ r \in Images /\ r.inode_bitmap = im.inode_bitmap /\ DOMAIN r.inode = DOMAIN im.inode
  /\ \A i \in DOMAIN im.inode : i # ino => r.inode[i] = im.inode[i]
  /\ r.inode[ino].size \in {im.inode[ino].size, offset + Len(buf)}
  /\ r.fault = "none" =>
       /\ Right(r)
       /\ r.inode[ino].size = IF offset + Len(buf) < im.inode[ino].size THEN im.inode[ino].size
                              ELSE offset + Len(buf)
       /\ \A i \in DOMAIN im.inode, o \in Nat :
            /\ o < im.inode[i].size /\ ~(i = ino /\ InRange(o, offset, buf)) => Byte(r, i, o) = Byte(im, i, o)
            /\ i = ino /\ InRange(o, offset, buf) => Byte(r, i, o) = buf[o - offset + 1]
       /\ Zeroed(im) => StoredZeroed(r, im, ino, offset, buf)
  /\ r.fault # "none" =>
       \/ GrowFault(r, ino)
       \/ r.fault = "dangling" /\ Len(buf) = 0 /\ Dangling(r, ino, offset)

\* What is kept of an image shows the same bytes.
LEMMA KeptBytes ==
  ASSUME NEW im, Right(im), NEW r, Kept(im, r, Held(im))
  PROVE  \A i \in DOMAIN im.inode, o \in Nat : o < im.inode[i].size => Byte(r, i, o) = Byte(im, i, o)
<1> SUFFICES ASSUME NEW i \in DOMAIN im.inode, NEW o \in Nat, o < im.inode[i].size
             PROVE  Byte(r, i, o) = Byte(im, i, o)
  OBVIOUS
<1> DEFINE p == DataPlace(o \div BlockSize)
<1>1. p \in Held(im)[i]
  BY BytesAreApart
<1>2. o \div BlockSize \in Nat
  BY BlockAndPosition
<1>3. \E k \in Nat : p = DataPlace(k)
  BY <1>2
<1> HIDE DEF p
<1>4. Ptr(r, i, p) = Ptr(im, i, p) /\ \A c : Cell(r, Ptr(im, i, p), c) = Cell(im, Ptr(im, i, p), c)
  BY <1>1, <1>3 DEF Kept
<1> QED BY <1>4 DEF Byte, p

\* write_at of vfs.rs: increase_size, then write_at of layout.rs.
LEMMA WriteFileDoes ==
  ASSUME NEW im, Right(im), NEW ino \in DOMAIN im.inode, NEW offset \in Nat, NEW buf \in Seq(Nat)
  PROVE  Stored(WriteFile(im, ino, offset, buf), im, ino, offset, buf)
<1> DEFINE end == offset + Len(buf)
           old == im.inode[ino].size
           g == IncreaseSize(im, ino, end)
           r == WriteFile(im, ino, offset, buf)
<1>0. im \in Images /\ im.fault = "none"
  BY DEF Right
<1>1. end \in Nat /\ old \in Nat
  <2>1. Len(buf) \in Nat
    OBVIOUS
  <2> QED BY <1>0, <2>1, ImageParts
<1>2. r = IF g.fault = "none" THEN WriteAt(g, ino, offset, buf) ELSE g
  BY DEF WriteFile
<1> HIDE DEF r, g
<1>3. /\ end < old => g = im
      /\ end >= old => Grown(g, im, ino, end)
  BY <1>1, IncreaseSizeDoes DEF g
<1>4. CASE g.fault # "none"
  <2>1. Grown(g, im, ino, end)
    BY <1>0, <1>1, <1>3, <1>4
  <2> QED BY <1>2, <1>4, <2>1 DEF Stored, Grown, r
<1>5. CASE g.fault = "none"
  <2>1. /\ Right(g) /\ g.inode_bitmap = im.inode_bitmap /\ DOMAIN g.inode = DOMAIN im.inode
        /\ \A i \in DOMAIN im.inode : i # ino => g.inode[i] = im.inode[i]
        /\ g.inode[ino].size = IF end < old THEN old ELSE end
        /\ Kept(im, g, Held(im))
    <3>1. CASE end < old
      BY <1>3, <3>1, KeptSelf
    <3>2. CASE end >= old
      <4>1. Grown(g, im, ino, end)
        BY <1>3, <3>2
      <4>2. ~(end < old)
        BY <1>1, <3>2
      <4> QED BY <1>5, <4>1, <4>2 DEF Grown
    <3> QED BY <1>1, <3>1, <3>2
  <2>2. end <= g.inode[ino].size /\ old <= g.inode[ino].size
    BY <1>1, <2>1
  <2>3. Written(r, g, ino, offset, buf)
    <3>1. r = WriteAt(g, ino, offset, buf)
      BY <1>2, <1>5
    <3> QED BY <2>1, <2>2, <3>1, WriteAtDoes
  <2>4. /\ r \in Images /\ r.inode_bitmap = im.inode_bitmap /\ r.inode = g.inode
        /\ r.data_bitmap = g.data_bitmap
    BY <2>1, <2>3 DEF Written
  <2>5. ASSUME r.fault = "none", NEW i \in DOMAIN im.inode, NEW o \in Nat
        PROVE  /\ o < im.inode[i].size /\ ~(i = ino /\ InRange(o, offset, buf)) => Byte(r, i, o) = Byte(im, i, o)
               /\ i = ino /\ InRange(o, offset, buf) => Byte(r, i, o) = buf[o - offset + 1]
    <3>1. o < g.inode[i].size =>
            Byte(r, i, o) = IF i = ino /\ InRange(o, offset, buf) THEN buf[o - offset + 1] ELSE Byte(g, i, o)
      BY <2>1, <2>3, <2>5 DEF Written
    <3>2. ASSUME o < im.inode[i].size PROVE o < g.inode[i].size /\ Byte(g, i, o) = Byte(im, i, o)
      <4>1. Byte(g, i, o) = Byte(im, i, o)
        BY <2>1, <3>2, KeptBytes
      <4>2. o < g.inode[i].size
        <5>1. CASE i = ino
          BY <1>1, <2>1, <3>2, <5>1
        <5>2. CASE i # ino
          BY <2>1, <3>2, <5>2
        <5> QED BY <5>1, <5>2
      <4> QED BY <4>1, <4>2
    <3>3. ASSUME i = ino, InRange(o, offset, buf) PROVE o < g.inode[i].size
      <4>1. o < end
        BY <3>3 DEF InRange
      <4> HIDE DEF end, old
      <4> QED BY <1>1, <2>1, <3>3, <4>1
    <3> QED BY <3>1, <3>2, <3>3
  <2>6. ASSUME r.fault # "none"
        PROVE  GrowFault(r, ino) \/ (r.fault = "dangling" /\ Len(buf) = 0 /\ Dangling(r, ino, offset))
    BY <2>3, <2>6 DEF Written, GrowFault, Short
  <2>7. r.inode[ino].size \in {old, end}
    BY <2>1, <2>4
  <2>8. r.fault = "none" => Right(r)
    BY <2>3 DEF Written
  <2>9. ASSUME r.fault = "none", Zeroed(im) PROVE StoredZeroed(r, im, ino, offset, buf)
    <3>1. /\ Zeroed(g)
          /\ \A o \in Nat : old <= o /\ o < g.inode[ino].size => Byte(g, ino, o) \in {0, Bad}
      <4>1. CASE end < old
        BY <1>1, <1>3, <2>1, <2>9, <4>1
      <4>2. CASE end >= old
        <5>1. Grown(g, im, ino, end) /\ old <= end /\ g.inode[ino].size = end
          BY <1>1, <1>3, <2>1, <4>2
        <5> HIDE DEF end
        <5> QED BY <1>1, <1>5, <2>9, <5>1, GrowZeroed
      <4> QED BY <1>1, <4>1, <4>2
    <3>2. Zeroed(r)
      BY <2>1, <2>3, <2>9, <3>1, WriteZeroed
    <3>3. \A o \in Nat : o < g.inode[ino].size /\ ~InRange(o, offset, buf) => Byte(r, ino, o) = Byte(g, ino, o)
      BY <2>1, <2>3, <2>9 DEF Written
    <3> HIDE DEF end
    <3> QED BY <2>4, <3>1, <3>2, <3>3 DEF StoredZeroed
  <2> QED BY <2>1, <2>4, <2>5, <2>6, <2>7, <2>8, <2>9 DEF Stored, r
<1> QED BY <1>4, <1>5

----------------------------------------------------------------------------
\* Emptying a file.

\* dealloc_data of a block whose bit is set: the block is zeroed and the bit cleared,
\* or the block is not on the device.
LEMMA DeallocDoes ==
  ASSUME NEW im \in Images, NEW id \in Int, id - DataAreaStart \in im.data_bitmap
  PROVE  /\ DeallocData(im, id) \in Images
         /\ DeallocData(im, id).inode_bitmap = im.inode_bitmap
         /\ DeallocData(im, id).inode = im.inode
         /\ id \in OnDevice =>
              /\ DeallocData(im, id).fault = im.fault
              /\ DeallocData(im, id).data_bitmap = im.data_bitmap \ {id - DataAreaStart}
         /\ id \notin OnDevice =>
              /\ DeallocData(im, id).fault = IF im.fault = "none" THEN "device" ELSE im.fault
              /\ DeallocData(im, id).data_bitmap = im.data_bitmap
         /\ \A x, y : x # id => Cell(DeallocData(im, id), x, y) = Cell(im, x, y)
         /\ id \in OnDevice => \A y : Cell(DeallocData(im, id), id, y) \in {0, Bad}
<1>1. im.block \in [OnDevice -> [Cells -> Nat]] /\ DOMAIN im.block = OnDevice
      /\ im.data_bitmap \in SUBSET DataBits
  BY ImageParts
<1>2. CASE id \notin OnDevice
  <2>1. DeallocData(im, id) = Fault(im, "device")
    BY <1>1, <1>2 DEF DeallocData
  <2>2. \A x, y : Cell(Fault(im, "device"), x, y) = Cell(im, x, y)
    BY FaultDoes DEF Cell
  <2> QED BY <1>2, <2>1, <2>2, FaultDoes
<1>3. CASE id \in OnDevice
  <2> DEFINE f == [im.block EXCEPT ![id] = Zeros]
             bits == im.data_bitmap \ {id - DataAreaStart}
             r == [im EXCEPT !.block = f, !.data_bitmap = bits]
  <2>1. DeallocData(im, id) = r
    BY <1>1, <1>3 DEF DeallocData, Images
  <2>2. /\ f \in [OnDevice -> [Cells -> Nat]] /\ DOMAIN f = OnDevice
        /\ f[id] = Zeros /\ \A x \in OnDevice : x # id => f[x] = im.block[x]
    BY <1>1, <1>3 DEF Zeros
  <2>3. bits \in SUBSET DataBits
    BY <1>1
  <2> HIDE DEF f, bits
  <2>4. /\ r \in Images /\ r.fault = im.fault /\ r.inode_bitmap = im.inode_bitmap
        /\ r.data_bitmap = bits /\ r.inode = im.inode /\ r.block = f
    BY <2>2, <2>3 DEF Images
  <2> HIDE DEF r
  <2>5. ASSUME NEW x, NEW y, x # id PROVE Cell(r, x, y) = Cell(im, x, y)
    BY <1>1, <1>3, <2>2, <2>4, <2>5 DEF Cell
  <2>6. \A y : Cell(r, id, y) \in {0, Bad}
    BY <2>2, <2>4 DEF Cell, Zeros
  <2> QED BY <1>3, <2>1, <2>4, <2>5, <2>6 DEF bits
<1> QED BY <1>2, <1>3

\* r is im with n blocks given back, or one of them is not on the device.
Freed(r, im, n, ids) ==
  /\ r \in Images /\ r.inode_bitmap = im.inode_bitmap /\ r.inode = im.inode
  /\ \A d : d \in r.data_bitmap <=>
       d \in im.data_bitmap /\ \A k \in 1 .. n : ids[k] \in OnDevice => d # ids[k] - DataAreaStart
  /\ \A b, c : (\A k \in 1 .. n : b # ids[k]) => Cell(r, b, c) = Cell(im, b, c)
  /\ \A k \in 1 .. n : ids[k] \in OnDevice => \A c : Cell(r, ids[k], c) \in {0, Bad}
  /\ r.fault = "none" => \A k \in 1 .. n : ids[k] \in OnDevice
  /\ r.fault # "none" => r.fault = "device" /\ \E k \in 1 .. n : ids[k] \notin OnDevice

\* Blocks given back one after another, each once.
LEMMA DeallocsDo ==
  ASSUME NEW im \in Images, im.fault = "none", NEW n \in Nat, NEW ids \in [1 .. n -> Int],
         \A k \in 1 .. n : ids[k] - DataAreaStart \in im.data_bitmap,
         \A i, j \in 1 .. n : ids[i] = ids[j] => i = j,
         NEW run, run[0] = im,
         \A k \in 1 .. n : run[k] = DeallocData(run[k - 1], ids[k])
  PROVE  Freed(run[n], im, n, ids)
<1> DEFINE S == {k \in 0 .. n : Freed(run[k], im, k, ids)}
<1>0. DataAreaStart \in Nat
  BY Layout
<1>1. 0 \in S
  <2>1. \A k : ~(k \in 1 .. 0)
    OBVIOUS
  <2> QED BY <2>1 DEF Freed
<1>2. ASSUME NEW k \in 1 .. n, k - 1 \in S PROVE k \in S
  <2> DEFINE x == run[k - 1]
             y == run[k]
             id == ids[k]
             bit == id - DataAreaStart
  <2>1. Freed(x, im, k - 1, ids) /\ k \in 0 .. n
    BY <1>2
  <2>2. y = DeallocData(x, id) /\ id \in Int /\ bit \in im.data_bitmap
    OBVIOUS
  <2>3. /\ \A i : i \in 1 .. k <=> i \in 1 .. k - 1 \/ i = k
        /\ \A i \in 1 .. k - 1 : i \in 1 .. n /\ i # k
    OBVIOUS
  <2>4. \A i \in 1 .. k - 1 : ids[i] # id /\ ids[i] - DataAreaStart # bit
    <3>1. \A i \in 1 .. k - 1 : ids[i] # id /\ ids[i] \in Int
      BY <2>3
    <3>2. \A a, b \in Int : a # b => a - DataAreaStart # b - DataAreaStart
      BY <1>0
    <3>3. id \in Int
      BY <2>2
    <3> HIDE DEF id
    <3>4. \A i \in 1 .. k - 1 : ids[i] - DataAreaStart # id - DataAreaStart
      BY <3>1, <3>2, <3>3, Zenon
    <3> QED BY <3>1, <3>4, Zenon DEF bit
  <2> HIDE DEF x, y, id, bit
  <2>5. x \in Images /\ bit \in x.data_bitmap
    BY <2>1, <2>2, <2>4 DEF Freed
  <2>6. /\ y \in Images /\ y.inode_bitmap = x.inode_bitmap /\ y.inode = x.inode
        /\ id \in OnDevice => y.fault = x.fault /\ y.data_bitmap = x.data_bitmap \ {bit}
        /\ id \notin OnDevice =>
             /\ y.fault = IF x.fault = "none" THEN "device" ELSE x.fault
             /\ y.data_bitmap = x.data_bitmap
        /\ \A b, c : b # id => Cell(y, b, c) = Cell(x, b, c)
        /\ id \in OnDevice => \A c : Cell(y, id, c) \in {0, Bad}
    <3>1. id - DataAreaStart \in x.data_bitmap
      BY <2>5 DEF bit
    <3> QED BY <2>2, <2>5, <3>1, DeallocDoes DEF bit
  <2>7. \A d : d \in y.data_bitmap <=>
          d \in im.data_bitmap /\ \A i \in 1 .. k : ids[i] \in OnDevice => d # ids[i] - DataAreaStart
    <3>1. \A d : d \in x.data_bitmap <=>
            d \in im.data_bitmap /\ \A i \in 1 .. k - 1 : ids[i] \in OnDevice => d # ids[i] - DataAreaStart
      BY <2>1 DEF Freed
    <3>2. \A d : d \in y.data_bitmap <=> d \in x.data_bitmap /\ (id \in OnDevice => d # bit)
      BY <2>6
    <3>3. id = ids[k] /\ bit = ids[k] - DataAreaStart
      BY DEF id, bit
    <3> QED BY <2>3, <3>1, <3>2, <3>3
  <2>8. \A b, c : (\A i \in 1 .. k : b # ids[i]) => Cell(y, b, c) = Cell(im, b, c)
    BY <2>1, <2>3, <2>6 DEF Freed, id
  <2>9. y.fault = "none" => \A i \in 1 .. k : ids[i] \in OnDevice
    BY <2>1, <2>3, <2>6 DEF Freed, id
  <2>10. y.fault # "none" => y.fault = "device" /\ \E i \in 1 .. k : ids[i] \notin OnDevice
    BY <2>1, <2>3, <2>6 DEF Freed, id
  <2>11. y.inode_bitmap = im.inode_bitmap /\ y.inode = im.inode
    BY <2>1, <2>6 DEF Freed
  <2>13. \A i \in 1 .. k : ids[i] \in OnDevice => \A c : Cell(y, ids[i], c) \in {0, Bad}
    <3>1. \A i \in 1 .. k - 1 : ids[i] \in OnDevice => \A c : Cell(x, ids[i], c) \in {0, Bad}
      BY <2>1 DEF Freed
    <3>2. \A i \in 1 .. k - 1 : \A c : Cell(y, ids[i], c) = Cell(x, ids[i], c)
      BY <2>4, <2>6
    <3> QED BY <2>3, <2>6, <3>1, <3>2 DEF id
  <2>12. Freed(y, im, k, ids)
    BY <2>6, <2>7, <2>8, <2>9, <2>10, <2>11, <2>13 DEF Freed
  <2> QED BY <2>1, <2>12 DEF y
<1>3. n \in S
  <2>1. S \in SUBSET (0 .. n) /\ n \in 0 .. n
    OBVIOUS
  <2> HIDE DEF S
  <2> QED BY <1>1, <1>2, <2>1, AllRounds
<1> QED BY <1>3

\* Whatever the image, dealloc_data leaves an image.
LEMMA DeallocTotal ==
  ASSUME NEW im \in Images, NEW id \in Int
  PROVE  DeallocData(im, id) \in Images
<1>1. CASE id \in OnDevice /\ id - DataAreaStart \notin im.data_bitmap
  <2>1. DeallocData(im, id) = Fault(im, "assert")
    BY <1>1, ImageParts DEF DeallocData
  <2> QED BY <2>1, FaultDoes
<1>2. CASE id \notin OnDevice
  <2>1. DeallocData(im, id) = Fault(im, "device")
    BY <1>2, ImageParts DEF DeallocData
  <2> QED BY <2>1, FaultDoes
<1>3. CASE id - DataAreaStart \in im.data_bitmap
  BY <1>3, DeallocDoes
<1> QED BY <1>1, <1>2, <1>3

\* The images after each block that the deallocations give back.
FreeRun(run, im, ids) ==
  /\ run[0] = im
  /\ \A k \in 1 .. Len(ids) : run[k] = DeallocData(run[k - 1], ids[k])

\* The blocks of an inode.
BlocksOf(im, ino) ==
  LET places == Places(0, DataBlocks(im.inode[ino].size))
  IN [i \in DOMAIN places |-> PointerAt(im, im.inode[ino], places[i])]

\* They exist, and Clear is the last of them.
LEMMA FreeRuns ==
  ASSUME NEW im \in Images, NEW ino \in DOMAIN im.inode,
         BlocksOf(im, ino) \in Seq(Int),
         Len(BlocksOf(im, ino)) = TotalBlocks(im.inode[ino].size),
         WithInode(im, ino, EmptyInode) \in Images
  PROVE  \E run : /\ Clear(im, ino) = run[Len(BlocksOf(im, ino))]
                  /\ FreeRun(run, WithInode(im, ino, EmptyInode), BlocksOf(im, ino))
<1> DEFINE ids == BlocksOf(im, ino)
           n == Len(ids)
           first == WithInode(im, ino, EmptyInode)
           step == [k \in 1 .. n |-> [x \in Images |-> DeallocData(x, ids[k])]]
           IsRun(f) == f = [i \in 0 .. n |-> IF i = 0 THEN first ELSE DeallocData(f[i - 1], ids[i])]
<1>1. n \in Nat /\ \A k \in 1 .. n : ids[k] \in Int
  <2> HIDE DEF ids
  <2> QED BY DEF ids
<1>2. \A k \in 1 .. n : \A x \in Images : DeallocData(x, ids[k]) \in Images
  <2> HIDE DEF ids
  <2> QED BY <1>1, DeallocTotal
<1>3. step \in [1 .. n -> [Images -> Images]]
  <2> HIDE DEF n
  <2> QED BY <1>2
<1>4. PICK f : Rounds(f, Images, first, n, step)
  <2> HIDE DEF step, n, first
  <2>1. first \in Images
    BY DEF first
  <2> QED BY <1>1, <1>3, <2>1, Iterates, Zenon
<1> HIDE DEF first
<1>5. f \in [0 .. n -> Images] /\ f[0] = first /\ \A k \in 1 .. n : f[k] = DeallocData(f[k - 1], ids[k])
  <2>1. f \in [0 .. n -> Images] /\ f[0] = first /\ \A k \in 1 .. n : f[k] = step[k][f[k - 1]]
    BY <1>4 DEF Rounds
  <2> HIDE DEF n, ids
  <2>2. \A k \in 1 .. n : k - 1 \in 0 .. n /\ f[k - 1] \in Images
    BY <1>1, <2>1
  <2> QED BY <2>1, <2>2
<1>6. IsRun(f)
  <2> HIDE DEF n, ids
  <2>1. \A i \in 0 .. n : i = 0 \/ i \in 1 .. n
    BY <1>1
  <2>2. \A i \in 0 .. n : f[i] = IF i = 0 THEN first ELSE DeallocData(f[i - 1], ids[i])
    BY <1>5, <2>1
  <2>3. f = [i \in 0 .. n |-> f[i]]
    BY <1>5
  <2> QED BY <2>2, <2>3
<1>7. PICK run : run = (CHOOSE g : IsRun(g)) /\ Clear(im, ino) = run[n]
  <2>1. Len(ids) = TotalBlocks(im.inode[ino].size)
    OBVIOUS
  <2> QED BY <2>1 DEF Clear, BlocksOf, first
<1>8. IsRun(run)
  BY <1>6, <1>7
<1>9. FreeRun(run, first, ids)
  <2> HIDE DEF n, ids
  <2>1. 0 \in 0 .. n /\ \A k \in 1 .. n : k \in 0 .. n /\ k # 0
    BY <1>1
  <2>2. run[0] = first /\ \A k \in 1 .. n : run[k] = DeallocData(run[k - 1], ids[k])
    BY <1>8, <2>1
  <2> QED BY <2>2 DEF FreeRun, n
<1> QED BY <1>7, <1>9 DEF first

\* r is im with a file emptied; or a block of it is not on the device.
Cleared(r, im, ino) ==
  /\ r \in Images /\ r.inode_bitmap = im.inode_bitmap /\ DOMAIN r.inode = DOMAIN im.inode
  /\ \A i \in DOMAIN im.inode : i # ino => r.inode[i] = im.inode[i]
  /\ r.inode[ino].size = 0
  /\ r.fault = "none" =>
       /\ Right(r)
       /\ \A i \in DOMAIN im.inode \ {ino}, o \in Nat : o < im.inode[i].size => Byte(r, i, o) = Byte(im, i, o)
       /\ Zeroed(im) => Zeroed(r)
  /\ r.fault # "none" => r.fault = "device" /\ Short(r)

\* The empty inode: no data block, and no pointer.
LEMMA EmptyInodeIs ==
  /\ EmptyInode \in InodeRecords /\ EmptyInode.size = 0
  /\ PlaceSet(DataBlocks(0)) = {}
  /\ \A k \in 0 .. DirectCount - 1 : Field(EmptyInode, DataPlace(k)) = 0
<1>1. EmptyInode \in InodeRecords /\ EmptyInode.size = 0
  BY Layout DEF EmptyInode, InodeRecords
<1>2. PlaceSet(DataBlocks(0)) = {}
  BY DataBlocksOf, HolderFacts DEF PlaceSet
<1>3. \A k \in 0 .. DirectCount - 1 : Field(EmptyInode, DataPlace(k)) = 0
  <2>1. \A k \in 0 .. DirectCount - 1 : DataPlace(k).of = "data" /\ DataPlace(k).at = k
    BY KindsOf, Sizes
  <2>2. EmptyInode.direct = [k \in 0 .. DirectCount - 1 |-> 0]
    BY DEF EmptyInode
  <2> QED BY <2>1, <2>2 DEF Field
<1> QED BY <1>1, <1>2, <1>3

\* The blocks of an inode, in the order of their places: all of them, each once.
LEMMA BlocksOfInode ==
  ASSUME NEW im, Right(im), NEW ino \in DOMAIN im.inode
  PROVE  LET ids == BlocksOf(im, ino)
         IN /\ ids \in Seq(Int) /\ Len(ids) = TotalBlocks(im.inode[ino].size)
            /\ ids \in [1 .. Len(ids) -> Int]
            /\ \A k \in 1 .. Len(ids) : \E p \in Held(im)[ino] : ids[k] = Ptr(im, ino, p)
            /\ \A p \in Held(im)[ino] : \E k \in 1 .. Len(ids) : ids[k] = Ptr(im, ino, p)
            /\ \A i, j \in 1 .. Len(ids) : ids[i] = ids[j] => i = j
<1> DEFINE size == im.inode[ino].size
           to == DataBlocks(size)
           places == Places(0, to)
           ids == BlocksOf(im, ino)
<1>0. im \in Images /\ Good(im, Held(im), im.data_bitmap)
  BY DEF Right
<1>1. size \in Nat /\ to \in Nat
  BY <1>0, ImageParts, DataBlocksOf
<1>2. Lists(places, 0, to)
  BY <1>1, PlacesLists
<1>3. Held(im)[ino] = PlaceSet(to)
  BY DEF Held
<1>4. ids = [i \in DOMAIN places |-> Ptr(im, ino, places[i])]
  BY DEF BlocksOf, Ptr
<1> HIDE DEF ids, places, to
<1>5. /\ places \in Seq(AllPlaces) /\ Len(places) \in Nat /\ DOMAIN places = 1 .. Len(places)
      /\ \A i \in 1 .. Len(places) : places[i] \in AllPlaces
  <2>1. places \in Seq(AllPlaces)
    BY <1>2 DEF Lists
  <2> QED BY <2>1
<1>6. /\ \A i \in 1 .. Len(places) : places[i] \in PlaceSet(to)
      /\ \A p \in PlaceSet(to) : \E i \in 1 .. Len(places) : places[i] = p
      /\ \A i, j \in 1 .. Len(places) : places[i] = places[j] => i = j
      /\ Len(places) = BlocksUpTo(to) - BlocksUpTo(0)
  <2>1. \A p \in AllPlaces : Born(p) \in Nat
    BY HolderFacts
  <2> QED BY <1>1, <1>2, <1>5, <2>1 DEF Lists, PlaceSet
<1>7. Len(places) = TotalBlocks(size)
  <2>1. TotalBlocks(size) = BlocksUpTo(to) /\ TotalBlocks(size) \in Nat /\ BlocksUpTo(0) = 0
    BY <1>1, TotalBlocksIs, BlocksUpToSteps DEF to
  <2> QED BY <1>6, <2>1
<1>8. \A i \in 1 .. Len(places) : Ptr(im, ino, places[i]) \in Int
  BY <1>0, <1>5, PointersAreNumbers
<1>9. ids \in Seq(Int) /\ Len(ids) = Len(places)
      /\ \A k \in 1 .. Len(places) : ids[k] = Ptr(im, ino, places[k])
  BY <1>4, <1>5, <1>8
<1>10. \A p, q \in PlaceSet(to) : Ptr(im, ino, p) = Ptr(im, ino, q) => p = q
  BY <1>0, <1>3 DEF Good
<1>11. \A i, j \in 1 .. Len(places) : ids[i] = ids[j] => i = j
  BY <1>6, <1>9, <1>10
<1>12. /\ \A k \in 1 .. Len(places) : \E p \in PlaceSet(to) : ids[k] = Ptr(im, ino, p)
       /\ \A p \in PlaceSet(to) : \E k \in 1 .. Len(places) : ids[k] = Ptr(im, ino, p)
  <2>1. ASSUME NEW p \in PlaceSet(to) PROVE \E k \in 1 .. Len(places) : ids[k] = Ptr(im, ino, p)
    <3>1. PICK k \in 1 .. Len(places) : places[k] = p
      BY <1>6
    <3> QED BY <1>9, <3>1
  <2> QED BY <1>6, <1>9, <2>1
<1>13. ids \in [1 .. Len(ids) -> Int]
  BY <1>9
<1> QED BY <1>3, <1>7, <1>9, <1>11, <1>12, <1>13 DEF ids

\* clear: the file's blocks are given back, all of them; the other files stay.
LEMMA ClearDoes ==
  ASSUME NEW im, Right(im), NEW ino \in DOMAIN im.inode
  PROVE  Cleared(Clear(im, ino), im, ino)
<1> DEFINE I == DOMAIN im.inode
           ids == BlocksOf(im, ino)
           n == Len(ids)
           e == WithInode(im, ino, EmptyInode)
           r == Clear(im, ino)
           P == Held(im)
<1>0. /\ im \in Images /\ im.fault = "none" /\ DOMAIN im.inode = im.inode_bitmap
      /\ Good(im, P, im.data_bitmap) /\ im.data_bitmap \in SUBSET DataBits
      /\ DataAreaStart \in Nat /\ DataBits \subseteq Nat
  BY ImageParts, Layout DEF Right
<1>1. /\ ids \in Seq(Int) /\ Len(ids) = TotalBlocks(im.inode[ino].size)
      /\ ids \in [1 .. n -> Int] /\ n \in Nat
      /\ \A k \in 1 .. n : \E p \in P[ino] : ids[k] = Ptr(im, ino, p)
      /\ \A p \in P[ino] : \E k \in 1 .. n : ids[k] = Ptr(im, ino, p)
      /\ \A i, j \in 1 .. n : ids[i] = ids[j] => i = j
  <2>1. /\ ids \in Seq(Int) /\ Len(ids) = TotalBlocks(im.inode[ino].size)
        /\ ids \in [1 .. n -> Int]
        /\ \A k \in 1 .. n : \E p \in P[ino] : ids[k] = Ptr(im, ino, p)
        /\ \A p \in P[ino] : \E k \in 1 .. n : ids[k] = Ptr(im, ino, p)
        /\ \A i, j \in 1 .. n : ids[i] = ids[j] => i = j
    BY BlocksOfInode, Zenon
  <2> HIDE DEF ids
  <2>2. n \in Nat
    BY <2>1
  <2> HIDE DEF P, n
  <2> QED BY <2>1, <2>2, Zenon
<1>2. InodeChanged(e, im, ino, EmptyInode)
  BY <1>0, EmptyInodeIs, InodeChanges
<1>3. /\ e \in Images /\ e.fault = "none" /\ e.inode_bitmap = im.inode_bitmap
      /\ e.data_bitmap = im.data_bitmap /\ e.block = im.block /\ DOMAIN e.inode = I
      /\ e.inode[ino] = EmptyInode /\ \A j \in I : j # ino => e.inode[j] = im.inode[j]
  <2> HIDE DEF e
  <2> QED BY <1>0, <1>2 DEF InodeChanged
<1>4. PICK run : r = run[n] /\ FreeRun(run, e, ids)
  BY <1>0, <1>1, <1>3, FreeRuns, Zenon
<1> HIDE DEF ids, e, r, P
<1>5. /\ \A i \in I : P[i] \in SUBSET AllPlaces
      /\ \A i \in I : \A p \in P[i] :
           /\ Ptr(im, i, p) \in Int /\ Ptr(im, i, p) - DataAreaStart \in im.data_bitmap
           /\ Inner(p) => /\ Holder(p) \in P[i] /\ Position(p) \in Cells
                          /\ Ptr(im, i, Holder(p)) \in OnDevice
      /\ \A i, j \in I : \A p \in P[i], q \in P[j] : Ptr(im, i, p) = Ptr(im, j, q) => i = j /\ p = q
      /\ \A d \in im.data_bitmap : \E i \in I : \E p \in P[i] : Ptr(im, i, p) = DataAreaStart + d
      /\ \A i \in I : \A k \in 0 .. DirectCount - 1 :
           DataPlace(k) \notin P[i] => Field(im.inode[i], DataPlace(k)) = 0
  BY <1>0 DEF Good
<1>6. Freed(r, e, n, ids)
  <2>1. run[0] = e /\ \A k \in 1 .. n : run[k] = DeallocData(run[k - 1], ids[k])
    BY <1>4 DEF FreeRun
  <2>2. \A k \in 1 .. n : ids[k] - DataAreaStart \in e.data_bitmap
    BY <1>1, <1>3, <1>5
  <2>3. Freed(run[n], e, n, ids)
    <3> HIDE DEF n
    <3> QED BY <1>1, <1>3, <2>1, <2>2, DeallocsDo
  <2> QED BY <1>4, <2>3
<1> HIDE DEF n
<1>7. /\ r \in Images /\ r.inode_bitmap = im.inode_bitmap /\ DOMAIN r.inode = I
      /\ \A i \in I : i # ino => r.inode[i] = im.inode[i]
      /\ r.inode[ino] = EmptyInode /\ r.inode[ino].size = 0
  BY <1>3, <1>6, EmptyInodeIs DEF Freed
<1>10. \A k \in 1 .. n : ids[k] \in Int
  BY <1>1
<1>11. im.data_bitmap \subseteq Int
  <2>1. \A D, X : X \in SUBSET D /\ D \subseteq Nat => X \subseteq Int
    OBVIOUS
  <2> QED BY <1>0, <2>1, Zenon
<1>8. ASSUME r.fault # "none" PROVE r.fault = "device" /\ Short(r)
  <2>1. r.fault = "device" /\ \E k \in 1 .. n : ids[k] \notin OnDevice
    BY <1>6, <1>8 DEF Freed
  <2>2. PICK k \in 1 .. n : ids[k] \notin OnDevice
    BY <2>1
  <2> DEFINE d == ids[k] - DataAreaStart
  <2>3. ids[k] \in Int /\ d \in im.data_bitmap
    BY <1>1, <1>5
  <2>4. \A j \in 1 .. n : ids[j] \in OnDevice => d # ids[j] - DataAreaStart
    <3> SUFFICES ASSUME NEW j \in 1 .. n, ids[j] \in OnDevice, d = ids[j] - DataAreaStart PROVE FALSE
      OBVIOUS
    <3>1. ids[j] \in Int
      BY <1>1
    <3>2. ids[j] = ids[k]
      BY <1>0, <2>3, <3>1
    <3> QED BY <2>2, <3>2
  <2>5. d \in r.data_bitmap
    BY <1>3, <1>6, <2>3, <2>4 DEF Freed
  <2>6. DataAreaStart + d = ids[k]
    BY <1>0, <2>3
  <2> QED BY <2>1, <2>2, <2>5, <2>6 DEF Short
<1>9. ASSUME r.fault = "none"
      PROVE  /\ Right(r)
             /\ \A i \in I \ {ino}, o \in Nat : o < im.inode[i].size => Byte(r, i, o) = Byte(im, i, o)
             /\ Zeroed(im) => Zeroed(r)
  <2> DEFINE Q == Held(r)
             bits == r.data_bitmap
  <2>1. \A k \in 1 .. n : ids[k] \in OnDevice
    BY <1>6, <1>9 DEF Freed
  <2>2. \A d : d \in bits <=> d \in im.data_bitmap /\ \A k \in 1 .. n : d # ids[k] - DataAreaStart
    BY <1>3, <1>6, <2>1 DEF Freed
  <2>3. /\ Q \in [I -> SUBSET AllPlaces] /\ Q[ino] = {} /\ \A i \in I : i # ino => Q[i] = P[i]
    <3>1. PlaceSet(DataBlocks(r.inode[ino].size)) = {}
      BY <1>7, EmptyInodeIs
    <3>2. \A i \in I : PlaceSet(DataBlocks(r.inode[i].size)) \in SUBSET AllPlaces
      BY DEF PlaceSet
    <3> QED BY <1>7, <3>1, <3>2 DEF Held, P
  <2>4. \A i \in I \ {ino} : \A p \in P[i], k \in 1 .. n : Ptr(im, i, p) # ids[k]
    BY <1>1, <1>5
  <2>5. \A b, c : (\A k \in 1 .. n : b # ids[k]) => Cell(r, b, c) = Cell(im, b, c)
    <3>1. \A b, c : Cell(e, b, c) = Cell(im, b, c)
      BY <1>3 DEF Cell
    <3> QED BY <1>6, <3>1 DEF Freed
  <2>6. ASSUME NEW i \in I \ {ino} PROVE \A p \in P[i] : Ptr(r, i, p) = Ptr(im, i, p)
    <3> DEFINE S == P[i]
    <3>1. S \in SUBSET AllPlaces /\ \A p \in S : Inner(p) => Holder(p) \in S
      BY <1>5
    <3>2. \A p \in S : Inner(p) => Cell(r, PointerAt(im, im.inode[i], Holder(p)), Position(p))
                                     = Cell(im, PointerAt(im, im.inode[i], Holder(p)), Position(p))
      BY <2>4, <2>5, <3>1 DEF Ptr
    <3> HIDE DEF S
    <3>3. \A p \in S : PointerAt(r, im.inode[i], p) = PointerAt(im, im.inode[i], p)
      BY <3>1, <3>2, SamePointers
    <3> QED BY <1>7, <3>3 DEF S, Ptr
  <2> HIDE DEF Q, bits
  <2>7. ASSUME NEW i \in I, NEW p \in Q[i]
        PROVE  /\ i # ino /\ p \in P[i]
               /\ Ptr(r, i, p) = Ptr(im, i, p)
               /\ Ptr(r, i, p) \in Int /\ Ptr(r, i, p) - DataAreaStart \in bits
               /\ Inner(p) => /\ Holder(p) \in Q[i] /\ Position(p) \in Cells
                              /\ Ptr(r, i, Holder(p)) \in OnDevice
    <3>1. i # ino /\ p \in P[i] /\ Q[i] = P[i]
      BY <2>3
    <3>2. Ptr(r, i, p) = Ptr(im, i, p) /\ Ptr(im, i, p) \in Int /\ Ptr(im, i, p) - DataAreaStart \in im.data_bitmap
      BY <1>5, <2>6, <3>1
    <3>3. \A k \in 1 .. n : Ptr(im, i, p) - DataAreaStart # ids[k] - DataAreaStart
      <4>1. \A k \in 1 .. n : Ptr(im, i, p) # ids[k] /\ ids[k] \in Int
        <5>1. i \in I \ {ino}
          BY <3>1
        <5>2. \A k \in 1 .. n : Ptr(im, i, p) # ids[k]
          BY <2>4, <3>1, <5>1, Zenon
        <5> QED BY <1>10, <5>2
      <4>2. \A a, b \in Int : a # b => a - DataAreaStart # b - DataAreaStart
        BY <1>0
      <4> QED BY <3>2, <4>1, <4>2, Zenon
    <3>4. Ptr(im, i, p) - DataAreaStart \in bits
      BY <2>2, <3>2, <3>3, Zenon
    <3>5. Inner(p) => /\ Holder(p) \in Q[i] /\ Position(p) \in Cells
                      /\ Ptr(r, i, Holder(p)) \in OnDevice
      BY <1>5, <2>6, <3>1
    <3> QED BY <3>1, <3>2, <3>4, <3>5
  <2>8. ASSUME NEW i \in I, NEW j \in I, NEW p \in Q[i], NEW q \in Q[j], Ptr(r, i, p) = Ptr(r, j, q)
        PROVE  i = j /\ p = q
    <3>1. p \in P[i] /\ q \in P[j] /\ Ptr(im, i, p) = Ptr(im, j, q)
      BY <2>7, <2>8
    <3> QED BY <1>5, <3>1
  <2>9. ASSUME NEW d \in bits PROVE \E i \in I : \E p \in Q[i] : Ptr(r, i, p) = DataAreaStart + d
    <3>1. d \in im.data_bitmap /\ \A k \in 1 .. n : d # ids[k] - DataAreaStart
      BY <2>2
    <3>2. PICK i \in I : \E p \in P[i] : Ptr(im, i, p) = DataAreaStart + d
      BY <1>5, <3>1
    <3>3. PICK p \in P[i] : Ptr(im, i, p) = DataAreaStart + d
      BY <3>2
    <3>4. i # ino
      <4> SUFFICES ASSUME i = ino PROVE FALSE
        OBVIOUS
      <4>1. PICK k \in 1 .. n : ids[k] = Ptr(im, ino, p)
        BY <1>1, <3>3
      <4>2. d \in Int
        BY <1>11, <3>1
      <4>3. ids[k] - DataAreaStart = d
        BY <1>0, <3>3, <4>1, <4>2
      <4> QED BY <3>1, <4>3
    <3>5. p \in Q[i]
      BY <2>3, <3>4
    <3>6. Ptr(r, i, p) = DataAreaStart + d
      BY <2>6, <3>3, <3>4
    <3> QED BY <3>5, <3>6
  <2>10. ASSUME NEW i \in I, NEW k \in 0 .. DirectCount - 1, DataPlace(k) \notin Q[i]
         PROVE  Field(r.inode[i], DataPlace(k)) = 0
    <3>1. CASE i = ino
      BY <1>7, <3>1, EmptyInodeIs
    <3>2. CASE i # ino
      BY <1>5, <1>7, <2>3, <2>10, <3>2
    <3> QED BY <3>1, <3>2
  <2>11. Good(r, Q, bits)
    <3>1. DOMAIN r.inode = I
      BY <1>7
    <3> HIDE DEF I
    <3> QED BY <2>3, <2>7, <2>8, <2>9, <2>10, <3>1 DEF Good
  <2>12. Right(r)
    BY <1>0, <1>7, <1>9, <2>11 DEF Right, Q, bits
  <2>13. ASSUME NEW i \in I \ {ino}, NEW o \in Nat, o < im.inode[i].size PROVE Byte(r, i, o) = Byte(im, i, o)
    <3> DEFINE p == DataPlace(o \div BlockSize)
    <3>1. p \in P[i]
      BY <2>13, BytesAreApart DEF P
    <3> HIDE DEF p
    <3>2. Ptr(r, i, p) = Ptr(im, i, p) /\ \A c : Cell(r, Ptr(im, i, p), c) = Cell(im, Ptr(im, i, p), c)
      BY <2>4, <2>5, <2>6, <3>1
    <3> QED BY <3>2 DEF Byte, p
  <2>14. \A b, c : Used(im, b, c) /\ (\A k \in 1 .. n : b # ids[k]) => Used(r, b, c)
    <3> SUFFICES ASSUME NEW b, NEW c, \A k \in 1 .. n : b # ids[k],
                        NEW i \in I, Indexes(im, i, P[i], b) \/ FileCell(im, i, b, c)
                 PROVE  Used(r, b, c)
      BY DEF Used, P
    <3>1. \A p \in P[ino] : Ptr(im, ino, p) # b
      BY <1>1
    <3>2. i # ino
      <4>1. ~Indexes(im, ino, P[ino], b)
        BY <3>1 DEF Indexes
      <4>2. ~FileCell(im, ino, b, c)
        BY <3>1, BytesAreApart DEF FileCell, P
      <4> QED BY <4>1, <4>2
    <3>3. Q[i] = P[i] /\ r.inode[i] = im.inode[i] /\ \A p \in P[i] : Ptr(r, i, p) = Ptr(im, i, p)
      BY <1>7, <2>3, <2>6, <3>2
    <3>4. Indexes(im, i, P[i], b) => Indexes(r, i, Q[i], b)
      BY <3>3 DEF Indexes
    <3>5. FileCell(im, i, b, c) => FileCell(r, i, b, c)
      BY <3>3, BytesAreApart DEF FileCell, P
    <3> QED BY <1>7, <3>4, <3>5 DEF Used, Q
  <2>15. ASSUME Zeroed(im) PROVE Zeroed(r)
    <3>1. \A k \in 1 .. n : \A c : Cell(r, ids[k], c) \in {0, Bad}
      BY <1>6, <2>1 DEF Freed
    <3> QED BY <2>5, <2>14, <2>15, <3>1, ZeroedStays
  <2> QED BY <2>12, <2>13, <2>15
<1> QED BY <1>7, <1>8, <1>9 DEF Cleared, r

----------------------------------------------------------------------------
\* The directory.

\* The entries of the root's file: names of files, each once, and the numbers of the
\* inodes in use but the root's, each once.
EntryName(im, i) == Byte(im, Root, DirentSize * i)
EntryNumber(im, i) == Byte(im, Root, DirentSize * i + 1)
EntryIds(im) == 0 .. FileCount(im) - 1

Directory(im) ==
  /\ Root \in DOMAIN im.inode
  /\ im.inode[Root].size = DirentSize * FileCount(im)
  /\ \A i \in EntryIds(im) : EntryName(im, i) \in Names /\ EntryNumber(im, i) \in im.inode_bitmap \ {Root}
  /\ \A i, j \in EntryIds(im) : i # j =>
       EntryName(im, i) # EntryName(im, j) /\ EntryNumber(im, i) # EntryNumber(im, j)
  /\ \A ino \in im.inode_bitmap \ {Root} : \E i \in EntryIds(im) : EntryNumber(im, i) = ino

\* Half of a number.
LEMMA Halves ==
  /\ \A a \in Nat : (2 * a) \div 2 = a
  /\ \A a \in Nat : a \div 2 \in Nat
OBVIOUS

\* A number that is the least of two.
LEMMA LeastOfTwo ==
  ASSUME NEW a \in Int, NEW b \in Int
  PROVE  a <= b => Min({a, b}) = a /\ Min({b, a}) = a
<1> SUFFICES ASSUME a <= b PROVE Min({a, b}) = a /\ Min({b, a}) = a
  OBVIOUS
<1>1. {a, b} = {b, a}
  OBVIOUS
<1>2. \E x \in {a, b} : \A y \in {a, b} : x <= y
  OBVIOUS
<1>3. Min({a, b}) \in {a, b} /\ \A y \in {a, b} : Min({a, b}) <= y
  BY <1>2 DEF Min
<1> QED BY <1>1, <1>3

\* The cells are the bytes of the file from the offset on, as many as there are.
ReadsAs(cells, im, i, offset, len) ==
  cells = [j \in 1 .. (IF offset + len <= im.inode[i].size THEN len ELSE im.inode[i].size - offset) |->
             Byte(im, i, offset + j - 1)]

\* That is what ReadAt reads.
LEMMA ReadAtDoes ==
  ASSUME NEW im, Right(im), NEW i \in DOMAIN im.inode, NEW offset \in Nat, NEW len \in Nat
  PROVE  ReadsAs(ReadAt(im, im.inode[i], offset, len), im, i, offset, len)
<1> DEFINE size == im.inode[i].size
           n == IF offset + len <= size THEN len ELSE size - offset
           end == Min({offset + len, size})
<1>1. size \in Nat
  BY ImageParts DEF Right
<1>2. end - offset = n
  <2> HIDE DEF size
  <2>1. CASE offset + len <= size
    BY <1>1, <2>1, LeastOfTwo
  <2>2. CASE ~(offset + len <= size)
    BY <1>1, <2>2, LeastOfTwo
  <2> QED BY <2>1, <2>2
<1>3. ReadAt(im, im.inode[i], offset, len) = [j \in 1 .. end - offset |->
        Cell(im, GetBlockId(im, im.inode[i], (offset + j - 1) \div BlockSize), (offset + j - 1) % BlockSize)]
  BY DEF ReadAt
<1> HIDE DEF end
<1>4. \A j \in 1 .. n : Byte(im, i, offset + j - 1) =
        Cell(im, GetBlockId(im, im.inode[i], (offset + j - 1) \div BlockSize), (offset + j - 1) % BlockSize)
  <2> SUFFICES ASSUME NEW j \in 1 .. n
               PROVE Byte(im, i, offset + j - 1) =
        Cell(im, GetBlockId(im, im.inode[i], (offset + j - 1) \div BlockSize), (offset + j - 1) % BlockSize)
    OBVIOUS
  <2> DEFINE o == offset + j - 1
  <2>1. o \in Nat
    OBVIOUS
  <2> HIDE DEF o
  <2>2. Ptr(im, i, DataPlace(o \div BlockSize)) = GetBlockId(im, im.inode[i], o \div BlockSize)
    BY <2>1, BlockAndPosition, DataPointerIs
  <2> QED BY <2>2 DEF Byte, o
<1> HIDE DEF n
<1>5. ReadAt(im, im.inode[i], offset, len) = [j \in 1 .. n |-> Byte(im, i, offset + j - 1)]
  BY <1>2, <1>3, <1>4
<1> QED BY <1>5 DEF n, ReadsAs

\* An entry is its name and its number.
LEMMA EntryIs ==
  ASSUME NEW im, Right(im), Directory(im), NEW i \in EntryIds(im)
  PROVE  Entry(im, i)[1] = EntryName(im, i) /\ Entry(im, i)[2] = EntryNumber(im, i)
<1>1. FileCount(im) \in Nat /\ DirentSize = 2
  <2>1. im.inode[Root].size \in Nat
    BY ImageParts DEF Right, Directory
  <2> QED BY <2>1, Sizes, Halves DEF FileCount
<1>2. i \in Nat /\ i + 1 <= FileCount(im)
  BY <1>1 DEF EntryIds
<1>3. i * DirentSize = 2 * i /\ 2 * i \in Nat /\ 2 * i + 2 <= im.inode[Root].size
  BY <1>1, <1>2 DEF Directory
<1>4. ReadAt(im, im.inode[Root], 2 * i, 2) = [j \in 1 .. 2 |-> Byte(im, Root, 2 * i + j - 1)]
  <2>1. ReadsAs(ReadAt(im, im.inode[Root], 2 * i, 2), im, Root, 2 * i, 2)
    BY <1>3, ReadAtDoes DEF Directory
  <2> QED BY <1>3, <2>1 DEF ReadsAs
<1>5. Entry(im, i) = [j \in 1 .. 2 |-> Byte(im, Root, 2 * i + j - 1)]
  BY <1>1, <1>3, <1>4 DEF Entry
<1>6. 2 * i + 1 - 1 = 2 * i /\ 2 * i + 2 - 1 = 2 * i + 1
  BY <1>3
<1> QED BY <1>1, <1>5, <1>6 DEF EntryName, EntryNumber

\* No more entries than names.
LEMMA EntriesFit ==
  ASSUME NEW m \in Nat, NEW f \in [0 .. m - 1 -> Names],
         \A i, j \in 0 .. m - 1 : f[i] = f[j] => i = j
  PROVE  m <= Cardinality(Names) /\ Cardinality(Names) \in Nat
<1>1. IsFiniteSet(Names) /\ Cardinality(Names) \in Nat
  BY CellAssumption, FS_CardinalityType
<1>2. IsFiniteSet(0 .. m - 1) /\ Cardinality(0 .. m - 1) = m
  <2>1. 0 \in Int /\ m - 1 \in Int
    OBVIOUS
  <2>2. IsFiniteSet(0 .. m - 1) /\ Cardinality(0 .. m - 1) = IF 0 > m - 1 THEN 0 ELSE m - 1 - 0 + 1
    BY <2>1, FS_Interval, Zenon
  <2> QED BY <2>2
<1>3. ~(Cardinality(Names) < Cardinality(0 .. m - 1))
  <2> SUFFICES ASSUME Cardinality(Names) < Cardinality(0 .. m - 1) PROVE FALSE
    OBVIOUS
  <2>1. \E i, j \in 0 .. m - 1 : i # j /\ f[i] = f[j]
    BY <1>1, <1>2, FS_PigeonHole
  <2> QED BY <2>1
<1> QED BY <1>1, <1>2, <1>3

\* A name that exists is that of one entry, whose inode is in use and not the root's;
\* one that does not is of none.
LEMMA FindIs ==
  ASSUME NEW im, Right(im), Directory(im), NEW n
  PROVE  /\ Exists(im, n) <=> \E i \in EntryIds(im) : EntryName(im, i) = n
         /\ Exists(im, n) => Find(im, n) \in im.inode_bitmap \ {Root}
         /\ \A i \in EntryIds(im) : EntryName(im, i) = n => Find(im, n) = EntryNumber(im, i)
<1>1. Named(im, n) = {i \in EntryIds(im) : EntryName(im, i) = n}
  BY EntryIs DEF Named, EntryIds
<1>2. ASSUME Exists(im, n) 
      PROVE  /\ Find(im, n) \in im.inode_bitmap \ {Root}
             /\ \A i \in EntryIds(im) : EntryName(im, i) = n => Find(im, n) = EntryNumber(im, i)
  <2>1. Named(im, n) # {} /\ Named(im, n) \in SUBSET Nat
    BY <1>1, <1>2 DEF Exists, EntryIds
  <2>2. Min(Named(im, n)) \in Named(im, n)
    BY <2>1, MinMember
  <2>3. Min(Named(im, n)) \in EntryIds(im)
    BY <1>1, <2>2
  <2>4. Find(im, n) = EntryNumber(im, Min(Named(im, n)))
    BY <2>3, EntryIs DEF Find
  <2>5. EntryName(im, Min(Named(im, n))) = n
    BY <1>1, <2>2
  <2> QED BY <2>3, <2>4, <2>5 DEF Directory
<1> QED BY <1>1, <1>2 DEF Exists

\* An image with a new inode, as create makes it.
WithNew(im, new) ==
  [im EXCEPT !.inode_bitmap = @ \cup {new},
             !.inode = [i \in DOMAIN @ \cup {new} |-> IF i = new THEN EmptyInode ELSE @[i]]]

\* A new inode holds no pointer and leaves the rest as it is.
LEMMA WithNewDoes ==
  ASSUME NEW im, Right(im), NEW new \in Inodes, new \notin im.inode_bitmap
  PROVE  /\ Right(WithNew(im, new))
         /\ WithNew(im, new).inode_bitmap = im.inode_bitmap \cup {new}
         /\ DOMAIN WithNew(im, new).inode = DOMAIN im.inode \cup {new}
         /\ WithNew(im, new).inode[new] = EmptyInode
         /\ \A i \in DOMAIN im.inode : WithNew(im, new).inode[i] = im.inode[i]
         /\ \A i \in DOMAIN im.inode, o \in Nat : Byte(WithNew(im, new), i, o) = Byte(im, i, o)
         /\ Zeroed(im) => Zeroed(WithNew(im, new))
<1> DEFINE I == DOMAIN im.inode
           f == [i \in I \cup {new} |-> IF i = new THEN EmptyInode ELSE im.inode[i]]
           bitmap == im.inode_bitmap \cup {new}
           r == [im EXCEPT !.inode_bitmap = bitmap, !.inode = f]
<1>0. /\ im \in Images /\ im.fault = "none" /\ I = im.inode_bitmap /\ I \subseteq Inodes
      /\ Good(im, Held(im), im.data_bitmap) /\ \A i \in I : im.inode[i] \in InodeRecords
  BY ImageParts DEF Right
<1>1. WithNew(im, new) = r
  BY <1>0 DEF WithNew, Images
<1>2. /\ f \in [I \cup {new} -> InodeRecords] /\ DOMAIN f = I \cup {new} /\ f[new] = EmptyInode
      /\ \A i \in I : f[i] = im.inode[i]
  BY <1>0, EmptyInodeIs
<1>3. I \cup {new} \in SUBSET Inodes /\ bitmap \in SUBSET Inodes /\ bitmap = I \cup {new}
  BY <1>0
<1>4. f \in UNION {[S -> InodeRecords] : S \in SUBSET Inodes}
  BY <1>2, <1>3
<1> HIDE DEF f, bitmap
<1>5. /\ r \in Images /\ r.fault = "none" /\ r.inode_bitmap = bitmap
      /\ r.data_bitmap = im.data_bitmap /\ r.inode = f /\ r.block = im.block
  BY <1>0, <1>3, <1>4 DEF Images
<1> HIDE DEF r
<1>6. \A i \in I : \A p : Ptr(r, i, p) = Ptr(im, i, p)
  <2>1. \A b, c : Cell(r, b, c) = Cell(im, b, c)
    BY <1>5 DEF Cell
  <2>2. \A inode, k : GetBlockId(r, inode, k) = GetBlockId(im, inode, k)
    BY <2>1 DEF GetBlockId
  <2>3. \A inode, p : PointerAt(r, inode, p) = PointerAt(im, inode, p)
    BY <2>1, <2>2 DEF PointerAt
  <2> QED BY <1>2, <1>5, <2>3 DEF Ptr
<1>7. /\ Held(r)[new] = {} /\ \A i \in I : Held(r)[i] = Held(im)[i]
      /\ Held(r) \in [I \cup {new} -> SUBSET AllPlaces]
  <2>1. \A n : PlaceSet(n) \in SUBSET AllPlaces
    BY DEF PlaceSet
  <2>2. PlaceSet(DataBlocks(f[new].size)) = {}
    BY <1>2, EmptyInodeIs
  <2> QED BY <1>2, <1>5, <2>1, <2>2 DEF Held
<1> DEFINE P == Held(im)
           Q == Held(r)
           bits == im.data_bitmap
<1>8. /\ \A i \in I : \A p \in P[i] :
           /\ Ptr(im, i, p) \in Int /\ Ptr(im, i, p) - DataAreaStart \in bits
           /\ Inner(p) => /\ Holder(p) \in P[i] /\ Position(p) \in Cells
                          /\ Ptr(im, i, Holder(p)) \in OnDevice
      /\ \A i, j \in I : \A p \in P[i], q \in P[j] : Ptr(im, i, p) = Ptr(im, j, q) => i = j /\ p = q
      /\ \A d \in bits : \E i \in I : \E p \in P[i] : Ptr(im, i, p) = DataAreaStart + d
      /\ \A i \in I : \A k \in 0 .. DirectCount - 1 :
           DataPlace(k) \notin P[i] => Field(im.inode[i], DataPlace(k)) = 0
  BY <1>0 DEF Good
<1> HIDE DEF P, Q, bits
<1>9. Q \in [DOMAIN r.inode -> SUBSET AllPlaces] /\ Q[new] = {} /\ (\A i \in I : Q[i] = P[i])
      /\ DOMAIN r.inode = I \cup {new}
  BY <1>2, <1>5, <1>7 DEF P, Q
<1>10. \A i \in DOMAIN r.inode : \A p \in Q[i] : i \in I /\ p \in P[i] /\ Ptr(r, i, p) = Ptr(im, i, p)
  BY <1>6, <1>9
<1>11. \A i \in DOMAIN r.inode : \A k \in 0 .. DirectCount - 1 :
         DataPlace(k) \notin Q[i] => Field(r.inode[i], DataPlace(k)) = 0
  <2> SUFFICES ASSUME NEW i \in DOMAIN r.inode, NEW k \in 0 .. DirectCount - 1, DataPlace(k) \notin Q[i]
               PROVE  Field(r.inode[i], DataPlace(k)) = 0
    OBVIOUS
  <2>1. CASE i = new
    BY <1>2, <1>5, <2>1, EmptyInodeIs
  <2>2. CASE i \in I
    BY <1>2, <1>5, <1>8, <1>9, <2>2
  <2> QED BY <1>9, <2>1, <2>2
<1>12. \A i \in DOMAIN r.inode : \A p \in Q[i] :
           /\ Ptr(r, i, p) \in Int /\ Ptr(r, i, p) - DataAreaStart \in bits
           /\ Inner(p) => /\ Holder(p) \in Q[i] /\ Position(p) \in Cells
                          /\ Ptr(r, i, Holder(p)) \in OnDevice
  BY <1>6, <1>8, <1>9, <1>10
<1>13. \A i, j \in DOMAIN r.inode : \A p \in Q[i], q \in Q[j] : Ptr(r, i, p) = Ptr(r, j, q) => i = j /\ p = q
  BY <1>8, <1>10
<1>14. \A d \in bits : \E i \in DOMAIN r.inode : \E p \in Q[i] : Ptr(r, i, p) = DataAreaStart + d
  BY <1>6, <1>8, <1>9
<1>15. Right(r)
  <2>1. Good(r, Q, bits)
    BY <1>9, <1>11, <1>12, <1>13, <1>14 DEF Good
  <2> QED BY <1>3, <1>5, <1>9, <2>1 DEF Right, Q, bits
<1>16. \A i \in I, o \in Nat : Byte(r, i, o) = Byte(im, i, o)
  <2>1. \A b, c : Cell(r, b, c) = Cell(im, b, c)
    BY <1>5 DEF Cell
  <2> QED BY <1>6, <2>1 DEF Byte
<1>17. ASSUME Zeroed(im) PROVE Zeroed(r)
  <2>1. \A b, c : Cell(r, b, c) = Cell(im, b, c)
    BY <1>5 DEF Cell
  <2>2. \A i \in I : r.inode[i] = im.inode[i]
    BY <1>2, <1>5
  <2>3. \A b : \A i \in I : Indexes(im, i, P[i], b) => Indexes(r, i, Q[i], b)
    BY <1>6, <1>9 DEF Indexes
  <2>4. \A b, c : \A i \in I : FileCell(im, i, b, c) => FileCell(r, i, b, c)
    BY <1>6, <2>2 DEF FileCell
  <2>5. \A b, c : Used(im, b, c) => Used(r, b, c)
    BY <1>9, <2>3, <2>4 DEF Used, P, Q
  <2> QED BY <1>17, <2>1, <2>5, ZeroedStays
<1> QED BY <1>1, <1>2, <1>5, <1>9, <1>15, <1>16, <1>17 DEF bitmap

\* The new name is that of a new empty file; the other names, and what their files
\* show, stay.
ShowsNew(r, im, n) ==
  /\ \A m : Exists(r, m) <=> Exists(im, m) \/ m = n
  /\ \A m : Exists(im, m) => Find(r, m) = Find(im, m)
  /\ Find(r, n) \notin im.inode_bitmap /\ r.inode[Find(r, n)].size = 0
  /\ \A i \in im.inode_bitmap \ {Root} :
       /\ r.inode[i] = im.inode[i]
       /\ \A o \in Nat : o < im.inode[i].size => Byte(r, i, o) = Byte(im, i, o)

\* r is im with a new empty file of a name; or the code panicked.
Created(r, im, n) ==
  /\ r \in Images /\ DOMAIN r.inode = r.inode_bitmap /\ im.inode_bitmap \subseteq r.inode_bitmap
  /\ \A i \in r.inode_bitmap \ {Root} :
       r.inode[i].size = 0 \/ (i \in im.inode_bitmap /\ r.inode[i] = im.inode[i])
  /\ r.inode[Root].size <= DirentSize * Cardinality(Names)
  /\ r.fault = "none" =>
       /\ Right(r) /\ Directory(r) /\ Find(r, n) \in r.inode_bitmap \ {Root}
       /\ ShowsNew(r, im, n) /\ (Zeroed(im) => Zeroed(r))
  /\ r.fault # "none" => (r.fault = "alloc" /\ r.inode_bitmap = Inodes) \/ GrowFault(r, Root)

\* The directory has room: every entry has a name of its own.
LEMMA DirectoryFits ==
  ASSUME NEW im, Right(im), Directory(im)
  PROVE  /\ FileCount(im) \in Nat
         /\ im.inode[Root].size <= DirentSize * Cardinality(Names)
         /\ \A n \in Names : ~Exists(im, n) => FileCount(im) + 1 <= Cardinality(Names)
         /\ Cardinality(Names) \in Nat
<1>0. FileCount(im) \in Nat /\ DirentSize = 2 /\ im.inode[Root].size = 2 * FileCount(im)
  <2>1. im.inode[Root].size \in Nat
    BY ImageParts DEF Right, Directory
  <2> QED BY <2>1, Sizes, Halves DEF FileCount, Directory
<1> DEFINE m == FileCount(im)
           f == [i \in 0 .. m - 1 |-> EntryName(im, i)]
<1>1. f \in [0 .. m - 1 -> Names] /\ \A i, j \in 0 .. m - 1 : f[i] = f[j] => i = j
  BY DEF Directory, EntryIds
<1>2. m <= Cardinality(Names) /\ Cardinality(Names) \in Nat
  <2> HIDE DEF f, m
  <2> QED BY <1>0, <1>1, EntriesFit DEF m
<1>3. ASSUME NEW n \in Names, ~Exists(im, n) PROVE m + 1 <= Cardinality(Names)
  <2> DEFINE g == [i \in 0 .. (m + 1) - 1 |-> IF i = m THEN n ELSE f[i]]
  <2>1. \A i \in 0 .. m - 1 : f[i] # n
    BY <1>3, FindIs DEF EntryIds
  <2>2. \A i \in 0 .. (m + 1) - 1 : i = m \/ (i # m /\ i \in 0 .. m - 1)
    BY <1>0
  <2> HIDE DEF f, m
  <2>3. g \in [0 .. (m + 1) - 1 -> Names]
    BY <1>1, <2>2
  <2>4. \A i, j \in 0 .. (m + 1) - 1 : g[i] = g[j] => i = j
    BY <1>1, <2>1, <2>2
  <2>5. m + 1 \in Nat
    BY <1>0 DEF m
  <2> HIDE DEF g
  <2> QED BY <2>3, <2>4, <2>5, EntriesFit
<1>4. 2 * m <= 2 * Cardinality(Names)
  BY <1>0, <1>2
<1> QED BY <1>0, <1>2, <1>3, <1>4

\* The byte of the new entry: where entries are and where the new one goes.
LEMMA EntryPlaces ==
  ASSUME NEW m \in Nat, NEW i \in Nat, NEW n, NEW new
  PROVE  /\ i < m => /\ ~InRange(2 * i, 2 * m, <<n, new>>) /\ ~InRange(2 * i + 1, 2 * m, <<n, new>>)
                     /\ 2 * i < 2 * m /\ 2 * i + 1 < 2 * m
         /\ InRange(2 * m, 2 * m, <<n, new>>) /\ InRange(2 * m + 1, 2 * m, <<n, new>>)
         /\ <<n, new>>[2 * m - 2 * m + 1] = n /\ <<n, new>>[2 * m + 1 - 2 * m + 1] = new
         /\ 2 * m \in Nat /\ 2 * i \in Nat /\ 2 * m + 2 = 2 * (m + 1)
<1>1. Len(<<n, new>>) = 2
  OBVIOUS
<1>2. 2 * m - 2 * m + 1 = 1 /\ 2 * m + 1 - 2 * m + 1 = 2
  OBVIOUS
<1> QED BY <1>1, <1>2 DEF InRange

\* create: a new inode, and an entry for it at the end of the directory.
LEMMA CreateDoes ==
  ASSUME NEW im, Right(im), Directory(im), NEW n \in Names, ~Exists(im, n)
  PROVE  Created(Create(im, n), im, n)
<1> DEFINE new == Min(Inodes \ im.inode_bitmap)
           made == WithNew(im, new)
           m == FileCount(im)
           r == Create(im, n)
           entry == <<n, new>>
<1>0. /\ im \in Images /\ im.fault = "none" /\ DOMAIN im.inode = im.inode_bitmap
      /\ im.inode_bitmap \subseteq Inodes /\ DirentSize = 2 /\ Root \in im.inode_bitmap
      /\ n \in Nat
  BY ImageParts, Sizes, CellAssumption DEF Right, Directory
<1>1. /\ m \in Nat /\ im.inode[Root].size = 2 * m
      /\ m + 1 <= Cardinality(Names) /\ Cardinality(Names) \in Nat
      /\ im.inode[Root].size <= 2 * Cardinality(Names)
  BY <1>0, DirectoryFits DEF Directory
<1>2. r = IF im.inode_bitmap = Inodes THEN Fault(im, "alloc")
          ELSE WriteFile(made, Root, m * DirentSize, entry)
  BY DEF Create, WithNew
<1> HIDE DEF r, made
<1>3. CASE im.inode_bitmap = Inodes
  <2>1. r = Fault(im, "alloc")
    BY <1>2, <1>3
  <2>2. /\ r \in Images /\ r.fault = "alloc" /\ r.inode_bitmap = im.inode_bitmap
        /\ r.inode = im.inode
    BY <1>0, <2>1, FaultDoes
  <2> QED BY <1>0, <1>1, <1>3, <2>2 DEF Created, r
<1>4. CASE im.inode_bitmap # Inodes
  <2>1. new \in Inodes /\ new \notin im.inode_bitmap /\ new \in Nat
    <3>1. Inodes \ im.inode_bitmap \in SUBSET Nat /\ Inodes \ im.inode_bitmap # {}
      BY <1>0, <1>4, Layout
    <3>2. new \in Inodes \ im.inode_bitmap
      BY <3>1, MinMember
    <3> QED BY <3>1, <3>2
  <2> HIDE DEF new
  <2>2. /\ Right(made) /\ made.inode_bitmap = im.inode_bitmap \cup {new}
        /\ DOMAIN made.inode = im.inode_bitmap \cup {new}
        /\ made.inode[new] = EmptyInode
        /\ \A i \in im.inode_bitmap : made.inode[i] = im.inode[i]
        /\ \A i \in im.inode_bitmap, o \in Nat : Byte(made, i, o) = Byte(im, i, o)
        /\ Zeroed(im) => Zeroed(made)
    BY <1>0, <2>1, WithNewDoes DEF made
  <2>3. r = WriteFile(made, Root, 2 * m, entry)
    <3>1. m * DirentSize = 2 * m
      BY <1>0, <1>1
    <3> QED BY <1>2, <1>4, <3>1
  <2>4. entry \in Seq(Nat) /\ Len(entry) = 2
    BY <1>0, <2>1
  <2> HIDE DEF m
  <2>5. 2 * m \in Nat /\ 2 * m + 2 = 2 * (m + 1) /\ Root \in DOMAIN made.inode
    BY <1>0, <1>1, <2>2
  <2>6. Stored(r, made, Root, 2 * m, entry)
    <3> HIDE DEF entry
    <3> QED BY <2>2, <2>3, <2>4, <2>5, WriteFileDoes
  <2>7. /\ r \in Images /\ r.inode_bitmap = im.inode_bitmap \cup {new}
        /\ DOMAIN r.inode = im.inode_bitmap \cup {new}
        /\ \A i \in im.inode_bitmap \cup {new} : i # Root => r.inode[i] = made.inode[i]
        /\ r.inode[Root].size \in {2 * m, 2 * m + 2}
    BY <1>0, <1>1, <2>2, <2>4, <2>6 DEF Stored
  <2>8. \A i \in r.inode_bitmap \ {Root} :
          r.inode[i].size = 0 \/ (i \in im.inode_bitmap /\ r.inode[i] = im.inode[i])
    BY <2>2, <2>7, EmptyInodeIs
  <2>9. r.inode[Root].size <= DirentSize * Cardinality(Names)
    <3>1. 2 * (m + 1) <= 2 * Cardinality(Names) /\ 2 * m <= 2 * (m + 1)
      BY <1>1 DEF m
    <3>2. 2 * m \in Int /\ 2 * (m + 1) \in Int /\ 2 * Cardinality(Names) \in Int
      BY <1>1 DEF m
    <3>3. r.inode[Root].size \in {2 * m, 2 * (m + 1)}
      BY <2>5, <2>7
    <3> QED BY <1>0, <3>1, <3>2, <3>3
  <2>10. r.fault # "none" => GrowFault(r, Root)
    BY <2>4, <2>6 DEF Stored
  <2>11. ASSUME r.fault = "none"
         PROVE  /\ Right(r) /\ Directory(r) /\ Find(r, n) \in r.inode_bitmap \ {Root}
                /\ ShowsNew(r, im, n) /\ (Zeroed(im) => Zeroed(r))
    <3>1. /\ Right(r)
          /\ \A o \in Nat : /\ o < 2 * m /\ ~InRange(o, 2 * m, entry) => Byte(r, Root, o) = Byte(im, Root, o)
                            /\ InRange(o, 2 * m, entry) => Byte(r, Root, o) = entry[o - 2 * m + 1]
      <4>1. /\ Right(r)
            /\ \A o \in Nat :
                 /\ o < made.inode[Root].size /\ ~InRange(o, 2 * m, entry) => Byte(r, Root, o) = Byte(made, Root, o)
                 /\ InRange(o, 2 * m, entry) => Byte(r, Root, o) = entry[o - 2 * m + 1]
        <5> HIDE DEF entry
        <5> QED BY <2>5, <2>6, <2>11 DEF Stored
      <4>2. made.inode[Root].size = 2 * m /\ \A o \in Nat : Byte(made, Root, o) = Byte(im, Root, o)
        BY <1>0, <1>1, <2>2 DEF m
      <4> HIDE DEF entry
      <4> QED BY <4>1, <4>2
    <3>2. r.inode[Root].size = 2 * (m + 1)
      <4>1. r.inode[Root].size = IF 2 * m + 2 < made.inode[Root].size THEN made.inode[Root].size ELSE 2 * m + 2
        BY <2>4, <2>6, <2>11 DEF Stored
      <4>2. made.inode[Root].size = 2 * m
        BY <1>0, <1>1, <2>2 DEF m
      <4> QED BY <2>5, <4>1, <4>2
    <3>3. FileCount(r) = m + 1 /\ m + 1 \in Nat /\ m \in Nat
      <4>1. m + 1 \in Nat /\ m \in Nat
        BY <1>1 DEF m
      <4>2. (2 * (m + 1)) \div 2 = m + 1
        BY <4>1, Halves
      <4> QED BY <1>0, <3>2, <4>1, <4>2 DEF FileCount
    <3>4. \A i \in EntryIds(r) : (i \in EntryIds(im) /\ i \in Nat /\ i < m) \/ i = m
      BY <3>3 DEF EntryIds, m
    <3>5. \A i \in EntryIds(im) : i \in EntryIds(r) /\ i \in Nat /\ i < m
      BY <3>3 DEF EntryIds, m
    <3>6. m \in EntryIds(r)
      BY <3>3 DEF EntryIds
    <3>7. \A i \in EntryIds(im) :
            EntryName(r, i) = EntryName(im, i) /\ EntryNumber(r, i) = EntryNumber(im, i)
      <4> SUFFICES ASSUME NEW i \in EntryIds(im)
                   PROVE EntryName(r, i) = EntryName(im, i) /\ EntryNumber(r, i) = EntryNumber(im, i)
        OBVIOUS
      <4>1. /\ ~InRange(2 * i, 2 * m, entry) /\ ~InRange(2 * i + 1, 2 * m, entry)
            /\ 2 * i < 2 * m /\ 2 * i + 1 < 2 * m /\ 2 * i \in Nat
        BY <3>3, <3>5, EntryPlaces
      <4>2. 2 * i + 1 \in Nat
        BY <4>1
      <4> HIDE DEF entry
      <4> QED BY <1>0, <3>1, <4>1, <4>2 DEF EntryName, EntryNumber
    <3>8. EntryName(r, m) = n /\ EntryNumber(r, m) = new
      <4>1. /\ InRange(2 * m, 2 * m, entry) /\ InRange(2 * m + 1, 2 * m, entry)
            /\ entry[2 * m - 2 * m + 1] = n /\ entry[2 * m + 1 - 2 * m + 1] = new
        BY <3>3, EntryPlaces
      <4>2. 2 * m \in Nat /\ 2 * m + 1 \in Nat
        BY <2>5
      <4> HIDE DEF entry
      <4> QED BY <1>0, <3>1, <4>1, <4>2 DEF EntryName, EntryNumber
    <3>9. new # Root /\ \A i \in EntryIds(im) : EntryName(im, i) # n /\ EntryNumber(im, i) # new
      BY <1>0, <2>1, FindIs DEF Directory
    <3>10. Directory(r)
      <4>1. Root \in DOMAIN r.inode /\ r.inode[Root].size = DirentSize * FileCount(r)
        BY <1>0, <2>7, <3>2, <3>3
      <4>2. \A i \in EntryIds(r) : EntryName(r, i) \in Names /\ EntryNumber(r, i) \in r.inode_bitmap \ {Root}
        <5>1. \A i \in EntryIds(im) : EntryName(im, i) \in Names /\ EntryNumber(im, i) \in im.inode_bitmap \ {Root}
          BY DEF Directory
        <5> QED BY <2>7, <3>4, <3>7, <3>8, <3>9, <5>1
      <4>3. \A i, j \in EntryIds(r) : i # j =>
              EntryName(r, i) # EntryName(r, j) /\ EntryNumber(r, i) # EntryNumber(r, j)
        <5>1. \A i, j \in EntryIds(im) : i # j =>
                EntryName(im, i) # EntryName(im, j) /\ EntryNumber(im, i) # EntryNumber(im, j)
          BY DEF Directory
        <5> QED BY <3>4, <3>7, <3>8, <3>9, <5>1
      <4>4. \A ino \in r.inode_bitmap \ {Root} : \E i \in EntryIds(r) : EntryNumber(r, i) = ino
        <5>1. \A ino \in im.inode_bitmap \ {Root} : \E i \in EntryIds(im) : EntryNumber(im, i) = ino
          BY DEF Directory
        <5> QED BY <2>7, <3>5, <3>6, <3>7, <3>8, <5>1
      <4> QED BY <4>1, <4>2, <4>3, <4>4 DEF Directory
    <3>11. Find(r, n) \in r.inode_bitmap \ {Root}
      <4>1. Exists(r, n)
        BY <3>1, <3>6, <3>8, <3>10, FindIs
      <4> QED BY <3>1, <3>10, <4>1, FindIs
    <3>12. \A q : Exists(r, q) <=> Exists(im, q) \/ q = n
      <4>1. \A q : /\ Exists(r, q) <=> \E i \in EntryIds(r) : EntryName(r, i) = q
                   /\ Exists(im, q) <=> \E i \in EntryIds(im) : EntryName(im, i) = q
        BY <3>1, <3>10, FindIs
      <4> QED BY <3>4, <3>5, <3>6, <3>7, <3>8, <4>1
    <3>13. ASSUME NEW q, Exists(im, q) PROVE Find(r, q) = Find(im, q)
      <4>1. PICK i \in EntryIds(im) : EntryName(im, i) = q
        BY <3>13, FindIs
      <4>2. Find(im, q) = EntryNumber(im, i)
        BY <4>1, FindIs
      <4>3. Find(r, q) = EntryNumber(r, i)
        BY <3>1, <3>5, <3>7, <3>10, <4>1, FindIs
      <4> QED BY <3>7, <4>2, <4>3
    <3>14. Find(r, n) = new
      BY <3>1, <3>6, <3>8, <3>10, FindIs
    <3>15. r.inode[new].size = 0
      BY <2>2, <2>7, <3>9, EmptyInodeIs
    <3>16. ASSUME NEW i \in im.inode_bitmap \ {Root}
           PROVE  /\ r.inode[i] = im.inode[i]
                  /\ \A o \in Nat : o < im.inode[i].size => Byte(r, i, o) = Byte(im, i, o)
      <4>1. r.inode[i] = made.inode[i] /\ made.inode[i] = im.inode[i] /\ i \in DOMAIN made.inode
        BY <2>2, <2>7
      <4>2. \A o \in Nat : o < made.inode[i].size => Byte(r, i, o) = Byte(made, i, o)
        <5> HIDE DEF entry
        <5> QED BY <2>6, <2>11, <4>1 DEF Stored
      <4> QED BY <2>2, <4>1, <4>2
    <3>17. ShowsNew(r, im, n)
      BY <2>1, <3>12, <3>13, <3>14, <3>15, <3>16 DEF ShowsNew
    <3>18. ASSUME Zeroed(im) PROVE Zeroed(r)
      BY <2>2, <2>6, <2>11, <3>18 DEF Stored, StoredZeroed
    <3> QED BY <3>1, <3>10, <3>11, <3>17, <3>18
  <2> QED BY <2>7, <2>8, <2>9, <2>10, <2>11 DEF Created, r
<1> QED BY <1>3, <1>4

----------------------------------------------------------------------------
\* The invariant.

OpenFiles == UNION {[S -> [inode : Inodes, offset : 0 .. MaxSize]] : S \in SUBSET Handles}

\* Handles are for files, never for the directory.
HandlesFit(hs, im) ==
  hs \in OpenFiles /\ \A h \in DOMAIN hs : hs[h].inode \in im.inode_bitmap \ {Root}

SizesFit(im) ==
  \A i \in DOMAIN im.inode :
    im.inode[i].size <= IF i = Root THEN DirentSize * Cardinality(Names) ELSE MaxSize

\* Why a file operation panicked.
Explained(im, hs) ==
  \/ im.fault = "alloc" /\ (im.data_bitmap = DataBits \/ im.inode_bitmap = Inodes)
  \/ im.fault = "device" /\ Short(im)
  \/ /\ im.fault = "index"
     /\ \E i \in DOMAIN im.inode : DataBlocks(im.inode[i].size) > Indirect1Bound + BlockSize * BlockSize
  \/ im.fault = "dangling" /\ \E h \in DOMAIN hs : Dangling(im, hs[h].inode, hs[h].offset)

\* What an operation may leave.
Possible(im, hs, hs2) ==
  /\ im \in Images /\ DOMAIN im.inode = im.inode_bitmap /\ SizesFit(im)
  /\ im.fault = "none" => Right(im) /\ Directory(im) /\ HandlesFit(hs2, im)
  /\ im.fault # "none" => Explained(im, hs) /\ HandlesFit(hs, im)

\* While the kernel runs the image is right, its directory too, and the device shows
\* the same; when it has panicked, for a reason, the parts still have their types.
FsInv ==
  /\ img \in Images /\ DOMAIN img.inode = img.inode_bitmap /\ SizesFit(img)
  /\ HandlesFit(handles, img)
  /\ Running => Right(img) /\ Directory(img) /\ disk = img
  /\ machine \in {"running", "alloc", "device", "dangling", "index", "assert"}
  /\ PanicsExplained

\* The largest size, of a file or of the directory.
LEMMA MaxSizeIs ==
  /\ MaxInodeSize \in Nat /\ MaxSize <= MaxInodeSize /\ DirentSize * Cardinality(Names) <= MaxInodeSize
  /\ Cardinality(Names) \in Nat
<1>1. MaxSize \in Nat /\ DirentSize = 2 /\ Cardinality(Names) \in Nat
  BY Sizes, CellAssumption, FS_CardinalityType
<1> DEFINE a == MaxSize
           b == DirentSize * Cardinality(Names)
<1>2. a \in Nat /\ b \in Nat
  BY <1>1
<1> HIDE DEF a, b
<1>3. \E x \in {a, b} : \A y \in {a, b} : x >= y
  BY <1>2
<1>4. Max({a, b}) \in {a, b} /\ \A y \in {a, b} : Max({a, b}) >= y
  BY <1>3 DEF Max
<1>5. MaxInodeSize = Max({a, b})
  BY DEF MaxInodeSize, a, b
<1> QED BY <1>1, <1>2, <1>4, <1>5 DEF a, b

\* A complete operation keeps the invariant if what it leaves is possible.
LEMMA CompleteKeeps ==
  ASSUME FsInv, Running, NEW im, NEW hs, Possible(im, handles, hs), Complete(im, hs)
  PROVE  FsInv'
<1>1. img' = im /\ (im.fault = "none" => disk' = im /\ handles' = hs /\ machine' = machine)
                /\ (im.fault # "none" => machine' = im.fault /\ handles' = handles)
  BY DEF Complete, SyncAll
<1>2. CASE im.fault = "none"
  <2>1. machine' = "running" /\ Running'
    BY <1>1, <1>2 DEF Running
  <2>2. PanicsExplained'
    BY <2>1 DEF PanicsExplained
  <2> QED BY <1>1, <1>2, <2>1, <2>2 DEF FsInv, Possible
<1>3. CASE im.fault # "none"
  <2>1. machine' = im.fault /\ handles' = handles /\ img' = im /\ Explained(im, handles)
        /\ HandlesFit(handles, im)
    BY <1>1, <1>3 DEF Possible
  <2>2. ~Running' /\ machine' \in {"alloc", "device", "dangling", "index"}
    BY <2>1 DEF Running, Explained
  <2>3. machine' = "device" => \E d \in im.data_bitmap : DataAreaStart + d \notin DataArea
    BY <2>1 DEF Explained, Short, OnDevice
  <2>4. machine' = "index" =>
          \E size \in {im.inode[ino].size : ino \in DOMAIN im.inode} :
             DataBlocks(size) > Indirect1Bound + BlockSize * BlockSize
    BY <2>1 DEF Explained
  <2>5. machine' = "dangling" => \E h \in DOMAIN handles :
          /\ handles[h].offset = im.inode[handles[h].inode].size
          /\ im.inode[handles[h].inode].size % BlockSize = 0
          /\ DataBlocks(im.inode[handles[h].inode].size) >= DirectCount
    BY <2>1 DEF Explained, Dangling
  <2>6. PanicsExplained'
    BY <2>1, <2>2, <2>3, <2>4, <2>5 DEF PanicsExplained, Explained
  <2> QED BY <1>1, <2>1, <2>2, <2>6 DEF FsInv, Possible
<1> QED BY <1>2, <1>3

\* The formatted image: one empty directory.
LEMMA FormattedIs ==
  Possible(Formatted, <<>>, <<>>) /\ Formatted.fault = "none"
<1> DEFINE im == Formatted
           f == [i \in {Root} |-> EmptyInode]
           g == [b \in {0} \cup DataArea |-> IF b = 0 THEN SuperBlock ELSE Zeros]
<1>1. /\ im.inode_bitmap = {Root} /\ im.data_bitmap = {} /\ im.inode = f /\ im.block = g
      /\ im.fault = "none"
      /\ im = [inode_bitmap |-> {Root}, data_bitmap |-> {}, inode |-> f, block |-> g, fault |-> "none"]
  BY DEF Formatted
<1>2. f \in [{Root} -> InodeRecords] /\ DOMAIN f = {Root} /\ f[Root] = EmptyInode
  BY EmptyInodeIs
<1>3. g \in [OnDevice -> [Cells -> Nat]]
  <2>1. Zeros \in [Cells -> Nat] /\ SuperBlock \in [Cells -> Nat]
    BY Layout DEF Zeros, SuperBlock
  <2> QED BY <2>1 DEF OnDevice
<1>4. f \in UNION {[S -> InodeRecords] : S \in SUBSET Inodes}
  <2>1. {Root} \in SUBSET Inodes
    BY Layout
  <2> QED BY <1>2, <2>1
<1> HIDE DEF f, g, im
<1>5. im \in Images
  <2>1. {Root} \in SUBSET Inodes
    BY Layout
  <2> QED BY <1>1, <1>3, <1>4, <2>1 DEF Images
<1>6. Held(im) = [i \in {Root} |-> {}]
  BY <1>1, <1>2, EmptyInodeIs DEF Held
<1>7. Good(im, Held(im), {})
  <2>1. \A i \in {Root} : Held(im)[i] = {} /\ im.inode[i] = EmptyInode
    BY <1>1, <1>2, <1>6
  <2>2. DOMAIN im.inode = {Root}
    BY <1>1, <1>2
  <2> QED BY <1>6, <2>1, <2>2, EmptyInodeIs DEF Good
<1>8. Right(im)
  BY <1>1, <1>2, <1>5, <1>7 DEF Right
<1>9. FileCount(im) = 0
  BY <1>1, <1>2, EmptyInodeIs, Sizes DEF FileCount
<1>10. Directory(im)
  <2>1. EntryIds(im) = {}
    BY <1>9 DEF EntryIds
  <2>2. Root \in DOMAIN im.inode /\ im.inode[Root].size = 0 /\ im.inode_bitmap = {Root}
    BY <1>1, <1>2, EmptyInodeIs
  <2>3. im.inode[Root].size = DirentSize * FileCount(im)
    BY <1>9, <2>2, Sizes
  <2> QED BY <2>1, <2>2, <2>3, Zenon DEF Directory
<1>11. SizesFit(im)
  BY <1>1, <1>2, EmptyInodeIs, MaxSizeIs, Sizes DEF SizesFit
<1>12. HandlesFit(<<>>, im)
  <2>1. <<>> = [h \in {} |-> h]
    OBVIOUS
  <2>2. DOMAIN <<>> = {} /\ <<>> \in [{} -> [inode : Inodes, offset : 0 .. MaxSize]]
    BY <2>1
  <2> QED BY <2>2 DEF HandlesFit, OpenFiles
<1> QED BY <1>1, <1>2, <1>5, <1>8, <1>10, <1>11, <1>12 DEF Possible, im

\* An operation on a file leaves the directory as it is.
LEMMA DirectoryStays ==
  ASSUME NEW im, Directory(im), NEW r, r.inode_bitmap = im.inode_bitmap,
         DOMAIN r.inode = DOMAIN im.inode, r.inode[Root].size = im.inode[Root].size,
         im.inode[Root].size \in Nat,
         \A o \in Nat : o < im.inode[Root].size => Byte(r, Root, o) = Byte(im, Root, o)
  PROVE  Directory(r)
<1> DEFINE m == FileCount(im)
<1>0. DirentSize = 2 /\ m \in Nat /\ im.inode[Root].size = 2 * m
  <2>1. DirentSize = 2
    BY Sizes
  <2> QED BY <2>1, Halves DEF FileCount, Directory
<1>1. FileCount(r) = m /\ EntryIds(r) = EntryIds(im)
  BY DEF FileCount, EntryIds
<1>2. \A i \in EntryIds(im) : 2 * i \in Nat /\ 2 * i + 1 \in Nat /\ 2 * i < 2 * m /\ 2 * i + 1 < 2 * m
  BY <1>0 DEF EntryIds
<1> HIDE DEF m
<1>3. \A i \in EntryIds(im) : EntryName(r, i) = EntryName(im, i) /\ EntryNumber(r, i) = EntryNumber(im, i)
  BY <1>0, <1>2 DEF EntryName, EntryNumber
<1>4. /\ Root \in DOMAIN r.inode
      /\ r.inode[Root].size = DirentSize * FileCount(r)
  BY <1>1 DEF Directory, m
<1>5. \A i \in EntryIds(r) : EntryName(r, i) \in Names /\ EntryNumber(r, i) \in r.inode_bitmap \ {Root}
  BY <1>1, <1>3 DEF Directory
<1>6. \A i, j \in EntryIds(r) : i # j =>
        EntryName(r, i) # EntryName(r, j) /\ EntryNumber(r, i) # EntryNumber(r, j)
  BY <1>1, <1>3 DEF Directory
<1>7. \A ino \in r.inode_bitmap \ {Root} : \E i \in EntryIds(r) : EntryNumber(r, i) = ino
  BY <1>1, <1>3 DEF Directory
<1> QED BY <1>4, <1>5, <1>6, <1>7 DEF Directory

\* What clear leaves is possible, whatever handles are open after it.
LEMMA ClearPossible ==
  ASSUME FsInv, Running, NEW ino \in img.inode_bitmap \ {Root},
         NEW hs, HandlesFit(hs, img)
  PROVE  Possible(Clear(img, ino), handles, hs)
<1> DEFINE r == Clear(img, ino)
<1>0. /\ Right(img) /\ Directory(img) /\ DOMAIN img.inode = img.inode_bitmap /\ SizesFit(img)
      /\ HandlesFit(handles, img) /\ img \in Images
  BY DEF FsInv
<1>1. Cleared(r, img, ino)
  BY <1>0, ClearDoes
<1> HIDE DEF r
<1>2. /\ r \in Images /\ r.inode_bitmap = img.inode_bitmap /\ DOMAIN r.inode = DOMAIN img.inode
      /\ \A i \in DOMAIN img.inode : i # ino => r.inode[i] = img.inode[i]
      /\ r.inode[ino].size = 0
  BY <1>1 DEF Cleared
<1>3. SizesFit(r)
  BY <1>0, <1>2, Sizes DEF SizesFit
<1>4. HandlesFit(hs, r) /\ HandlesFit(handles, r)
  BY <1>0, <1>2 DEF HandlesFit
<1>5. ASSUME r.fault = "none" PROVE Right(r) /\ Directory(r)
  <2>1. Right(r) /\ \A o \in Nat : o < img.inode[Root].size => Byte(r, Root, o) = Byte(img, Root, o)
    BY <1>0, <1>1, <1>5 DEF Cleared, Directory
  <2>2. r.inode[Root].size = img.inode[Root].size /\ img.inode[Root].size \in Nat
    BY <1>0, <1>2, ImageParts DEF Directory
  <2> QED BY <1>0, <1>2, <2>1, <2>2, DirectoryStays
<1>6. r.fault # "none" => Explained(r, handles)
  BY <1>1 DEF Cleared, Explained
<1> QED BY <1>0, <1>2, <1>3, <1>4, <1>5, <1>6 DEF Possible, r

\* A handle of a file that is found is one more open file.
LEMMA HandleAdded ==
  ASSUME NEW h \in Handles, NEW f \in [inode : Inodes, offset : 0 .. MaxSize],
         handles \in OpenFiles
  PROVE  /\ WithHandle(h, f) \in OpenFiles
         /\ \A g \in DOMAIN WithHandle(h, f) :
              WithHandle(h, f)[g] = f \/ (g \in DOMAIN handles /\ WithHandle(h, f)[g] = handles[g])
<1>1. PICK S \in SUBSET Handles : handles \in [S -> [inode : Inodes, offset : 0 .. MaxSize]]
  BY DEF OpenFiles
<1> DEFINE T == S \cup {h}
           F == WithHandle(h, f)
<1>2. T \in SUBSET Handles /\ DOMAIN handles = S
  BY <1>1
<1>3. F = [g \in T |-> IF g = h THEN f ELSE handles[g]]
  BY <1>2 DEF WithHandle
<1>4. F \in [T -> [inode : Inodes, offset : 0 .. MaxSize]]
  <2>1. \A g \in T : (IF g = h THEN f ELSE handles[g]) \in [inode : Inodes, offset : 0 .. MaxSize]
    BY <1>1
  <2> QED BY <1>3, <2>1
<1>5. \A g \in DOMAIN F : F[g] = f \/ (g \in DOMAIN handles /\ F[g] = handles[g])
  BY <1>2, <1>3
<1> HIDE DEF T, F
<1> QED BY <1>2, <1>4, <1>5 DEF OpenFiles, F

\* The open files fit, with one more.
LEMMA HandleFits ==
  ASSUME NEW im \in Images, HandlesFit(handles, img), img.inode_bitmap \subseteq im.inode_bitmap,
         NEW h \in Handles, NEW ino \in im.inode_bitmap \ {Root}
  PROVE  HandlesFit(WithHandle(h, FileHandle(ino)), im)
<1> DEFINE f == FileHandle(ino)
<1>1. f \in [inode : Inodes, offset : 0 .. MaxSize] /\ f.inode = ino
  <2>1. ino \in Inodes /\ 0 \in 0 .. MaxSize
    BY ImageParts, Sizes
  <2> QED BY <2>1 DEF FileHandle
<1> HIDE DEF f
<1>2. handles \in OpenFiles /\ \A g \in DOMAIN handles : handles[g].inode \in im.inode_bitmap \ {Root}
  BY DEF HandlesFit
<1>3. /\ WithHandle(h, f) \in OpenFiles
      /\ \A g \in DOMAIN WithHandle(h, f) :
           WithHandle(h, f)[g] = f \/ (g \in DOMAIN handles /\ WithHandle(h, f)[g] = handles[g])
  BY <1>1, <1>2, HandleAdded
<1> QED BY <1>1, <1>2, <1>3 DEF HandlesFit, f

\* open with CREATE keeps the invariant.
LEMMA OpenCreateKeeps ==
  ASSUME FsInv, NEW h \in Handles, NEW n \in Names, OpenCreate(h, n)
  PROVE  FsInv'
<1>0. /\ Running /\ Right(img) /\ Directory(img) /\ DOMAIN img.inode = img.inode_bitmap
      /\ SizesFit(img) /\ HandlesFit(handles, img) /\ img \in Images
  BY DEF FsInv, OpenCreate
<1>1. CASE Exists(img, n)
  <2> DEFINE ino == Find(img, n)
             hs == WithHandle(h, FileHandle(ino))
  <2>1. ino \in img.inode_bitmap \ {Root}
    BY <1>0, <1>1, FindIs
  <2>2. Complete(Clear(img, ino), hs)
    BY <1>1 DEF OpenCreate
  <2> HIDE DEF ino
  <2>3. HandlesFit(hs, img)
    BY <1>0, <2>1, HandleFits
  <2> HIDE DEF hs
  <2>4. Possible(Clear(img, ino), handles, hs)
    BY <1>0, <2>1, <2>3, ClearPossible
  <2> QED BY <1>0, <2>2, <2>4, CompleteKeeps
<1>2. CASE ~Exists(img, n)
  <2> DEFINE r == Create(img, n)
             hs == IF r.fault = "none" THEN WithHandle(h, FileHandle(Find(r, n))) ELSE handles
  <2>1. Complete(r, hs)
    BY <1>2 DEF OpenCreate
  <2>2. Created(r, img, n)
    BY <1>0, <1>2, CreateDoes
  <2> HIDE DEF r
  <2>3. /\ r \in Images /\ DOMAIN r.inode = r.inode_bitmap /\ img.inode_bitmap \subseteq r.inode_bitmap
    BY <2>2 DEF Created
  <2>4. SizesFit(r)
    <3> SUFFICES ASSUME NEW i \in DOMAIN r.inode
                 PROVE  r.inode[i].size <= IF i = Root THEN DirentSize * Cardinality(Names) ELSE MaxSize
      BY DEF SizesFit
    <3>1. CASE i = Root
      BY <2>2, <3>1 DEF Created
    <3>2. CASE i # Root
      <4>1. i \in r.inode_bitmap \ {Root}
        BY <2>3, <3>2
      <4>2. r.inode[i].size = 0 \/ (i \in img.inode_bitmap /\ r.inode[i] = img.inode[i])
        BY <2>2, <4>1 DEF Created
      <4> QED BY <1>0, <3>2, <4>2, Sizes DEF SizesFit
    <3> QED BY <3>1, <3>2
  <2>5. HandlesFit(handles, r)
    BY <1>0, <2>3 DEF HandlesFit
  <2>6. r.fault = "none" => Right(r) /\ Directory(r) /\ HandlesFit(hs, r)
    <3> SUFFICES ASSUME r.fault = "none" PROVE Right(r) /\ Directory(r) /\ HandlesFit(hs, r)
      OBVIOUS
    <3>1. Right(r) /\ Directory(r) /\ Find(r, n) \in r.inode_bitmap \ {Root}
      BY <2>2 DEF Created
    <3>2. HandlesFit(WithHandle(h, FileHandle(Find(r, n))), r)
      BY <1>0, <2>3, <3>1, HandleFits
    <3> QED BY <3>1, <3>2
  <2>7. r.fault # "none" => Explained(r, handles)
    <3> SUFFICES ASSUME r.fault # "none" PROVE Explained(r, handles)
      OBVIOUS
    <3>1. (r.fault = "alloc" /\ r.inode_bitmap = Inodes) \/ GrowFault(r, Root)
      BY <2>2 DEF Created
    <3>2. Root \in DOMAIN r.inode
      BY <1>0, <2>3 DEF Directory
    <3> QED BY <3>1, <3>2 DEF GrowFault, Explained, Short
  <2> HIDE DEF hs
  <2>8. Possible(r, handles, hs)
    BY <2>3, <2>4, <2>5, <2>6, <2>7 DEF Possible
  <2> QED BY <1>0, <2>1, <2>8, CompleteKeeps
<1> QED BY <1>1, <1>2

\* open without CREATE keeps the invariant.
LEMMA OpenKeeps ==
  ASSUME FsInv, NEW h \in Handles, NEW n \in Names, NEW trunc \in BOOLEAN, Open(h, n, trunc)
  PROVE  FsInv'
<1>0. /\ Running /\ Right(img) /\ Directory(img) /\ DOMAIN img.inode = img.inode_bitmap
      /\ SizesFit(img) /\ HandlesFit(handles, img) /\ img \in Images /\ img.fault = "none"
  BY DEF FsInv, Open, Right
<1> DEFINE ino == Find(img, n)
           im == IF trunc THEN Clear(img, ino) ELSE img
           hs == WithHandle(h, FileHandle(ino))
<1>1. Exists(img, n) /\ Complete(im, hs)
  BY DEF Open
<1>2. ino \in img.inode_bitmap \ {Root}
  BY <1>0, <1>1, FindIs
<1> HIDE DEF ino
<1>3. HandlesFit(hs, img)
  BY <1>0, <1>2, HandleFits
<1> HIDE DEF hs
<1>4. Possible(im, handles, hs)
  <2>1. Possible(Clear(img, ino), handles, hs)
    BY <1>0, <1>2, <1>3, ClearPossible
  <2>2. Possible(img, handles, hs)
    BY <1>0, <1>3 DEF Possible
  <2> QED BY <2>1, <2>2
<1> HIDE DEF im
<1> QED BY <1>0, <1>1, <1>4, CompleteKeeps

\* The offset of one open file moves.
LEMMA OffsetMoves ==
  ASSUME HandlesFit(handles, img), NEW h \in DOMAIN handles, NEW offset \in 0 .. MaxSize
  PROVE  LET hs == [handles EXCEPT ![h].offset = offset]
         IN HandlesFit(hs, img)
<1> DEFINE hs == [handles EXCEPT ![h].offset = offset]
           Files == [inode : Inodes, offset : 0 .. MaxSize]
<1>1. PICK S \in SUBSET Handles : handles \in [S -> Files]
  BY DEF HandlesFit, OpenFiles
<1>2. handles[h] \in Files /\ h \in S
  BY <1>1
<1> DEFINE f == [handles[h] EXCEPT !.offset = offset]
<1>3. f \in Files /\ f.inode = handles[h].inode
  BY <1>2
<1>4. hs = [handles EXCEPT ![h] = f]
  BY <1>1
<1> HIDE DEF f, Files
<1>5. hs \in [S -> Files] /\ \A g \in S : hs[g] = f \/ hs[g] = handles[g]
  BY <1>1, <1>3, <1>4
<1>6. \A g \in S : hs[g].inode \in img.inode_bitmap \ {Root}
  <2>1. \A g \in S : hs[g].inode = handles[g].inode
    BY <1>1, <1>3, <1>4
  <2> QED BY <1>1, <2>1 DEF HandlesFit
<1> HIDE DEF hs
<1>7. hs \in OpenFiles
  BY <1>5 DEF OpenFiles, Files
<1>8. HandlesFit(hs, img)
  BY <1>5, <1>6, <1>7 DEF HandlesFit
<1> QED BY <1>8 DEF hs

\* What is known of a handle while the kernel runs.
LEMMA OpenFile ==
  ASSUME FsInv, Running, NEW h \in DOMAIN handles
  PROVE  /\ Right(img) /\ Directory(img) /\ DOMAIN img.inode = img.inode_bitmap
         /\ SizesFit(img) /\ HandlesFit(handles, img) /\ img \in Images /\ img.fault = "none"
         /\ handles[h].inode \in img.inode_bitmap \ {Root}
         /\ handles[h].offset \in 0 .. MaxSize /\ handles[h].offset \in Nat
         /\ img.inode[handles[h].inode].size \in Nat
         /\ img.inode[handles[h].inode].size <= MaxSize
<1>1. /\ Right(img) /\ Directory(img) /\ DOMAIN img.inode = img.inode_bitmap
      /\ SizesFit(img) /\ HandlesFit(handles, img) /\ img \in Images /\ img.fault = "none"
  BY DEF FsInv, Right
<1>2. handles[h].inode \in img.inode_bitmap \ {Root}
  BY <1>1 DEF HandlesFit
<1>3. handles[h].offset \in 0 .. MaxSize
  <2>1. PICK S \in SUBSET Handles : handles \in [S -> [inode : Inodes, offset : 0 .. MaxSize]]
    BY <1>1 DEF HandlesFit, OpenFiles
  <2> QED BY <2>1
<1>4. img.inode[handles[h].inode].size \in Nat /\ img.inode[handles[h].inode].size <= MaxSize
  BY <1>1, <1>2, ImageParts DEF SizesFit
<1> QED BY <1>1, <1>2, <1>3, <1>4, Sizes

\* read keeps the invariant.
LEMMA ReadKeeps ==
  ASSUME FsInv, NEW h, NEW len \in Nat, Read(h, len)
  PROVE  FsInv'
<1> DEFINE ino == handles[h].inode
           offset == handles[h].offset
           size == img.inode[ino].size
           cells == ReadAt(img, img.inode[ino], offset, len)
           n == IF offset + len <= size THEN len ELSE size - offset
           m == IF n < 0 THEN 0 ELSE n
<1>0. Running /\ h \in DOMAIN handles /\ UNCHANGED <<img, disk, view>>
  BY DEF Read
<1>1. /\ Right(img) /\ Directory(img) /\ DOMAIN img.inode = img.inode_bitmap
      /\ SizesFit(img) /\ HandlesFit(handles, img) /\ img \in Images /\ img.fault = "none"
      /\ ino \in img.inode_bitmap \ {Root} /\ offset \in Nat /\ offset <= MaxSize
      /\ size \in Nat /\ size <= MaxSize
  BY <1>0, OpenFile
<1>2. /\ Bad \in ToSet(cells) => machine' = "device" /\ UNCHANGED handles
      /\ Bad \notin ToSet(cells) =>
           handles' = [handles EXCEPT ![h].offset = @ + Len(cells)] /\ UNCHANGED machine
  BY DEF Read
<1>3. cells = [j \in 1 .. n |-> Byte(img, ino, offset + j - 1)]
  <2> HIDE DEF ino, offset
  <2>1. ino \in DOMAIN img.inode
    BY <1>1
  <2>2. ReadsAs(ReadAt(img, img.inode[ino], offset, len), img, ino, offset, len)
    BY <1>1, <2>1, ReadAtDoes
  <2> QED BY <2>2 DEF ReadsAs
<1> HIDE DEF cells, ino, offset, size
<1>4. m \in Nat /\ 1 .. n = 1 .. m /\ offset + m \in 0 .. MaxSize
  BY <1>1, Sizes
<1>5. Len(cells) = m /\ DOMAIN cells = 1 .. m /\ \A j \in 1 .. m : cells[j] = Byte(img, ino, offset + j - 1)
  <2> HIDE DEF n, m
  <2>1. cells = [j \in 1 .. m |-> Byte(img, ino, offset + j - 1)]
    BY <1>3, <1>4
  <2>2. Len(cells) = m
    BY <1>4, <2>1
  <2> QED BY <2>1, <2>2
<1>6. CASE Bad \notin ToSet(cells)
  <2>1. handles' = [handles EXCEPT ![h].offset = offset + m] /\ machine' = machine
    BY <1>2, <1>5, <1>6 DEF offset
  <2>2. HandlesFit(handles', img)
    <3> HIDE DEF m
    <3> QED BY <1>0, <1>1, <1>4, <2>1, OffsetMoves
  <2>3. machine' = "running" /\ Running'
    BY <1>0, <2>1 DEF Running
  <2>4. PanicsExplained'
    BY <2>3 DEF PanicsExplained
  <2> QED BY <1>0, <2>2, <2>3, <2>4 DEF FsInv
<1>7. CASE Bad \in ToSet(cells)
  <2>1. PICK j \in 1 .. m : Byte(img, ino, offset + j - 1) = Bad
    BY <1>5, <1>7 DEF ToSet
  <2> DEFINE o == offset + j - 1
             b == Ptr(img, ino, DataPlace(o \div BlockSize))
  <2>2. o \in Nat /\ o < size
    BY <1>1
  <2>3. b - DataAreaStart \in img.data_bitmap /\ b \in Int /\ o % BlockSize \in Cells
    BY <1>1, <2>2, BytesAreApart, BlockAndPosition DEF size
  <2>4. Cell(img, b, o % BlockSize) = Bad
    BY <2>1 DEF Byte
  <2> HIDE DEF b, o
  <2>5. b \notin OnDevice
    BY <1>1, <2>3, <2>4, CellIs
  <2>6. DataAreaStart + (b - DataAreaStart) = b
    BY <2>3, Layout
  <2>7. \E d \in img.data_bitmap : DataAreaStart + d \notin DataArea
    BY <2>3, <2>5, <2>6 DEF OnDevice
  <2>8. machine' = "device" /\ handles' = handles /\ img' = img
    BY <1>0, <1>2, <1>7
  <2>9. PanicsExplained' /\ ~Running'
    BY <2>7, <2>8 DEF PanicsExplained, Running
  <2> QED BY <1>0, <1>1, <2>8, <2>9 DEF FsInv
<1> QED BY <1>6, <1>7

\* write keeps the invariant.
LEMMA WriteKeeps ==
  ASSUME FsInv, NEW h, NEW buf \in Buffers, Write(h, buf)
  PROVE  FsInv'
<1> DEFINE ino == handles[h].inode
           offset == handles[h].offset
           r == WriteFile(img, ino, offset, buf)
           hs == [handles EXCEPT ![h].offset = offset + Len(buf)]
<1>0. Running /\ h \in DOMAIN handles /\ offset + Len(buf) <= MaxSize /\ Complete(r, hs)
  BY DEF Write
<1>1. /\ Right(img) /\ Directory(img) /\ DOMAIN img.inode = img.inode_bitmap
      /\ SizesFit(img) /\ HandlesFit(handles, img) /\ img \in Images /\ img.fault = "none"
      /\ ino \in img.inode_bitmap \ {Root} /\ offset \in Nat
      /\ img.inode[ino].size \in Nat /\ img.inode[ino].size <= MaxSize
  BY <1>0, OpenFile
<1>2. buf \in Seq(Nat) /\ Len(buf) \in Nat
  BY CellAssumption
<1>3. Stored(r, img, ino, offset, buf)
  <2> HIDE DEF ino, offset
  <2> QED BY <1>1, <1>2, WriteFileDoes
<1>4. HandlesFit(hs, img)
  <2>1. offset + Len(buf) \in 0 .. MaxSize
    BY <1>0, <1>1, <1>2, Sizes
  <2> HIDE DEF offset
  <2> QED BY <1>0, <1>1, <2>1, OffsetMoves
<1> HIDE DEF r, hs, ino, offset
<1>5. /\ r \in Images /\ r.inode_bitmap = img.inode_bitmap /\ DOMAIN r.inode = DOMAIN img.inode
      /\ \A i \in DOMAIN img.inode : i # ino => r.inode[i] = img.inode[i]
      /\ r.inode[ino].size \in {img.inode[ino].size, offset + Len(buf)}
  BY <1>3 DEF Stored
<1>6. SizesFit(r)
  BY <1>0, <1>1, <1>5 DEF SizesFit
<1>7. HandlesFit(hs, r) /\ HandlesFit(handles, r)
  BY <1>1, <1>4, <1>5 DEF HandlesFit
<1>8. ASSUME r.fault = "none" PROVE Right(r) /\ Directory(r)
  <2>1. /\ Right(r)
        /\ \A o \in Nat : o < img.inode[Root].size => Byte(r, Root, o) = Byte(img, Root, o)
    BY <1>1, <1>3, <1>8 DEF Stored, Directory
  <2>2. r.inode[Root].size = img.inode[Root].size /\ img.inode[Root].size \in Nat
    BY <1>1, <1>5, ImageParts DEF Directory
  <2> QED BY <1>1, <1>5, <2>1, <2>2, DirectoryStays
<1>9. ASSUME r.fault # "none" PROVE Explained(r, handles)
  <2>1. GrowFault(r, ino) \/ (r.fault = "dangling" /\ Dangling(r, ino, offset))
    BY <1>3, <1>9 DEF Stored
  <2>2. CASE GrowFault(r, ino)
    BY <1>1, <1>5, <2>2 DEF GrowFault, Explained, Short
  <2>3. CASE r.fault = "dangling" /\ Dangling(r, ino, offset)
    BY <1>0, <2>3 DEF Explained, ino, offset
  <2> QED BY <2>1, <2>2, <2>3
<1>10. Possible(r, handles, hs)
  BY <1>1, <1>5, <1>6, <1>7, <1>8, <1>9 DEF Possible
<1> QED BY <1>0, <1>10, CompleteKeeps

\* Without a panic, what is explained is explained.
LEMMA RunningIsExplained ==
  ASSUME Running, UNCHANGED machine
  PROVE  PanicsExplained' /\ Running' /\ machine' = "running"
BY DEF Running, PanicsExplained

\* close keeps the invariant.
LEMMA CloseKeeps ==
  ASSUME FsInv, NEW h, Close(h)
  PROVE  FsInv'
<1>0. Running /\ UNCHANGED <<img, disk, machine, view>> /\ HandlesFit(handles, img)
      /\ handles' = [g \in DOMAIN handles \ {h} |-> handles[g]]
  BY DEF Close, FsInv
<1>1. PICK S \in SUBSET Handles : handles \in [S -> [inode : Inodes, offset : 0 .. MaxSize]]
  BY <1>0 DEF HandlesFit, OpenFiles
<1>2. /\ handles' \in [S \ {h} -> [inode : Inodes, offset : 0 .. MaxSize]]
      /\ \A g \in S \ {h} : handles'[g] = handles[g]
  BY <1>0, <1>1
<1>3. HandlesFit(handles', img)
  <2>1. handles' \in OpenFiles
    BY <1>2 DEF OpenFiles
  <2> QED BY <1>0, <1>1, <1>2, <2>1 DEF HandlesFit
<1> QED BY <1>0, <1>3, RunningIsExplained DEF FsInv

\* fork keeps the invariant.
LEMMA ForkKeeps ==
  ASSUME FsInv, NEW h, NEW copy \in Handles, Fork(h, copy)
  PROVE  FsInv'
<1>0. Running /\ UNCHANGED <<img, disk, machine, view>> /\ HandlesFit(handles, img)
      /\ h \in DOMAIN handles /\ handles' = WithHandle(copy, handles[h])
  BY DEF Fork, FsInv
<1>1. handles[h] \in [inode : Inodes, offset : 0 .. MaxSize] /\ handles[h].inode \in img.inode_bitmap \ {Root}
  BY <1>0 DEF HandlesFit, OpenFiles
<1>2. /\ handles' \in OpenFiles
      /\ \A g \in DOMAIN handles' :
           handles'[g] = handles[h] \/ (g \in DOMAIN handles /\ handles'[g] = handles[g])
  <2> DEFINE f == handles[h]
  <2> HIDE DEF f
  <2>1. f \in [inode : Inodes, offset : 0 .. MaxSize] /\ handles \in OpenFiles
    BY <1>0, <1>1 DEF HandlesFit, f
  <2>2. /\ WithHandle(copy, f) \in OpenFiles
        /\ \A g \in DOMAIN WithHandle(copy, f) :
             WithHandle(copy, f)[g] = f \/ (g \in DOMAIN handles /\ WithHandle(copy, f)[g] = handles[g])
    BY <2>1, HandleAdded
  <2> QED BY <1>0, <2>2 DEF f
<1>3. HandlesFit(handles', img)
  BY <1>0, <1>1, <1>2 DEF HandlesFit
<1> QED BY <1>0, <1>3, RunningIsExplained DEF FsInv

\* A restart keeps the invariant: the device shows what the kernel worked on.
LEMMA RestartKeeps ==
  ASSUME FsInv, Restart
  PROVE  FsInv'
<1>1. Running /\ img' = img /\ handles' = <<>> /\ UNCHANGED <<disk, machine>>
  BY DEF Restart, FsInv
<1>2. HandlesFit(<<>>, img)
  <2>1. <<>> = [h \in {} |-> h]
    OBVIOUS
  <2>2. DOMAIN <<>> = {} /\ <<>> \in [{} -> [inode : Inodes, offset : 0 .. MaxSize]]
    BY <2>1
  <2> QED BY <2>2 DEF HandlesFit, OpenFiles
<1> QED BY <1>1, <1>2, RunningIsExplained DEF FsInv

\* FsInv is inductive.
THEOREM FsInvariant == Spec => []FsInv
<1>1. Init => FsInv
  <2> SUFFICES ASSUME Init PROVE FsInv
    OBVIOUS
  <2>1. img = Formatted /\ disk = Formatted /\ handles = <<>> /\ machine = "running"
    BY DEF Init
  <2>2. Possible(img, handles, handles) /\ img.fault = "none"
    BY <2>1, FormattedIs
  <2>3. PanicsExplained
    BY <2>1 DEF PanicsExplained
  <2> QED BY <2>1, <2>2, <2>3 DEF FsInv, Possible
<1>2. FsInv /\ [Next]_vars => FsInv'
  <2> SUFFICES ASSUME FsInv, [Next]_vars PROVE FsInv'
    OBVIOUS
  <2>1. ASSUME NEW h \in Handles, NEW n \in Names, OpenCreate(h, n) PROVE FsInv'
    BY <2>1, OpenCreateKeeps
  <2>2. ASSUME NEW h \in Handles, NEW n \in Names, NEW trunc \in BOOLEAN, Open(h, n, trunc) PROVE FsInv'
    BY <2>2, OpenKeeps
  <2>3. ASSUME NEW h \in Handles, NEW buf \in Buffers, Read(h, Len(buf)) PROVE FsInv'
    <3>1. Len(buf) \in Nat
      BY CellAssumption
    <3> QED BY <2>3, <3>1, ReadKeeps
  <2>4. ASSUME NEW h \in Handles, NEW buf \in Buffers, Write(h, buf) PROVE FsInv'
    BY <2>4, WriteKeeps
  <2>5. ASSUME NEW h \in Handles, NEW copy \in Handles, Fork(h, copy) PROVE FsInv'
    BY <2>5, ForkKeeps
  <2>6. ASSUME NEW h \in Handles, Close(h) PROVE FsInv'
    BY <2>6, CloseKeeps
  <2>7. CASE Restart
    BY <2>7, RestartKeeps
  <2>8. CASE UNCHANGED vars \/ Halted
    BY <2>8 DEF Halted, vars, FsInv, Running, PanicsExplained
  <2> QED BY <2>1, <2>2, <2>3, <2>4, <2>5, <2>6, <2>7, <2>8, Zenon DEF Next
<1> QED BY <1>1, <1>2, PTL DEF Spec

\* The parts of the state have their types.
LEMMA Typed == FsInv => TypeOK
<1> SUFFICES ASSUME FsInv PROVE TypeOK
  OBVIOUS
<1>1. /\ img \in Images /\ DOMAIN img.inode = img.inode_bitmap /\ SizesFit(img)
      /\ HandlesFit(handles, img)
      /\ machine \in {"running", "alloc", "device", "dangling", "index", "assert"}
  BY DEF FsInv
<1>2. /\ img.inode_bitmap \subseteq Inodes /\ img.data_bitmap \subseteq DataBits
      /\ \A b \in DOMAIN img.block : img.block[b] \in [Cells -> Nat]
      /\ \A i \in DOMAIN img.inode : img.inode[i] \in InodeRecords /\ img.inode[i].size \in Nat
  BY <1>1, ImageParts
<1>3. \A i \in DOMAIN img.inode : img.inode[i] \in DiskInodes
  <2> SUFFICES ASSUME NEW i \in DOMAIN img.inode PROVE img.inode[i] \in DiskInodes
    OBVIOUS
  <2>1. img.inode[i].size <= MaxInodeSize
    BY <1>1, <1>2, MaxSizeIs, Sizes DEF SizesFit
  <2>2. img.inode[i].size \in 0 .. MaxInodeSize
    BY <1>2, <2>1, MaxSizeIs
  <2> QED BY <1>2, <2>2 DEF InodeRecords, DiskInodes
<1>4. PICK S \in SUBSET Handles : handles \in [S -> [inode : Inodes, offset : 0 .. MaxSize]]
  BY <1>1 DEF HandlesFit, OpenFiles
<1>5. /\ DOMAIN handles \subseteq Handles
      /\ \A h \in DOMAIN handles : handles[h].inode \in DOMAIN img.inode /\ handles[h].offset \in 0 .. MaxSize
  BY <1>1, <1>4 DEF HandlesFit
<1> QED BY <1>1, <1>2, <1>3, <1>5 DEF TypeOK

\* The places that are listed are the places that hold pointers.
LEMMA PlacesAre ==
  ASSUME NEW n \in Nat
  PROVE  ToSet(Places(0, n)) = PlaceSet(n)
<1> DEFINE s == Places(0, n)
<1>1. Lists(s, 0, n)
  BY PlacesLists
<1> HIDE DEF s
<1>2. s \in Seq(AllPlaces) /\ DOMAIN s = 1 .. Len(s) /\ \A i \in 1 .. Len(s) : s[i] \in AllPlaces
  <2>1. s \in Seq(AllPlaces)
    BY <1>1 DEF Lists
  <2> QED BY <2>1
<1>3. \A p \in AllPlaces : (\E i \in 1 .. Len(s) : s[i] = p) <=> (0 <= Born(p) /\ Born(p) < n)
  BY <1>1 DEF Lists
<1>4. \A p \in AllPlaces : Born(p) \in Nat
  BY HolderFacts
<1>5. ToSet(s) = {s[i] : i \in 1 .. Len(s)}
  BY <1>2 DEF ToSet
<1>6. \A p \in PlaceSet(n) : p \in ToSet(s)
  BY <1>3, <1>4, <1>5 DEF PlaceSet
<1>7. \A p \in ToSet(s) : p \in PlaceSet(n)
  BY <1>2, <1>3, <1>4, <1>5 DEF PlaceSet
<1> QED BY <1>6, <1>7 DEF s

\* Whatever the sizes of the device and the names, buffers and handles: while the
\* kernel runs, the data bitmap marks exactly the blocks that inodes point to, and no
\* block is pointed to twice.
THEOREM BlocksStayAccounted == Spec => []BlocksAccounted
<1>1. FsInv => BlocksAccounted
  <2> SUFFICES ASSUME FsInv PROVE BlocksAccounted
    OBVIOUS
  <2> DEFINE PlacesIn(i) == ToSet(Places(0, DataBlocks(img.inode[i].size)))
             P == Held(img)
  <2>1. ASSUME Running
        PROVE  /\ UNION {{PointerAt(img, img.inode[i], p) : p \in PlacesIn(i)} : i \in DOMAIN img.inode}
                    = {DataAreaStart + d : d \in img.data_bitmap}
               /\ \A i, j \in DOMAIN img.inode : \A a \in PlacesIn(i), b \in PlacesIn(j) :
                    PointerAt(img, img.inode[i], a) = PointerAt(img, img.inode[j], b) => i = j /\ a = b
    <3>1. Right(img) /\ img \in Images
      BY <2>1 DEF FsInv
    <3>2. \A i \in DOMAIN img.inode : img.inode[i].size \in Nat
      BY <3>1, ImageParts
    <3>3. \A i \in DOMAIN img.inode : PlacesIn(i) = P[i]
      BY <3>2, PlacesAre, DataBlocksOf DEF Held
    <3>4. /\ \A i \in DOMAIN img.inode : \A p \in P[i] :
               Ptr(img, i, p) \in Int /\ Ptr(img, i, p) - DataAreaStart \in img.data_bitmap
          /\ \A i, j \in DOMAIN img.inode : \A p \in P[i], q \in P[j] :
               Ptr(img, i, p) = Ptr(img, j, q) => i = j /\ p = q
          /\ \A d \in img.data_bitmap : \E i \in DOMAIN img.inode : \E p \in P[i] : Ptr(img, i, p) = DataAreaStart + d
      BY <3>1 DEF Right, Good
    <3> HIDE DEF P, PlacesIn
    <3>5. \A i \in DOMAIN img.inode : \A p \in P[i] :
            \E d \in img.data_bitmap : Ptr(img, i, p) = DataAreaStart + d
      <4> SUFFICES ASSUME NEW i \in DOMAIN img.inode, NEW p \in P[i]
                   PROVE \E d \in img.data_bitmap : Ptr(img, i, p) = DataAreaStart + d
        OBVIOUS
      <4>1. Ptr(img, i, p) \in Int /\ Ptr(img, i, p) - DataAreaStart \in img.data_bitmap
        BY <3>4
      <4>2. Ptr(img, i, p) = DataAreaStart + (Ptr(img, i, p) - DataAreaStart)
        BY <4>1, Layout
      <4> QED BY <4>1, <4>2
    <3>6. UNION {{PointerAt(img, img.inode[i], p) : p \in PlacesIn(i)} : i \in DOMAIN img.inode}
            = {DataAreaStart + d : d \in img.data_bitmap}
      <4> DEFINE L == UNION {{PointerAt(img, img.inode[i], p) : p \in PlacesIn(i)} : i \in DOMAIN img.inode}
                 M == {DataAreaStart + d : d \in img.data_bitmap}
      <4>1. ASSUME NEW x \in L PROVE x \in M
        BY <3>3, <3>5 DEF Ptr
      <4>2. ASSUME NEW x \in M PROVE x \in L
        BY <3>3, <3>4 DEF Ptr
      <4> QED BY <4>1, <4>2
    <3>7. \A i, j \in DOMAIN img.inode : \A a \in PlacesIn(i), b \in PlacesIn(j) :
            PointerAt(img, img.inode[i], a) = PointerAt(img, img.inode[j], b) => i = j /\ a = b
      BY <3>3, <3>4 DEF Ptr
    <3> QED BY <3>6, <3>7
  <2>2. TypeOK
    BY Typed
  <2> QED BY <2>1, <2>2 DEF BlocksAccounted
<1> QED BY <1>1, FsInvariant, PTL

\* Every file has one name, and every name one file, however many of each.
THEOREM InodesStayNamed == Spec => []InodesNamed
<1>1. FsInv => InodesNamed
  <2> SUFFICES ASSUME FsInv, Running
               PROVE /\ {[e \in 0 .. FileCount(img) - 1 |-> Entry(img, e)][i][2] : i \in 0 .. FileCount(img) - 1}
                          = img.inode_bitmap \ {Root}
                     /\ \A i, j \in 0 .. FileCount(img) - 1 : i # j =>
                          Entry(img, i)[1] # Entry(img, j)[1] /\ Entry(img, i)[2] # Entry(img, j)[2]
    BY DEF InodesNamed
  <2>1. Right(img) /\ Directory(img)
    BY DEF FsInv
  <2>2. EntryIds(img) = 0 .. FileCount(img) - 1
    BY DEF EntryIds
  <2>3. \A i \in EntryIds(img) : Entry(img, i)[1] = EntryName(img, i) /\ Entry(img, i)[2] = EntryNumber(img, i)
    BY <2>1, EntryIs
  <2>4. /\ \A i \in EntryIds(img) : EntryNumber(img, i) \in img.inode_bitmap \ {Root}
        /\ \A i, j \in EntryIds(img) : i # j =>
             EntryName(img, i) # EntryName(img, j) /\ EntryNumber(img, i) # EntryNumber(img, j)
        /\ \A ino \in img.inode_bitmap \ {Root} : \E i \in EntryIds(img) : EntryNumber(img, i) = ino
    BY <2>1 DEF Directory
  <2> QED BY <2>2, <2>3, <2>4
<1> QED BY <1>1, FsInvariant, PTL

\* The assertions and unwraps of the file system hold, and each panic has one of the
\* known reasons, on a device of any size.
THEOREM FilePanicsExplained == Spec => []PanicsExplained
<1>1. FsInv => PanicsExplained
  BY DEF FsInv
<1> QED BY <1>1, FsInvariant, PTL
----------------------------------------------------------------------------
\* What programs see of an image: the map that FileStore promises.

\* A cell as a program sees it, and so a file.
Clean(x) == IF x = Bad THEN 0 ELSE x
Shown(im, i) == [j \in 1 .. im.inode[i].size |-> Clean(Byte(im, i, j - 1))]

NamesIn(im) == {n \in Names : Exists(im, n)}
Files(im) == [n \in NamesIn(im) |-> Shown(im, Find(im, n))]

\* The map that the mapping of `Store` makes of a view, with the open files by name.
MapOf(v) == [n \in DOMAIN v |-> Readable(v[n].contents)]
NameOf(v, ino) == CHOOSE n \in DOMAIN v : v[n].inode = ino
OpenOf(v, hs) == [h \in DOMAIN hs |-> [name |-> NameOf(v, hs[h].inode), offset |-> hs[h].offset]]

\* What the view has of each name: its inode, and all bytes of it.
LEMMA ViewIs ==
  ASSUME NEW im, Right(im), Directory(im)
  PROVE  /\ DOMAIN View(im) = NamesIn(im)
         /\ \A n \in NamesIn(im) : View(im)[n].inode = Find(im, n)
         /\ MapOf(View(im)) = Files(im)
<1>1. DOMAIN View(im) = NamesIn(im)
      /\ \A n \in NamesIn(im) : View(im)[n] = [inode |-> Find(im, n), contents |-> Contents(im, Find(im, n))]
  BY DEF View, NamesIn
<1>2. ASSUME NEW n \in NamesIn(im)
      PROVE  Readable(Contents(im, Find(im, n))) = Shown(im, Find(im, n))
  <2> DEFINE i == Find(im, n)
             size == im.inode[i].size
  <2>1. i \in DOMAIN im.inode
    BY FindIs DEF NamesIn, Right
  <2>2. size \in Nat
    BY <2>1, ImageParts DEF Right
  <2> HIDE DEF i
  <2>3. ReadsAs(ReadAt(im, im.inode[i], 0, size), im, i, 0, size)
    BY <2>1, <2>2, ReadAtDoes
  <2>4. Contents(im, i) = [j \in 1 .. size |-> Byte(im, i, j - 1)]
    <3>1. 0 + size <= size
      BY <2>2
    <3>2. \A j \in 1 .. size : 0 + j - 1 = j - 1
      OBVIOUS
    <3> HIDE DEF size
    <3>3. ReadAt(im, im.inode[i], 0, size) = [j \in 1 .. size |-> Byte(im, i, 0 + j - 1)]
      BY <2>3, <3>1 DEF ReadsAs, size
    <3>4. Contents(im, i) = ReadAt(im, im.inode[i], 0, size)
      BY DEF Contents, size
    <3> QED BY <3>2, <3>3, <3>4
  <2> DEFINE c == Contents(im, i)
  <2>5. DOMAIN c = 1 .. size /\ \A j \in 1 .. size : c[j] = Byte(im, i, j - 1)
    BY <2>4
  <2> HIDE DEF size, c
  <2>6. Readable(c) = [j \in 1 .. size |-> Clean(Byte(im, i, j - 1))]
    BY <2>5 DEF Readable, Clean
  <2> QED BY <2>6 DEF Shown, size, i, c
<1>3. \A n \in NamesIn(im) : Readable(View(im)[n].contents) = Shown(im, Find(im, n))
  BY <1>1, <1>2
<1>4. MapOf(View(im)) = Files(im)
  BY <1>1, <1>3 DEF MapOf, Files
<1> QED BY <1>1, <1>4

\* Every inode in use but the root's has one name.
LEMMA NameIs ==
  ASSUME NEW im, Right(im), Directory(im), NEW ino \in im.inode_bitmap \ {Root}
  PROVE  /\ NameOf(View(im), ino) \in NamesIn(im)
         /\ \A n \in NamesIn(im) : Find(im, n) = ino <=> n = NameOf(View(im), ino)
<1>1. PICK i \in EntryIds(im) : EntryNumber(im, i) = ino
  BY DEF Directory
<1>2. EntryName(im, i) \in Names
  BY DEF Directory
<1>3. EntryName(im, i) \in NamesIn(im) /\ Find(im, EntryName(im, i)) = ino
  BY <1>1, <1>2, FindIs DEF NamesIn
<1>4. ASSUME NEW n \in NamesIn(im), NEW m \in NamesIn(im), Find(im, n) = Find(im, m) PROVE n = m
  <2>1. PICK a \in EntryIds(im) : EntryName(im, a) = n
    BY FindIs DEF NamesIn
  <2>2. PICK b \in EntryIds(im) : EntryName(im, b) = m
    BY FindIs DEF NamesIn
  <2>3. EntryNumber(im, a) = EntryNumber(im, b)
    BY <1>4, <2>1, <2>2, FindIs
  <2> QED BY <2>1, <2>2, <2>3 DEF Directory
<1>5. DOMAIN View(im) = NamesIn(im) /\ \A n \in NamesIn(im) : View(im)[n].inode = Find(im, n)
  BY ViewIs
<1>6. \E n \in DOMAIN View(im) : View(im)[n].inode = ino
  BY <1>3, <1>5
<1>7. NameOf(View(im), ino) \in NamesIn(im) /\ Find(im, NameOf(View(im), ino)) = ino
  BY <1>5, <1>6 DEF NameOf
<1> QED BY <1>4, <1>7

\* Two names are of two inodes.
LEMMA NamesDiffer ==
  ASSUME NEW im, Right(im), Directory(im), NEW n \in NamesIn(im), NEW m \in NamesIn(im), n # m
  PROVE  /\ Find(im, n) # Find(im, m)
         /\ Find(im, n) \in im.inode_bitmap \ {Root} /\ Find(im, n) \in DOMAIN im.inode
         /\ NameOf(View(im), Find(im, n)) = n
<1>1. Find(im, n) \in im.inode_bitmap \ {Root} /\ DOMAIN im.inode = im.inode_bitmap
  BY FindIs DEF NamesIn, Right
<1> QED BY <1>1, NameIs

\* The names keep their inodes; there may be more of them.
NamesKept(im, r) ==
  NamesIn(im) \subseteq NamesIn(r) /\ \A n \in NamesIn(im) : Find(r, n) = Find(im, n)

\* They do when the bytes of the directory stay.
LEMMA NamesStay ==
  ASSUME NEW im, Right(im), Directory(im), NEW r, Right(r), Directory(r),
         r.inode[Root].size = im.inode[Root].size,
         \A o \in Nat : o < im.inode[Root].size => Byte(r, Root, o) = Byte(im, Root, o)
  PROVE  NamesKept(im, r) /\ NamesIn(r) = NamesIn(im)
<1>0. DirentSize = 2 /\ FileCount(im) \in Nat /\ im.inode[Root].size = 2 * FileCount(im)
  BY DirectoryFits, Sizes DEF Directory
<1>1. EntryIds(r) = EntryIds(im)
  BY DEF FileCount, EntryIds
<1>2. \A i \in EntryIds(im) : EntryName(r, i) = EntryName(im, i) /\ EntryNumber(r, i) = EntryNumber(im, i)
  <2> DEFINE m == FileCount(im)
  <2>1. \A i \in EntryIds(im) : 2 * i \in Nat /\ 2 * i + 1 \in Nat /\ 2 * i < 2 * m /\ 2 * i + 1 < 2 * m
    BY <1>0 DEF EntryIds
  <2> HIDE DEF m
  <2> QED BY <1>0, <2>1 DEF EntryName, EntryNumber, m
<1>3. \A n : Exists(r, n) <=> Exists(im, n)
  BY <1>1, <1>2, FindIs
<1>4. ASSUME NEW n, Exists(im, n) PROVE Find(r, n) = Find(im, n)
  <2>1. PICK i \in EntryIds(im) : EntryName(im, i) = n
    BY <1>4, FindIs
  <2>2. Find(im, n) = EntryNumber(im, i)
    BY <2>1, FindIs
  <2>3. Find(r, n) = EntryNumber(r, i)
    BY <1>1, <1>2, <2>1, FindIs
  <2> QED BY <1>2, <2>2, <2>3
<1> QED BY <1>3, <1>4 DEF NamesKept, NamesIn

\* Then the open files keep their names.
LEMMA OpenStays ==
  ASSUME NEW im, Right(im), Directory(im), NEW r, Right(r), Directory(r), NamesKept(im, r),
         NEW hs, HandlesFit(hs, im)
  PROVE  OpenOf(View(r), hs) = OpenOf(View(im), hs)
<1>1. ASSUME NEW h \in DOMAIN hs PROVE NameOf(View(r), hs[h].inode) = NameOf(View(im), hs[h].inode)
  <2> DEFINE ino == hs[h].inode
             n == NameOf(View(im), ino)
  <2>1. ino \in im.inode_bitmap \ {Root}
    BY DEF HandlesFit
  <2>2. n \in NamesIn(im) /\ Find(im, n) = ino
    BY <2>1, NameIs
  <2>3. n \in NamesIn(r) /\ Find(r, n) = ino
    BY <2>2 DEF NamesKept
  <2>4. ino \in r.inode_bitmap \ {Root}
    BY <2>3, FindIs DEF NamesIn
  <2> HIDE DEF ino, n
  <2>5. n = NameOf(View(r), ino)
    BY <2>3, <2>4, NameIs
  <2> QED BY <2>5 DEF n, ino
<1> QED BY <1>1 DEF OpenOf

\* One open file more.
LEMMA OneMoreOpen ==
  ASSUME NEW v, NEW h, NEW f, NEW n, NameOf(v, f.inode) = n
  PROVE  OpenOf(v, WithHandle(h, f)) = Store!With(OpenOf(v, handles), h, [name |-> n, offset |-> f.offset])
BY DEF OpenOf, WithHandle, Store!With

\* One file shows something else.
LEMMA OneFileShows ==
  ASSUME NEW im, NEW r, NEW n, NEW c, NamesIn(r) = NamesIn(im) \cup {n}, Shown(r, Find(r, n)) = c,
         \A m \in NamesIn(im) \ {n} : Shown(r, Find(r, m)) = Shown(im, Find(im, m))
  PROVE  Files(r) = Store!With(Files(im), n, c)
BY DEF Files, Store!With

\* A file of which no byte changes shows the same.
LEMMA ShownStays ==
  ASSUME NEW im \in Images, NEW r, NEW i \in DOMAIN im.inode, r.inode[i].size = im.inode[i].size,
         \A o \in Nat : o < im.inode[i].size => Byte(r, i, o) = Byte(im, i, o)
  PROVE  Shown(r, i) = Shown(im, i)
<1> DEFINE size == im.inode[i].size
<1>1. size \in Nat
  BY ImageParts
<1>2. \A o \in Nat : o < size => Byte(r, i, o) = Byte(im, i, o)
  OBVIOUS
<1> HIDE DEF size
<1>3. \A j \in 1 .. size : j - 1 \in Nat /\ j - 1 < size
  BY <1>1
<1>4. \A j \in 1 .. size : Byte(r, i, j - 1) = Byte(im, i, j - 1)
  BY <1>2, <1>3
<1> QED BY <1>4 DEF Shown, size

\* A file without bytes.
LEMMA EmptyShown ==
  ASSUME NEW r, NEW i, r.inode[i].size = 0
  PROVE  Shown(r, i) = <<>>
<1>1. 1 .. 0 = {}
  OBVIOUS
<1>2. Shown(r, i) = [j \in {} |-> Clean(Byte(r, i, j - 1))]
  BY <1>1 DEF Shown
<1>3. <<>> = [j \in {} |-> Clean(Byte(r, i, j - 1))]
  OBVIOUS
<1> QED BY <1>2, <1>3

\* The file of a name is emptied.
Emptied(r, im, n) ==
  /\ Right(r) /\ Directory(r) /\ NamesKept(im, r) /\ r.inode_bitmap = im.inode_bitmap
  /\ Files(r) = Store!With(Files(im), n, <<>>)
  /\ Zeroed(im) => Zeroed(r)

\* That is what clear does.
LEMMA ClearShows ==
  ASSUME NEW im, Right(im), Directory(im), NEW n \in NamesIn(im),
         NEW r, Cleared(r, im, Find(im, n)), r.fault = "none"
  PROVE  Emptied(r, im, n)
<1> DEFINE ino == Find(im, n)
<1>1. /\ im \in Images /\ DOMAIN im.inode = im.inode_bitmap /\ Root \in DOMAIN im.inode
      /\ ino \in im.inode_bitmap \ {Root}
  BY FindIs DEF Right, Directory, NamesIn
<1>2. /\ r.inode_bitmap = im.inode_bitmap /\ DOMAIN r.inode = DOMAIN im.inode
      /\ \A i \in DOMAIN im.inode : i # ino => r.inode[i] = im.inode[i]
      /\ r.inode[ino].size = 0 /\ Right(r) /\ (Zeroed(im) => Zeroed(r))
      /\ \A i \in DOMAIN im.inode \ {ino}, o \in Nat : o < im.inode[i].size => Byte(r, i, o) = Byte(im, i, o)
  BY DEF Cleared
<1>3. /\ r.inode[Root].size = im.inode[Root].size /\ im.inode[Root].size \in Nat
      /\ \A o \in Nat : o < im.inode[Root].size => Byte(r, Root, o) = Byte(im, Root, o)
  BY <1>1, <1>2, ImageParts
<1>4. Directory(r)
  BY <1>2, <1>3, DirectoryStays
<1>5. NamesKept(im, r) /\ NamesIn(r) = NamesIn(im)
  BY <1>2, <1>3, <1>4, NamesStay
<1>6. ASSUME NEW m \in NamesIn(im) \ {n} PROVE Shown(r, Find(r, m)) = Shown(im, Find(im, m))
  <2> DEFINE i == Find(im, m)
  <2>1. i # ino /\ i \in DOMAIN im.inode /\ Find(r, m) = i
    BY <1>5, NamesDiffer DEF NamesKept
  <2>2. r.inode[i].size = im.inode[i].size
    BY <1>2, <2>1
  <2>3. \A o \in Nat : o < im.inode[i].size => Byte(r, i, o) = Byte(im, i, o)
    BY <1>2, <2>1
  <2> HIDE DEF i
  <2>4. Shown(r, i) = Shown(im, i)
    BY <1>1, <2>1, <2>2, <2>3, ShownStays
  <2> QED BY <2>1, <2>4 DEF i
<1>7. Shown(r, Find(r, n)) = <<>>
  BY <1>2, <1>5, EmptyShown DEF NamesKept
<1>8. Files(r) = Store!With(Files(im), n, <<>>)
  BY <1>5, <1>6, <1>7, OneFileShows
<1> QED BY <1>2, <1>4, <1>5, <1>8 DEF Emptied

\* create shows an empty file of a new name.
LEMMA CreateShows ==
  ASSUME NEW im, Right(im), Directory(im), NEW n \in Names, ~Exists(im, n),
         NEW r, Created(r, im, n), r.fault = "none"
  PROVE  /\ Right(r) /\ Directory(r) /\ NamesKept(im, r) /\ (Zeroed(im) => Zeroed(r))
         /\ Files(r) = Store!With(Files(im), n, <<>>)
         /\ NameOf(View(r), Find(r, n)) = n
<1>1. Right(r) /\ Directory(r) /\ (Zeroed(im) => Zeroed(r)) /\ ShowsNew(r, im, n)
  BY DEF Created
<1>2. /\ \A m : Exists(r, m) <=> Exists(im, m) \/ m = n
      /\ \A m : Exists(im, m) => Find(r, m) = Find(im, m)
      /\ r.inode[Find(r, n)].size = 0
      /\ \A i \in im.inode_bitmap \ {Root} :
           /\ r.inode[i] = im.inode[i]
           /\ \A o \in Nat : o < im.inode[i].size => Byte(r, i, o) = Byte(im, i, o)
  BY <1>1 DEF ShowsNew
<1>3. NamesIn(r) = NamesIn(im) \cup {n}
  BY <1>2 DEF NamesIn
<1>4. NamesKept(im, r)
  BY <1>2, <1>3 DEF NamesKept, NamesIn
<1>5. ASSUME NEW m \in NamesIn(im) \ {n} PROVE Shown(r, Find(r, m)) = Shown(im, Find(im, m))
  <2> DEFINE i == Find(im, m)
  <2>1. /\ i \in im.inode_bitmap \ {Root} /\ i \in DOMAIN im.inode /\ Find(r, m) = i /\ im \in Images
    BY <1>4, FindIs DEF NamesKept, NamesIn, Right
  <2>2. /\ r.inode[i].size = im.inode[i].size
        /\ \A o \in Nat : o < im.inode[i].size => Byte(r, i, o) = Byte(im, i, o)
    BY <1>2, <2>1
  <2> HIDE DEF i
  <2>3. Shown(r, i) = Shown(im, i)
    BY <2>1, <2>2, ShownStays
  <2> QED BY <2>1, <2>3 DEF i
<1>6. Shown(r, Find(r, n)) = <<>>
  BY <1>2, EmptyShown
<1>7. Files(r) = Store!With(Files(im), n, <<>>)
  BY <1>3, <1>5, <1>6, OneFileShows
<1>8. NameOf(View(r), Find(r, n)) = n
  <2>1. n \in NamesIn(r)
    BY <1>3
  <2>2. Find(r, n) \in r.inode_bitmap \ {Root}
    BY <1>1, <2>1, FindIs DEF NamesIn
  <2> QED BY <1>1, <2>1, <2>2, NameIs
<1> QED BY <1>1, <1>4, <1>7, <1>8

\* The bytes of a file are overwritten, as programs see it.
LEMMA ShownOverwritten ==
  ASSUME NEW im, Right(im), NEW ino \in DOMAIN im.inode, NEW offset \in Nat, NEW buf \in Seq(Nat),
         Zeroed(im), NEW r, Stored(r, im, ino, offset, buf), r.fault = "none"
  PROVE  Shown(r, ino) = Store!Overwritten(Shown(im, ino), offset, buf)
<1> DEFINE old == im.inode[ino].size
           end == offset + Len(buf)
           size == r.inode[ino].size
           c == Shown(im, ino)
<1>0. old \in Nat /\ end \in Nat /\ Len(buf) \in Nat /\ \A k \in 1 .. Len(buf) : buf[k] \in Nat
  <2>1. old \in Nat
    BY ImageParts DEF Right
  <2> QED BY <2>1
<1>1. size = IF end < old THEN old ELSE end
  BY DEF Stored
<1>2. /\ \A o \in Nat : o < old /\ ~InRange(o, offset, buf) => Byte(r, ino, o) = Byte(im, ino, o)
      /\ \A o \in Nat : InRange(o, offset, buf) => Byte(r, ino, o) = buf[o - offset + 1]
      /\ \A o \in Nat : old <= o /\ o < size /\ ~InRange(o, offset, buf) => Byte(r, ino, o) \in {0, Bad}
  BY DEF Stored, StoredZeroed
<1>3. c = [j \in 1 .. old |-> Clean(Byte(im, ino, j - 1))]
  BY DEF Shown
<1>4. Shown(r, ino) = [j \in 1 .. size |-> Clean(Byte(r, ino, j - 1))]
  BY DEF Shown
<1> HIDE DEF old, size, c
<1>5. Len(c) = old /\ \A j \in 1 .. old : c[j] = Clean(Byte(im, ino, j - 1))
  BY <1>0, <1>3
<1>6. size = IF end > Len(c) THEN end ELSE Len(c)
  BY <1>0, <1>1, <1>5
<1>7. ASSUME NEW j \in 1 .. size
      PROVE  Clean(Byte(r, ino, j - 1)) = IF j > offset /\ j <= end THEN buf[j - offset]
                                          ELSE IF j <= Len(c) THEN c[j] ELSE 0
  <2>1. j \in Nat /\ j - 1 \in Nat /\ size \in Nat /\ j - 1 < size
    BY <1>0, <1>1
  <2>2. InRange(j - 1, offset, buf) <=> j > offset /\ j <= end
    BY <1>0, <2>1 DEF InRange
  <2>3. CASE j > offset /\ j <= end
    <3>1. j - 1 - offset + 1 = j - offset /\ j - offset \in 1 .. Len(buf)
      BY <1>0, <2>1, <2>3
    <3>2. Byte(r, ino, j - 1) = buf[j - offset] /\ buf[j - offset] \in Nat
      BY <1>0, <1>2, <2>1, <2>2, <2>3, <3>1
    <3>3. Clean(Byte(r, ino, j - 1)) = buf[j - offset]
      BY <3>2 DEF Clean, Bad
    <3> QED BY <2>3, <3>3
  <2>4. CASE ~(j > offset /\ j <= end) /\ j <= old
    <3>1. j - 1 < old /\ j \in 1 .. old
      BY <1>0, <2>1, <2>4
    <3>2. Byte(r, ino, j - 1) = Byte(im, ino, j - 1)
      BY <1>2, <2>1, <2>2, <2>4, <3>1
    <3> QED BY <1>5, <2>4, <3>1, <3>2
  <2>5. CASE ~(j > offset /\ j <= end) /\ ~(j <= old)
    <3>1. old <= j - 1
      BY <1>0, <2>1, <2>5
    <3>2. Byte(r, ino, j - 1) \in {0, Bad}
      BY <1>2, <2>1, <2>2, <2>5, <3>1
    <3>3. Clean(Byte(r, ino, j - 1)) = 0
      BY <3>2 DEF Clean
    <3> QED BY <1>5, <2>5, <3>3
  <2> QED BY <2>3, <2>4, <2>5
<1> DEFINE W(j) == IF j > offset /\ j <= end THEN buf[j - offset] ELSE IF j <= Len(c) THEN c[j] ELSE 0
<1>8. Store!Overwritten(c, offset, buf) = [j \in 1 .. size |-> W(j)]
  BY <1>6 DEF Store!Overwritten
<1>9. \A j \in 1 .. size : Clean(Byte(r, ino, j - 1)) = W(j)
  BY <1>7
<1> HIDE DEF W
<1>10. Shown(r, ino) = Store!Overwritten(c, offset, buf)
  BY <1>4, <1>8, <1>9
<1> QED BY <1>10 DEF c

\* A write overwrites the file of its name, and no other.
LEMMA WriteShows ==
  ASSUME NEW im, Right(im), Directory(im), Zeroed(im), NEW n \in NamesIn(im),
         NEW offset \in Nat, NEW buf \in Seq(Nat),
         NEW r, Stored(r, im, Find(im, n), offset, buf), r.fault = "none"
  PROVE  /\ Right(r) /\ Directory(r) /\ NamesKept(im, r) /\ r.inode_bitmap = im.inode_bitmap /\ Zeroed(r)
         /\ Files(r) = Store!With(Files(im), n, Store!Overwritten(Files(im)[n], offset, buf))
<1> DEFINE ino == Find(im, n)
           c == Store!Overwritten(Files(im)[n], offset, buf)
<1>1. /\ im \in Images /\ DOMAIN im.inode = im.inode_bitmap /\ Root \in DOMAIN im.inode
      /\ ino \in im.inode_bitmap \ {Root}
  BY FindIs DEF Right, Directory, NamesIn
<1>2. /\ r.inode_bitmap = im.inode_bitmap /\ DOMAIN r.inode = DOMAIN im.inode
      /\ \A i \in DOMAIN im.inode : i # ino => r.inode[i] = im.inode[i]
      /\ Right(r) /\ Zeroed(r)
      /\ \A i \in DOMAIN im.inode, o \in Nat :
           o < im.inode[i].size /\ ~(i = ino /\ InRange(o, offset, buf)) => Byte(r, i, o) = Byte(im, i, o)
  BY DEF Stored, StoredZeroed
<1>3. /\ r.inode[Root].size = im.inode[Root].size /\ im.inode[Root].size \in Nat
      /\ \A o \in Nat : o < im.inode[Root].size => Byte(r, Root, o) = Byte(im, Root, o)
  BY <1>1, <1>2, ImageParts
<1>4. Directory(r)
  BY <1>2, <1>3, DirectoryStays
<1>5. NamesKept(im, r) /\ NamesIn(r) = NamesIn(im)
  BY <1>2, <1>3, <1>4, NamesStay
<1>6. ASSUME NEW m \in NamesIn(im) \ {n} PROVE Shown(r, Find(r, m)) = Shown(im, Find(im, m))
  <2> DEFINE i == Find(im, m)
  <2>1. i # ino /\ i \in DOMAIN im.inode /\ Find(r, m) = i
    BY <1>5, NamesDiffer DEF NamesKept
  <2>2. r.inode[i].size = im.inode[i].size
    BY <1>2, <2>1
  <2>3. \A o \in Nat : o < im.inode[i].size => Byte(r, i, o) = Byte(im, i, o)
    BY <1>2, <2>1
  <2> HIDE DEF i
  <2>4. Shown(r, i) = Shown(im, i)
    BY <1>1, <2>1, <2>2, <2>3, ShownStays
  <2> QED BY <2>1, <2>4 DEF i
<1>7. Shown(r, Find(r, n)) = c
  <2>1. Find(r, n) = ino /\ Files(im)[n] = Shown(im, ino)
    BY <1>5 DEF NamesKept, Files
  <2> HIDE DEF ino
  <2>2. ino \in DOMAIN im.inode /\ Stored(r, im, ino, offset, buf)
    BY <1>1 DEF ino
  <2>3. Shown(r, ino) = Store!Overwritten(Shown(im, ino), offset, buf)
    BY <2>2, ShownOverwritten
  <2> QED BY <2>1, <2>3
<1> HIDE DEF c
<1>8. Files(r) = Store!With(Files(im), n, c)
  BY <1>5, <1>6, <1>7, OneFileShows
<1> QED BY <1>2, <1>4, <1>5, <1>8 DEF c

\* What programs see of the state.
ShownFiles == MapOf(view)
ShownHandles == OpenOf(view, handles)

\* The view is of the device, and what a file grows by is zero.
StoreInv ==
  /\ FsInv
  /\ view = View(disk)
  /\ Running => Zeroed(img)

\* While the kernel runs, programs see the image.
LEMMA RunningShows ==
  ASSUME StoreInv, Running
  PROVE  /\ Right(img) /\ Directory(img) /\ Zeroed(img) /\ HandlesFit(handles, img)
         /\ DOMAIN img.inode = img.inode_bitmap
         /\ view = View(img) /\ ShownFiles = Files(img) /\ ShownHandles = OpenOf(View(img), handles)
         /\ DOMAIN ShownFiles = NamesIn(img) /\ DOMAIN ShownHandles = DOMAIN handles
<1>1. /\ Right(img) /\ Directory(img) /\ Zeroed(img) /\ HandlesFit(handles, img) /\ view = View(img)
      /\ DOMAIN img.inode = img.inode_bitmap
  BY DEF StoreInv, FsInv
<1>2. MapOf(View(img)) = Files(img)
  BY <1>1, ViewIs
<1> QED BY <1>1, <1>2 DEF ShownFiles, ShownHandles, Files, OpenOf

\* The formatted image has no name, and zeros only.
LEMMA FormattedShows ==
  View(Formatted) = <<>> /\ Zeroed(Formatted)
<1> DEFINE im == Formatted
<1>1. Right(im) /\ Directory(im)
  BY FormattedIs DEF Possible
<1>2. NamesIn(im) = {}
  <2>1. im.inode_bitmap \ {Root} = {}
    BY DEF Formatted
  <2> QED BY <1>1, <2>1, FindIs DEF NamesIn
<1>3. View(im) = <<>>
  <2>1. {m \in Names : Exists(im, m)} = {}
    BY <1>2 DEF NamesIn
  <2>2. View(im) = [n \in {} |-> [inode |-> Find(im, n), contents |-> Contents(im, Find(im, n))]]
    BY <2>1 DEF View
  <2>3. <<>> = [n \in {} |-> [inode |-> Find(im, n), contents |-> Contents(im, Find(im, n))]]
    OBVIOUS
  <2> QED BY <2>2, <2>3
<1>4. Zeroed(im)
  <2>1. \A b \in OnDevice \ {0} : im.block[b] = Zeros
    BY DEF Formatted, OnDevice
  <2>2. \A b, c : b # 0 => Cell(im, b, c) \in {0, Bad}
    <3>1. DOMAIN im.block = OnDevice
      BY DEF Formatted, OnDevice
    <3>2. \A c \in Cells : Zeros[c] = 0
      BY DEF Zeros
    <3> QED BY <2>1, <3>1, <3>2 DEF Cell
  <2>3. \A b \in AreaIds : b # 0
    BY Layout DEF AreaIds
  <2> QED BY <2>2, <2>3 DEF Zeroed
<1> QED BY <1>3, <1>4

\* An operation that completes shows its image; one that panics shows nothing new.
LEMMA CompleteShows ==
  ASSUME StoreInv, FsInv', Running, NEW im, NEW hs, Complete(im, hs), im.fault = "none" => Zeroed(im)
  PROVE  /\ StoreInv'
         /\ im.fault # "none" => UNCHANGED <<view, handles>>
         /\ im.fault = "none" => view' = View(im) /\ handles' = hs
<1>1. /\ img' = im /\ view' = View(disk')
      /\ im.fault = "none" => disk' = im /\ handles' = hs
      /\ im.fault # "none" => disk' = disk /\ handles' = handles
  BY DEF Complete, SyncAll
<1>2. Running' => im.fault = "none"
  BY <1>1 DEF FsInv, Right
<1> QED BY <1>1, <1>2 DEF StoreInv

\* A handle for a file is one more open file, of its name.
LEMMA HandleShows ==
  ASSUME StoreInv, Running, NEW r, Right(r), Directory(r), NamesKept(img, r),
         NEW h, NEW ino, NEW n, NameOf(View(r), ino) = n
  PROVE  OpenOf(View(r), WithHandle(h, FileHandle(ino)))
           = Store!With(ShownHandles, h, [name |-> n, offset |-> 0])
<1> DEFINE f == FileHandle(ino)
<1>1. f.inode = ino /\ f.offset = 0
  BY DEF FileHandle
<1>2. OpenOf(View(r), handles) = ShownHandles
  BY RunningShows, OpenStays
<1> HIDE DEF f
<1>3. OpenOf(View(r), WithHandle(h, f)) = Store!With(OpenOf(View(r), handles), h, [name |-> n, offset |-> f.offset])
  BY <1>1, OneMoreOpen
<1> QED BY <1>1, <1>2, <1>3 DEF f

\* What a step shows to programs, in the terms of FileStore.
LEMMA OpenEmptiedIs ==
  ASSUME NEW h, NEW n, h \notin DOMAIN ShownHandles,
         ShownHandles' = Store!With(ShownHandles, h, [name |-> n, offset |-> 0]),
         ShownFiles' = Store!With(ShownFiles, n, <<>>)
  PROVE  Store!OpenEmptied(h, n)
BY DEF Store!OpenEmptied, Store!NewHandle, ShownHandles, ShownFiles, OpenOf, MapOf, NameOf

\* A file opened as it is, in those terms.
LEMMA OpenAsItIsIs ==
  ASSUME NEW h, NEW n, h \notin DOMAIN ShownHandles, n \in DOMAIN ShownFiles,
         ShownHandles' = Store!With(ShownHandles, h, [name |-> n, offset |-> 0]),
         ShownFiles' = ShownFiles
  PROVE  Store!OpenAsItIs(h, n)
BY DEF Store!OpenAsItIs, Store!NewHandle, ShownHandles, ShownFiles, OpenOf, MapOf, NameOf

\* A write, in those terms.
LEMMA WriteIs ==
  ASSUME NEW h, NEW buf, h \in DOMAIN ShownHandles,
         ShownFiles' = [ShownFiles EXCEPT ![ShownHandles[h].name] =
                          Store!Overwritten(@, ShownHandles[h].offset, buf)],
         ShownHandles' = [ShownHandles EXCEPT ![h].offset = @ + Len(buf)]
  PROVE  Store!Write(h, buf)
BY DEF Store!Write, ShownHandles, ShownFiles, OpenOf, MapOf, NameOf

\* How much a read of FileStore reads, of what is left.
CountRead(left, len) == IF left <= 0 THEN 0 ELSE IF left < len THEN left ELSE len

\* A read in those terms.
LEMMA ReadIs ==
  ASSUME NEW h, NEW len,
         ShownHandles' = [ShownHandles EXCEPT ![h].offset =
           @ + CountRead(Len(ShownFiles[ShownHandles[h].name]) - ShownHandles[h].offset, len)],
         ShownFiles' = ShownFiles
  PROVE  Store!Read(h, len)
BY DEF Store!Read, CountRead, ShownHandles, ShownFiles, OpenOf, MapOf, NameOf

\* A copied handle.
LEMMA CopyIs ==
  ASSUME NEW h, NEW copy, copy \notin DOMAIN ShownHandles,
         ShownHandles' = Store!With(ShownHandles, copy, ShownHandles[h]), ShownFiles' = ShownFiles
  PROVE  Store!Copy(h, copy)
BY DEF Store!Copy, ShownHandles, ShownFiles, OpenOf, MapOf, NameOf

\* A closed handle.
LEMMA CloseIs ==
  ASSUME NEW h, ShownHandles' = [g \in DOMAIN ShownHandles \ {h} |-> ShownHandles[g]],
         ShownFiles' = ShownFiles
  PROVE  Store!Close(h)
BY DEF Store!Close, ShownHandles, ShownFiles, OpenOf, MapOf, NameOf

\* An operation that leaves the file of a name empty, and opens it, shows that.
LEMMA EmptiedShows ==
  ASSUME StoreInv, FsInv', Running, NEW h \in Handles, h \notin DOMAIN handles, NEW n \in Names,
         NEW r, NEW ino, NEW hs, Complete(r, hs),
         r.fault = "none" =>
           /\ Right(r) /\ Directory(r) /\ NamesKept(img, r) /\ (Zeroed(img) => Zeroed(r))
           /\ Files(r) = Store!With(Files(img), n, <<>>)
           /\ NameOf(View(r), ino) = n /\ hs = WithHandle(h, FileHandle(ino))
  PROVE  StoreInv' /\ (UNCHANGED <<view, handles>> \/ Store!OpenEmptied(h, n))
<1>1. ShownFiles = Files(img) /\ DOMAIN ShownHandles = DOMAIN handles /\ Zeroed(img)
  BY RunningShows
<1>2. /\ StoreInv'
      /\ r.fault # "none" => UNCHANGED <<view, handles>>
      /\ r.fault = "none" => view' = View(r) /\ handles' = hs
  BY <1>1, CompleteShows
<1>3. ASSUME r.fault = "none" PROVE Store!OpenEmptied(h, n)
  <2>1. ShownFiles' = Store!With(ShownFiles, n, <<>>)
    BY <1>1, <1>2, <1>3, ViewIs DEF ShownFiles
  <2>2. ShownHandles' = OpenOf(View(r), WithHandle(h, FileHandle(ino)))
    BY <1>2, <1>3 DEF ShownHandles
  <2>3. ShownHandles' = Store!With(ShownHandles, h, [name |-> n, offset |-> 0])
    BY <1>3, <2>2, HandleShows
  <2> QED BY <1>1, <2>1, <2>3, OpenEmptiedIs
<1> QED BY <1>2, <1>3

\* An emptied file has the inode that it had.
LEMMA EmptiedName ==
  ASSUME NEW im, Right(im), Directory(im), NEW n \in NamesIn(im), NEW r, Emptied(r, im, n)
  PROVE  NameOf(View(r), Find(im, n)) = n
<1>1. Right(r) /\ Directory(r) /\ n \in NamesIn(r) /\ Find(r, n) = Find(im, n)
  BY DEF Emptied, NamesKept
<1>2. Find(r, n) \in r.inode_bitmap \ {Root}
  BY <1>1, FindIs DEF NamesIn
<1> QED BY <1>1, <1>2, NameIs

\* clear of the file that a name has, which is then opened, shows that.
LEMMA ClearOpenShows ==
  ASSUME StoreInv, FsInv', Running, NEW h \in Handles, h \notin DOMAIN handles,
         NEW n \in Names, Exists(img, n),
         Complete(Clear(img, Find(img, n)), WithHandle(h, FileHandle(Find(img, n))))
  PROVE  StoreInv' /\ (UNCHANGED <<view, handles>> \/ Store!OpenEmptied(h, n))
<1> DEFINE ino == Find(img, n)
           r == Clear(img, ino)
           hs == WithHandle(h, FileHandle(ino))
<1>1. Right(img) /\ Directory(img) /\ DOMAIN img.inode = img.inode_bitmap
  BY RunningShows
<1>2. Complete(r, hs) /\ n \in NamesIn(img) /\ ino \in DOMAIN img.inode
  BY <1>1, FindIs DEF NamesIn
<1>3. Cleared(r, img, ino)
  BY <1>1, <1>2, ClearDoes
<1> HIDE DEF r
<1>4. r.fault = "none" => Emptied(r, img, n)
  BY <1>1, <1>2, <1>3, ClearShows
<1>5. r.fault = "none" => NameOf(View(r), ino) = n
  BY <1>1, <1>2, <1>4, EmptiedName
<1>6. r.fault = "none" =>
           /\ Right(r) /\ Directory(r) /\ NamesKept(img, r) /\ (Zeroed(img) => Zeroed(r))
           /\ Files(r) = Store!With(Files(img), n, <<>>)
           /\ NameOf(View(r), ino) = n /\ hs = WithHandle(h, FileHandle(ino))
  BY <1>4, <1>5 DEF Emptied
<1> HIDE DEF ino, hs
<1> QED BY <1>2, <1>6, EmptiedShows

\* open with CREATE opens an empty file.
LEMMA OpenCreateShows ==
  ASSUME StoreInv, FsInv', NEW h \in Handles, NEW n \in Names, OpenCreate(h, n)
  PROVE  StoreInv' /\ (UNCHANGED <<view, handles>> \/ Store!OpenEmptied(h, n))
<1>0. Running /\ h \notin DOMAIN handles
  BY DEF OpenCreate
<1>1. CASE Exists(img, n)
  <2>1. Complete(Clear(img, Find(img, n)), WithHandle(h, FileHandle(Find(img, n))))
    BY <1>1 DEF OpenCreate
  <2> QED BY <1>0, <1>1, <2>1, ClearOpenShows
<1>2. CASE ~Exists(img, n)
  <2> DEFINE r == Create(img, n)
             ino == Find(r, n)
             hs == IF r.fault = "none" THEN WithHandle(h, FileHandle(ino)) ELSE handles
  <2>1. Complete(r, hs)
    BY <1>2 DEF OpenCreate
  <2>2. Right(img) /\ Directory(img)
    BY <1>0, RunningShows
  <2>3. Created(r, img, n)
    BY <1>2, <2>2, CreateDoes
  <2> HIDE DEF r
  <2>4. r.fault = "none" =>
           /\ Right(r) /\ Directory(r) /\ NamesKept(img, r) /\ (Zeroed(img) => Zeroed(r))
           /\ Files(r) = Store!With(Files(img), n, <<>>)
           /\ NameOf(View(r), ino) = n /\ hs = WithHandle(h, FileHandle(ino))
    BY <1>2, <2>2, <2>3, CreateShows
  <2> HIDE DEF ino, hs
  <2> QED BY <1>0, <2>1, <2>4, EmptiedShows
<1> QED BY <1>1, <1>2

\* open without CREATE opens a file as it is, or empties it.
LEMMA OpenShows ==
  ASSUME StoreInv, FsInv', NEW h \in Handles, NEW n \in Names, NEW trunc \in BOOLEAN, Open(h, n, trunc)
  PROVE  StoreInv' /\ (UNCHANGED <<view, handles>> \/ Store!OpenEmptied(h, n) \/ Store!OpenAsItIs(h, n))
<1> DEFINE ino == Find(img, n)
           hs == WithHandle(h, FileHandle(ino))
<1>0. Running /\ h \notin DOMAIN handles /\ Exists(img, n)
      /\ Complete(IF trunc THEN Clear(img, ino) ELSE img, hs)
  BY DEF Open
<1>1. CASE trunc
  BY <1>0, <1>1, ClearOpenShows
<1>2. CASE ~trunc
  <2>1. /\ Right(img) /\ Directory(img) /\ Zeroed(img)
        /\ ShownFiles = Files(img) /\ DOMAIN ShownHandles = DOMAIN handles
        /\ DOMAIN ShownFiles = NamesIn(img)
    BY <1>0, RunningShows
  <2>2. Complete(img, hs) /\ n \in NamesIn(img) /\ img.fault = "none"
    BY <1>0, <1>2, <2>1 DEF NamesIn, Right
  <2>3. NameOf(View(img), ino) = n /\ NamesKept(img, img)
    <3>1. ino \in img.inode_bitmap \ {Root}
      BY <1>0, <2>1, FindIs
    <3> QED BY <2>1, <2>2, <3>1, NameIs DEF NamesKept
  <2> HIDE DEF ino
  <2>4. StoreInv' /\ view' = View(img) /\ handles' = WithHandle(h, FileHandle(ino))
    BY <1>0, <2>1, <2>2, CompleteShows
  <2>5. ShownFiles' = ShownFiles
    BY <2>1, <2>4, ViewIs DEF ShownFiles
  <2>6. ShownHandles' = OpenOf(View(img), WithHandle(h, FileHandle(ino)))
    BY <2>4 DEF ShownHandles
  <2>7. ShownHandles' = Store!With(ShownHandles, h, [name |-> n, offset |-> 0])
    BY <1>0, <2>1, <2>3, <2>6, HandleShows
  <2>8. Store!OpenAsItIs(h, n)
    BY <1>0, <2>1, <2>2, <2>5, <2>7, OpenAsItIsIs
  <2> QED BY <2>4, <2>8
<1> QED BY <1>1, <1>2

Moved(hs, h, k) == [hs EXCEPT ![h].offset = @ + k]

\* A handle whose offset moves keeps its name.
LEMMA OffsetShows ==
  ASSUME HandlesFit(handles, img), NEW h \in DOMAIN handles, NEW k, NEW v
  PROVE  OpenOf(v, Moved(handles, h, k)) = Moved(OpenOf(v, handles), h, k)
<1> DEFINE hs == Moved(handles, h, k)
           H == OpenOf(v, handles)
           o == handles[h].offset + k
           n == NameOf(v, handles[h].inode)
<1>1. handles[h] \in [inode : Inodes, offset : 0 .. MaxSize]
  BY DEF HandlesFit, OpenFiles
<1>2. DOMAIN hs = DOMAIN handles /\ \A g \in DOMAIN handles : g # h => hs[g] = handles[g]
  BY DEF Moved
<1>3. hs[h].inode = handles[h].inode /\ hs[h].offset = o
  BY <1>1 DEF Moved
<1>4. DOMAIN H = DOMAIN handles /\ H[h] = [name |-> n, offset |-> handles[h].offset]
      /\ \A g \in DOMAIN handles : H[g] = [name |-> NameOf(v, handles[g].inode), offset |-> handles[g].offset]
  BY DEF OpenOf
<1>5. Moved(H, h, k) = [g \in DOMAIN handles |-> IF g = h THEN [name |-> n, offset |-> o] ELSE H[g]]
  <2> HIDE DEF H, n, o
  <2>1. [H[h] EXCEPT !.offset = @ + k] = [name |-> n, offset |-> o]
    BY <1>4 DEF o
  <2> QED BY <1>4, <2>1 DEF Moved
<1>6. OpenOf(v, hs) = [g \in DOMAIN handles |-> IF g = h THEN [name |-> n, offset |-> o] ELSE H[g]]
  <2> HIDE DEF hs, o, H
  <2> QED BY <1>2, <1>3, <1>4 DEF OpenOf
<1> QED BY <1>5, <1>6

\* write overwrites the file of the handle.
LEMMA WriteStepShows ==
  ASSUME StoreInv, FsInv', NEW h, NEW buf \in Buffers, Write(h, buf)
  PROVE  StoreInv' /\ (UNCHANGED <<view, handles>> \/ (h \in DOMAIN ShownHandles /\ Store!Write(h, buf)))
<1> DEFINE ino == handles[h].inode
           offset == handles[h].offset
           n == NameOf(View(img), ino)
           r == WriteFile(img, ino, offset, buf)
           hs == Moved(handles, h, Len(buf))
<1>0. Running /\ h \in DOMAIN handles /\ Complete(r, hs)
  BY DEF Write, Moved
<1>1. /\ Right(img) /\ Directory(img) /\ DOMAIN img.inode = img.inode_bitmap
      /\ ino \in img.inode_bitmap \ {Root} /\ offset \in Nat /\ buf \in Seq(Nat)
      /\ HandlesFit(handles, img)
  BY <1>0, OpenFile, CellAssumption DEF StoreInv
<1>2. /\ Zeroed(img) /\ view = View(img) /\ ShownFiles = Files(img)
      /\ ShownHandles = OpenOf(View(img), handles)
      /\ DOMAIN ShownHandles = DOMAIN handles /\ DOMAIN ShownFiles = NamesIn(img)
  BY <1>0, RunningShows
<1>3. n \in NamesIn(img) /\ Find(img, n) = ino
  BY <1>1, NameIs
<1>4. ShownHandles[h].name = n /\ ShownHandles[h].offset = offset
  BY <1>0, <1>2 DEF OpenOf
<1> HIDE DEF n, ino, offset, hs
<1>5. Stored(r, img, Find(img, n), offset, buf)
  BY <1>1, <1>3, WriteFileDoes
<1> HIDE DEF r
<1> DEFINE c == Store!Overwritten(Files(img)[n], offset, buf)
<1>6. r.fault = "none" =>
        /\ Right(r) /\ Directory(r) /\ NamesKept(img, r) /\ Zeroed(r)
        /\ Files(r) = Store!With(Files(img), n, c)
  BY <1>1, <1>2, <1>3, <1>5, WriteShows
<1>7. /\ StoreInv'
      /\ r.fault # "none" => UNCHANGED <<view, handles>>
      /\ r.fault = "none" => view' = View(r) /\ handles' = hs
  BY <1>0, <1>6, CompleteShows
<1>8. ASSUME r.fault = "none" PROVE Store!Write(h, buf)
  <2> HIDE DEF c
  <2>1. ShownFiles' = Store!With(ShownFiles, n, c)
    BY <1>2, <1>6, <1>7, <1>8, ViewIs DEF ShownFiles
  <2>2. Store!With(ShownFiles, n, c) = [ShownFiles EXCEPT ![n] = c]
    BY <1>2, <1>3 DEF Store!With, Files
  <2>3. ShownFiles' = [ShownFiles EXCEPT ![ShownHandles[h].name] =
                         Store!Overwritten(@, ShownHandles[h].offset, buf)]
    BY <1>2, <1>3, <1>4, <2>1, <2>2 DEF c
  <2>4. ShownHandles' = OpenOf(View(r), hs)
    BY <1>7, <1>8 DEF ShownHandles
  <2>5. OpenOf(View(r), handles) = ShownHandles
    BY <1>1, <1>2, <1>6, <1>8, OpenStays
  <2>6. OpenOf(View(r), hs) = Moved(OpenOf(View(r), handles), h, Len(buf))
    BY <1>0, <1>1, OffsetShows DEF hs
  <2>7. ShownHandles' = [ShownHandles EXCEPT ![h].offset = @ + Len(buf)]
    BY <2>4, <2>5, <2>6 DEF Moved
  <2> QED BY <1>0, <1>2, <2>3, <2>7, WriteIs
<1> QED BY <1>0, <1>2, <1>7, <1>8

\* As many cells are read as FileStore counts.
LEMMA CellsRead ==
  ASSUME NEW im, Right(im), NEW i \in DOMAIN im.inode, NEW offset \in Nat, NEW len \in Nat
  PROVE  Len(ReadAt(im, im.inode[i], offset, len)) = CountRead(im.inode[i].size - offset, len)
<1> DEFINE size == im.inode[i].size
           n == IF offset + len <= size THEN len ELSE size - offset
           m == CountRead(size - offset, len)
<1>1. size \in Nat
  BY ImageParts DEF Right
<1>2. ReadAt(im, im.inode[i], offset, len) = [j \in 1 .. n |-> Byte(im, i, offset + j - 1)]
  BY ReadAtDoes DEF ReadsAs
<1> HIDE DEF size
<1>3. m \in Nat /\ 1 .. n = 1 .. m
  BY <1>1 DEF CountRead
<1> HIDE DEF n, m
<1>4. Len(ReadAt(im, im.inode[i], offset, len)) = m
  <2> DEFINE F(j) == Byte(im, i, offset + j - 1)
  <2>1. ReadAt(im, im.inode[i], offset, len) = [j \in 1 .. m |-> F(j)]
    BY <1>2, <1>3
  <2> HIDE DEF F
  <2>2. Len([j \in 1 .. m |-> F(j)]) = m
    BY <1>3
  <2> QED BY <2>1, <2>2
<1> QED BY <1>4 DEF m, size

\* read moves the offset by what there is to read.
LEMMA ReadStepShows ==
  ASSUME StoreInv, FsInv', NEW h, NEW len \in Nat, Read(h, len)
  PROVE  StoreInv' /\ (UNCHANGED <<view, handles>> \/ (h \in DOMAIN ShownHandles /\ Store!Read(h, len)))
<1> DEFINE ino == handles[h].inode
           offset == handles[h].offset
           n == NameOf(View(img), ino)
           cells == ReadAt(img, img.inode[ino], offset, len)
<1>0. Running /\ h \in DOMAIN handles /\ UNCHANGED <<img, disk, view>>
  BY DEF Read
<1>1. /\ Right(img) /\ Directory(img) /\ ino \in DOMAIN img.inode
      /\ ino \in img.inode_bitmap \ {Root} /\ offset \in Nat /\ img.inode[ino].size \in Nat
      /\ HandlesFit(handles, img)
  BY <1>0, OpenFile DEF StoreInv
<1>2. /\ ShownFiles = Files(img) /\ ShownHandles = OpenOf(View(img), handles) /\ view = View(img)
      /\ DOMAIN ShownHandles = DOMAIN handles
  BY <1>0, RunningShows
<1>3. n \in NamesIn(img) /\ Find(img, n) = ino
  BY <1>1, NameIs
<1>4. ShownHandles[h].name = n /\ ShownHandles[h].offset = offset
  BY <1>0, <1>2 DEF OpenOf
<1>5. StoreInv'
  BY <1>0 DEF StoreInv, FsInv, Running
<1>6. \/ UNCHANGED handles
      \/ handles' = Moved(handles, h, Len(cells))
  BY DEF Read, Moved
<1> HIDE DEF ino, offset, n
<1>7. Len(cells) = CountRead(img.inode[ino].size - offset, len)
  BY <1>1, CellsRead
<1>8. Len(ShownFiles[n]) = img.inode[ino].size
  <2>1. ShownFiles[n] = Shown(img, ino)
    BY <1>2, <1>3 DEF Files
  <2> QED BY <1>1, <2>1 DEF Shown
<1> HIDE DEF cells
<1>9. ASSUME handles' = Moved(handles, h, Len(cells)) PROVE Store!Read(h, len)
  <2>1. ShownHandles' = [ShownHandles EXCEPT ![h].offset = @ + Len(cells)]
    <3>1. ShownHandles' = OpenOf(view, Moved(handles, h, Len(cells)))
      BY <1>0, <1>9 DEF ShownHandles
    <3>2. OpenOf(view, Moved(handles, h, Len(cells))) = Moved(ShownHandles, h, Len(cells))
      BY <1>0, <1>1, OffsetShows DEF ShownHandles
    <3> QED BY <3>1, <3>2 DEF Moved
  <2>2. Len(cells) = CountRead(Len(ShownFiles[ShownHandles[h].name]) - ShownHandles[h].offset, len)
    BY <1>4, <1>7, <1>8
  <2>3. ShownFiles' = ShownFiles
    BY <1>0 DEF ShownFiles
  <2>4. ShownHandles' = [ShownHandles EXCEPT ![h].offset =
           @ + CountRead(Len(ShownFiles[ShownHandles[h].name]) - ShownHandles[h].offset, len)]
    BY <2>1, <2>2
  <2> QED BY <2>3, <2>4, ReadIs
<1> QED BY <1>0, <1>2, <1>5, <1>6, <1>9

\* fork, close and a restart.
LEMMA OtherStepsShow ==
  ASSUME StoreInv, FsInv'
  PROVE  /\ \A h \in Handles, copy \in Handles : Fork(h, copy) =>
              StoreInv' /\ h \in DOMAIN ShownHandles /\ Store!Copy(h, copy)
         /\ \A h \in Handles : Close(h) => StoreInv' /\ h \in DOMAIN ShownHandles /\ Store!Close(h)
         /\ Restart => StoreInv' /\ Store!Restart
<1>1. ASSUME NEW h \in Handles, NEW copy \in Handles, Fork(h, copy)
      PROVE  StoreInv' /\ h \in DOMAIN ShownHandles /\ Store!Copy(h, copy)
  <2> DEFINE f == handles[h]
  <2>0. /\ Running /\ h \in DOMAIN handles /\ copy \notin DOMAIN handles
        /\ handles' = WithHandle(copy, f) /\ UNCHANGED <<img, disk, machine, view>>
    BY <1>1 DEF Fork
  <2>1. StoreInv'
    BY <2>0 DEF StoreInv, Running
  <2>2. DOMAIN ShownHandles = DOMAIN handles
    BY <2>0, RunningShows
  <2>3. ShownHandles[h] = [name |-> NameOf(view, f.inode), offset |-> f.offset]
    BY <2>0 DEF ShownHandles, OpenOf
  <2> HIDE DEF f
  <2>4. ShownHandles' = Store!With(ShownHandles, copy, ShownHandles[h])
    BY <2>0, <2>3, OneMoreOpen DEF ShownHandles
  <2>5. ShownFiles' = ShownFiles
    BY <2>0 DEF ShownFiles
  <2> QED BY <2>0, <2>1, <2>2, <2>4, <2>5, CopyIs
<1>2. ASSUME NEW h \in Handles, Close(h)
      PROVE  StoreInv' /\ h \in DOMAIN ShownHandles /\ Store!Close(h)
  <2>0. /\ Running /\ h \in DOMAIN handles /\ UNCHANGED <<img, disk, machine, view>>
        /\ handles' = [g \in DOMAIN handles \ {h} |-> handles[g]]
    BY <1>2 DEF Close
  <2>1. StoreInv'
    BY <2>0 DEF StoreInv, Running
  <2>2. DOMAIN ShownHandles = DOMAIN handles
    BY <2>0, RunningShows
  <2>3. ShownHandles' = [g \in DOMAIN ShownHandles \ {h} |-> ShownHandles[g]]
    BY <2>0 DEF ShownHandles, OpenOf
  <2>4. ShownFiles' = ShownFiles
    BY <2>0 DEF ShownFiles
  <2> QED BY <2>0, <2>1, <2>2, <2>3, <2>4, CloseIs
<1>3. ASSUME Restart PROVE StoreInv' /\ Store!Restart
  <2>0. /\ Running /\ img' = disk /\ handles' = <<>> /\ view' = View(disk) /\ UNCHANGED <<disk, machine>>
    BY <1>3 DEF Restart
  <2>1. img' = img /\ view' = view
    BY <2>0 DEF StoreInv, FsInv
  <2>2. StoreInv'
    BY <2>0, <2>1 DEF StoreInv, Running
  <2>3. ShownHandles' = <<>>
    <3>1. DOMAIN handles' = {}
      BY <2>0
    <3> QED BY <3>1 DEF ShownHandles, OpenOf
  <2>4. ShownFiles' = ShownFiles
    BY <2>1 DEF ShownFiles
  <2>5. Store!Restart
    BY <2>3, <2>4 DEF Store!Restart, ShownHandles, ShownFiles, OpenOf, MapOf, NameOf
  <2> QED BY <2>2, <2>5
<1> QED BY <1>1, <1>2, <1>3

\* Programs see what FileStore promises, on a device of any size: files by name, that
\* writing overwrites and makes longer, with zeros where nothing was written; a file
\* changes by writing or by being emptied, never with another one; and a restart keeps
\* all of them.
THEOREM StoreIsImplemented == Spec => StoreImplemented
<1>1. Init /\ FsInv => StoreInv
  BY FormattedShows DEF StoreInv, Init
<1>2. Init => Store!Init
  <2> SUFFICES ASSUME Init PROVE Store!Init
    OBVIOUS
  <2>1. DOMAIN view = {} /\ DOMAIN handles = {}
    BY DEF Init
  <2> QED BY <2>1 DEF Store!Init
<1>3. FsInv /\ FsInv' /\ StoreInv /\ [Next]_vars => StoreInv' /\ [Store!Next]_(Store!vars)
  <2> SUFFICES ASSUME FsInv', StoreInv, [Next]_vars PROVE StoreInv' /\ [Store!Next]_(Store!vars)
    OBVIOUS
  <2>0. UNCHANGED <<view, handles>> => UNCHANGED Store!vars
    BY DEF Store!vars
  <2>1. ASSUME NEW h \in Handles, NEW n \in Names, OpenCreate(h, n)
        PROVE  StoreInv' /\ (UNCHANGED <<view, handles>> \/ Store!Next)
    BY <2>1, OpenCreateShows DEF Store!Next
  <2>2. ASSUME NEW h \in Handles, NEW n \in Names, NEW trunc \in BOOLEAN, Open(h, n, trunc)
        PROVE  StoreInv' /\ (UNCHANGED <<view, handles>> \/ Store!Next)
    BY <2>2, OpenShows DEF Store!Next
  <2>3. \A h : h \in DOMAIN ShownHandles =>
          /\ \A buf \in Buffers : Store!Write(h, buf) \/ Store!Read(h, Len(buf)) => Store!Next
          /\ \A copy \in Handles : Store!Copy(h, copy) => Store!Next
          /\ Store!Close(h) => Store!Next
    BY DEF Store!Next, ShownHandles, OpenOf, NameOf
  <2>4. ASSUME NEW h \in Handles, NEW buf \in Buffers, Read(h, Len(buf))
        PROVE  StoreInv' /\ (UNCHANGED <<view, handles>> \/ Store!Next)
    <3>1. Len(buf) \in Nat
      BY CellAssumption
    <3>2. StoreInv' /\ (UNCHANGED <<view, handles>> \/ (h \in DOMAIN ShownHandles /\ Store!Read(h, Len(buf))))
      BY <2>4, <3>1, ReadStepShows
    <3> QED BY <2>3, <3>2
  <2>5. ASSUME NEW h \in Handles, NEW buf \in Buffers, Write(h, buf)
        PROVE  StoreInv' /\ (UNCHANGED <<view, handles>> \/ Store!Next)
    <3>1. StoreInv' /\ (UNCHANGED <<view, handles>> \/ (h \in DOMAIN ShownHandles /\ Store!Write(h, buf)))
      BY <2>5, WriteStepShows
    <3> QED BY <2>3, <3>1
  <2>6. ASSUME NEW h \in Handles, NEW copy \in Handles, Fork(h, copy)
        PROVE  StoreInv' /\ (UNCHANGED <<view, handles>> \/ Store!Next)
    <3>1. StoreInv' /\ h \in DOMAIN ShownHandles /\ Store!Copy(h, copy)
      BY <2>6, OtherStepsShow
    <3> QED BY <2>3, <3>1
  <2>7. ASSUME NEW h \in Handles, Close(h)
        PROVE  StoreInv' /\ (UNCHANGED <<view, handles>> \/ Store!Next)
    <3>1. StoreInv' /\ h \in DOMAIN ShownHandles /\ Store!Close(h)
      BY <2>7, OtherStepsShow
    <3> QED BY <2>3, <3>1
  <2>8. ASSUME Restart PROVE StoreInv' /\ (UNCHANGED <<view, handles>> \/ Store!Next)
    <3>1. StoreInv' /\ Store!Restart
      BY <2>8, OtherStepsShow
    <3> QED BY <3>1 DEF Store!Next
  <2>9. ASSUME UNCHANGED vars \/ Halted PROVE StoreInv' /\ (UNCHANGED <<view, handles>> \/ Store!Next)
    <3>1. UNCHANGED vars
      BY <2>9 DEF Halted
    <3> QED BY <3>1 DEF vars, StoreInv, Running
  <2>10. StoreInv' /\ (UNCHANGED <<view, handles>> \/ Store!Next)
    BY <2>1, <2>2, <2>4, <2>5, <2>6, <2>7, <2>8, <2>9, Zenon DEF Next
  <2> QED BY <2>0, <2>10
<1> QED BY <1>1, <1>2, <1>3, FsInvariant, PTL DEF Spec, StoreImplemented, Store!Spec
===============================================================================
