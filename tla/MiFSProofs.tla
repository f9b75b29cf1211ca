----------------------------- MODULE MiFSProofs -----------------------------
(***************************************************************************)
(* Proofs about the FUSE file system, for tables, blocks and disks of any  *)
(* size, any names and any bytes: the tables in memory and on the disk     *)
(* agree after every call, the count of free blocks never promises too     *)
(* many, the program is only lost after a fault, and a file is what was    *)
(* written to it.                                                          *)
(*                                                                         *)
(* First come the facts about the model's operators: the blocks that the   *)
(* scan of the map finds, and the ways in which a resize can end, grow or  *)
(* cut. Then where my_write puts its bytes, the inductive invariant FSInv  *)
(* call by call, with what is left of the tables when a change of size has *)
(* failed half way (Enough and Counted, the part on loose tables), the     *)
(* theorems about the structures, and last the bytes of the files and the  *)
(* refinement of ByteStore.                                                *)
(***************************************************************************)
EXTENDS MiFS, FiniteSetTheorems, SequenceTheorems, WellFoundedInduction, TLAPS

\* The numbers of blocks are natural.
LEMMA RoomInNode == MaxFileBlocks \in Nat
BY MiFSAssumption

\* A set of natural numbers that is not empty has a least element.
LEMMA MinExists ==
  ASSUME NEW S, S \subseteq Nat, S # {}
  PROVE  Min(S) \in S /\ \A y \in S : Min(S) <= y
<1>1. PICK x \in S : \A y \in S : <<y, x>> \notin OpToRel(<, Nat)
  BY NatLessThanWellFounded, WFMin
<1>2. ASSUME NEW y \in S, y < x PROVE <<y, x>> \in OpToRel(<, Nat)
  <2>1. <<y, x>> \in Nat \X Nat /\ <<y, x>>[1] < <<y, x>>[2]
    BY <1>2
  <2> QED BY <2>1, Zenon DEF OpToRel
<1>3. \A y \in S : ~(y < x)
  BY <1>1, <1>2
<1>4. x \in S /\ \A y \in S : x <= y
  <2>1. ASSUME NEW y \in S PROVE x <= y
    <3>1. x \in Nat /\ y \in Nat /\ ~(y < x)
      BY <1>1, <1>3
    <3> QED BY <3>1
  <2> QED BY <1>1, <2>1
<1> QED BY <1>4 DEF Min

\* Induction over the natural numbers, for a set of them
LEMMA NatSet ==
  ASSUME NEW S, 0 \in S, \A n \in Nat : n \in S => n + 1 \in S
  PROVE  \A n \in Nat : n \in S
<1> SUFFICES ASSUME NEW n \in Nat, n \notin S PROVE FALSE
  OBVIOUS
<1> DEFINE T == Nat \ S
           x == Min(T)
<1>1. x \in T /\ \A y \in T : x <= y
  <2>1. T \subseteq Nat /\ T # {}
    OBVIOUS
  <2> QED BY <2>1, MinExists
<1> HIDE DEF x
<1>2. x # 0 /\ x - 1 \in Nat
  BY <1>1
<1>3. x - 1 \in S
  BY <1>1, <1>2
<1>4. (x - 1) + 1 \in S /\ (x - 1) + 1 = x
  BY <1>1, <1>2, <1>3
<1> QED BY <1>1, <1>4

\* A sequence without repetitions has as many elements as its length.
LEMMA RangeSize ==
  ASSUME NEW S, NEW q \in Seq(S), IsInjective(q)
  PROVE  IsFiniteSet(Range(q)) /\ Cardinality(Range(q)) = Len(q)
<1>1. Len(q) \in Nat /\ DOMAIN q = 1 .. Len(q) /\ q = [i \in 1 .. Len(q) |-> q[i]]
  OBVIOUS
<1>2. q \in [1 .. Len(q) -> Range(q)]
  BY <1>1 DEF Range
<1>3. q \in Bijection(1 .. Len(q), Range(q))
  BY <1>1, <1>2 DEF Bijection, Injection, Surjection, IsInjective, Range
<1>4. ExistsBijection(1 .. Len(q), Range(q))
  BY <1>3 DEF ExistsBijection
<1>5. IsFiniteSet(1 .. Len(q)) /\ Cardinality(1 .. Len(q)) = Len(q)
  <2>1. 1 \in Int /\ Len(q) \in Int
    BY <1>1
  <2>2. /\ IsFiniteSet(1 .. Len(q))
        /\ Cardinality(1 .. Len(q)) = IF 1 > Len(q) THEN 0 ELSE Len(q) - 1 + 1
    BY <2>1, FS_Interval
  <2> QED BY <1>1, <2>2
<1> QED BY <1>4, <1>5, FS_Bijection

\* The first n passes of the scan of the map
Scan(v, n, f) ==
    /\ FirstFit(v, n) = f[n]
    /\ f[0] = <<>>
    /\ \A k \in 1 .. n : f[k] =
          Append(f[k - 1], Min(Block \ (v.used \cup Range(f[k - 1]))))

\* The recursive scan of the map is a function of the number of passes.
LEMMA FitFunction ==
  ASSUME NEW v, NEW n \in Nat
  PROVE  \E f : Scan(v, n, f)
<1> DEFINE Add(q) == Append(q, Min(Block \ (v.used \cup Range(q))))
           G == {m \in Nat : \E g : g = [k \in 0 .. m |-> IF k = 0 THEN <<>> ELSE Add(g[k - 1])]}
           f == CHOOSE g : g = [k \in 0 .. n |-> IF k = 0 THEN <<>> ELSE Add(g[k - 1])]
<1>1. FirstFit(v, n) = f[n]
  BY DEF FirstFit
<1> HIDE DEF Add
<1>2. 0 \in G
  <2> DEFINE g == [k \in 0 .. 0 |-> <<>>]
  <2>1. g = [k \in 0 .. 0 |-> IF k = 0 THEN <<>> ELSE Add(g[k - 1])]
    OBVIOUS
  <2> QED BY <2>1
<1>3. \A m \in Nat : m \in G => m + 1 \in G
  <2> SUFFICES ASSUME NEW m \in Nat, m \in G PROVE m + 1 \in G
    OBVIOUS
  <2> PICK g : g = [k \in 0 .. m |-> IF k = 0 THEN <<>> ELSE Add(g[k - 1])]
    OBVIOUS
  <2> DEFINE h == [k \in 0 .. m + 1 |-> IF k = m + 1 THEN Add(g[m]) ELSE g[k]]
  <2>0. ASSUME NEW k \in 0 .. m
        PROVE  g[k] = IF k = 0 THEN <<>> ELSE Add(g[k - 1])
    <3> DEFINE b == [x \in 0 .. m |-> IF x = 0 THEN <<>> ELSE Add(g[x - 1])]
    <3>1. g = b
      OBVIOUS
    <3>2. b[k] = IF k = 0 THEN <<>> ELSE Add(g[k - 1])
      OBVIOUS
    <3> HIDE DEF b
    <3> QED BY <3>1, <3>2
  <2>1. \A k \in 0 .. m : h[k] = g[k] /\ g[k] = IF k = 0 THEN <<>> ELSE Add(g[k - 1])
    <3>1. \A k \in 0 .. m : k \in 0 .. m + 1 /\ k # m + 1
      OBVIOUS
    <3> QED BY <2>0, <3>1, Zenon
  <2>2. ASSUME NEW k \in 0 .. m + 1
        PROVE  h[k] = IF k = 0 THEN <<>> ELSE Add(h[k - 1])
    <3>1. CASE k = 0
      BY <2>1, <3>1
    <3>2. CASE k \in 1 .. m
      <4>1. k - 1 \in 0 .. m /\ k \in 0 .. m
        BY <3>2
      <4> QED BY <2>1, <3>2, <4>1
    <3>3. CASE k = m + 1
      <4>1. h[k] = Add(g[m]) /\ h[m] = g[m] /\ k - 1 = m
        BY <2>1, <3>3
      <4> QED BY <3>3, <4>1
    <3> QED BY <3>1, <3>2, <3>3
  <2>3. h = [k \in 0 .. m + 1 |-> IF k = 0 THEN <<>> ELSE Add(h[k - 1])]
    <3> DEFINE b == [k \in 0 .. m + 1 |-> IF k = 0 THEN <<>> ELSE Add(h[k - 1])]
    <3>1. \A k \in 0 .. m + 1 : h[k] = b[k]
      BY <2>2
    <3>2. DOMAIN h = 0 .. m + 1 /\ DOMAIN b = 0 .. m + 1
      OBVIOUS
    <3> HIDE DEF b
    <3> QED BY <3>1, <3>2 DEF b
  <2> HIDE DEF h
  <2> QED BY <2>3
<1>4. n \in G
  BY <1>2, <1>3, NatSet
<1>5. f = [k \in 0 .. n |-> IF k = 0 THEN <<>> ELSE Add(f[k - 1])]
  BY <1>4
<1> HIDE DEF f
<1>6. f[0] = <<>> /\ \A k \in 1 .. n : f[k] = Add(f[k - 1])
  BY <1>5
<1> QED BY <1>1, <1>6 DEF Add, Scan
-----------------------------------------------------------------------------
\* The blocks of the disk that are free
Free(bits) == (0 .. NumBlocks - 1) \ bits

\* The count of the free blocks.
LEMMA FreeFinite ==
  ASSUME NEW bits
  PROVE  IsFiniteSet(Free(bits)) /\ Cardinality(Free(bits)) = Quota(bits)
         /\ Quota(bits) \in Nat
<1>1. IsFiniteSet(0 .. NumBlocks - 1)
  <2>1. NumBlocks - 1 \in Int /\ 0 \in Int
    BY MiFSAssumption
  <2> QED BY <2>1, FS_Interval
<1>2. Free(bits) \in SUBSET (0 .. NumBlocks - 1)
  BY DEF Free
<1> QED BY <1>1, <1>2, FS_Subset, FS_CardinalityType DEF Free, Quota

\* Marking blocks of the disk that were free, and the other way round
LEMMA QuotaOfMore ==
  ASSUME NEW bits, NEW S, IsFiniteSet(S), S \subseteq Free(bits)
  PROVE  Quota(bits \cup S) = Quota(bits) - Cardinality(S)
<1> DEFINE F == Free(bits)
           G == Free(bits \cup S)
<1>1. G = F \ S /\ F = G \cup S /\ G \cap S = {}
  BY DEF Free
<1>2. /\ IsFiniteSet(F) /\ Cardinality(F) = Quota(bits)
      /\ IsFiniteSet(G) /\ Cardinality(G) = Quota(bits \cup S) /\ Quota(bits \cup S) \in Nat
  BY FreeFinite
<1>3. Cardinality(G \cup S) = Cardinality(G) + Cardinality(S) - Cardinality(G \cap S)
  BY <1>2, FS_Union
<1>4. Cardinality(G \cap S) = 0
  BY <1>1, FS_EmptySet
<1>5. Cardinality(S) \in Nat
  BY FS_CardinalityType
<1>6. Cardinality(F) = Cardinality(G \cup S)
  BY <1>1
<1> QED BY <1>2, <1>3, <1>4, <1>5, <1>6

\* Freeing marked blocks of the disk raises the count by as many.
LEMMA QuotaOfLess ==
  ASSUME NEW bits, NEW S, IsFiniteSet(S), S \subseteq bits, S \subseteq 0 .. NumBlocks - 1
  PROVE  Quota(bits \ S) = Quota(bits) + Cardinality(S)
<1>1. bits = (bits \ S) \cup S /\ S \subseteq Free(bits \ S)
  BY DEF Free
<1>2. Quota(bits) = Quota(bits \ S) - Cardinality(S)
  <2>1. Quota((bits \ S) \cup S) = Quota(bits \ S) - Cardinality(S)
    BY <1>1, QuotaOfMore
  <2> QED BY <1>1, <2>1
<1>3. Quota(bits \ S) \in Nat /\ Cardinality(S) \in Nat
  BY FreeFinite, FS_CardinalityType
<1> QED BY <1>2, <1>3

\* n distinct blocks of the set U
Chosen(U, bs, n) ==
    bs \in Seq(Block) /\ Len(bs) = n /\ IsInjective(bs) /\ Range(bs) \subseteq U

\* The scan takes the free bits from the first one on: it finds n distinct
\* ones in every beginning of the free bits that has as many.
LEMMA ScanFinds ==
  ASSUME NEW v, NEW U, U \subseteq Block \ v.used, IsFiniteSet(U),
         \A x \in Block \ v.used : \A y \in U : x <= y => x \in U,
         NEW n \in Nat, n <= Cardinality(U)
  PROVE  Chosen(U, FirstFit(v, n), n)
<1>0. PICK f : Scan(v, n, f)
  BY FitFunction
<1>1. /\ FirstFit(v, n) = f[n]
      /\ f[0] = <<>>
      /\ \A k \in 1 .. n : f[k] =
            Append(f[k - 1], Min(Block \ (v.used \cup Range(f[k - 1]))))
  BY <1>0 DEF Scan
<1> DEFINE S == {k \in Nat : k <= n => Chosen(U, f[k], k)}
<1>2. 0 \in S
  <2>1. Chosen(U, <<>>, 0)
    BY DEF Chosen, IsInjective, Range
  <2> QED BY <1>1, <2>1
<1>3. ASSUME NEW k \in Nat, k \in S PROVE k + 1 \in S
  <2> SUFFICES ASSUME k + 1 <= n PROVE Chosen(U, f[k + 1], k + 1)
    OBVIOUS
  <2>0. k <= n /\ k + 1 \in 1 .. n /\ (k + 1) - 1 = k
    OBVIOUS
  <2>1. Chosen(U, f[k], k)
    BY <1>3, <2>0
  <2> DEFINE q == f[k]
             x == Min(Block \ (v.used \cup Range(q)))
  <2>2. f[k + 1] = Append(q, x)
    BY <1>1, <2>0
  <2>3. q \in Seq(Block) /\ Len(q) = k /\ IsInjective(q) /\ Range(q) \subseteq U
    BY <2>1 DEF Chosen
  <2> HIDE DEF q
  <2>4. Cardinality(Range(q)) = k /\ IsFiniteSet(Range(q))
    BY <2>3, RangeSize
  <2>5. PICK y \in U : y \notin Range(q)
    <3>1. Cardinality(U) >= k + 1 /\ Cardinality(U) \in Nat
      BY FS_CardinalityType
    <3>2. U # Range(q)
      BY <2>4, <3>1
    <3> QED BY <2>3, <3>2
  <2>6. x \in Block \ (v.used \cup Range(q)) /\ x <= y
    <3>1. y \in Block \ (v.used \cup Range(q)) /\ Block \subseteq Nat
      BY <2>5, MiFSAssumption DEF Block
    <3> QED BY <3>1, MinExists
  <2> HIDE DEF x
  <2>7. x \in U /\ x \notin Range(q) /\ x \in Block
    BY <2>5, <2>6
  <2>8. /\ Append(q, x) \in Seq(Block) /\ Len(Append(q, x)) = k + 1
        /\ DOMAIN Append(q, x) = 1 .. k + 1
        /\ \A i \in 1 .. k : Append(q, x)[i] = q[i]
        /\ Append(q, x)[k + 1] = x
    BY <2>3, <2>7
  <2>9. DOMAIN q = 1 .. k /\ \A i \in 1 .. k : q[i] \in Range(q)
    BY <2>3 DEF Range
  <2> DEFINE r == Append(q, x)
  <2> HIDE DEF r
  <2>10. IsInjective(r)
    <3> SUFFICES ASSUME NEW i \in 1 .. k + 1, NEW j \in 1 .. k + 1, r[i] = r[j] PROVE i = j
      BY <2>8 DEF IsInjective, r
    <3>1. CASE i \in 1 .. k /\ j \in 1 .. k
      BY <2>3, <2>8, <2>9, <3>1 DEF IsInjective, r
    <3>2. CASE i = k + 1 /\ j # k + 1
      <4>1. j \in 1 .. k /\ r[j] = q[j] /\ r[i] = x
        BY <2>8, <3>2 DEF r
      <4> QED BY <2>7, <2>9, <4>1
    <3>3. CASE i # k + 1 /\ j = k + 1
      <4>1. i \in 1 .. k /\ r[i] = q[i] /\ r[j] = x
        BY <2>8, <3>3 DEF r
      <4> QED BY <2>7, <2>9, <4>1
    <3> QED BY <3>1, <3>2, <3>3
  <2>11. Range(r) \subseteq U
    <3>1. \A i \in 1 .. k + 1 : r[i] \in U
      <4> TAKE i \in 1 .. k + 1
      <4>1. CASE i = k + 1
        BY <2>7, <2>8, <4>1 DEF r
      <4>2. CASE i # k + 1
        <5>1. i \in 1 .. k
          BY <4>2
        <5> QED BY <2>3, <2>8, <2>9, <5>1 DEF r
      <4> QED BY <4>1, <4>2
    <3> QED BY <2>8, <3>1 DEF Range, r
  <2> QED BY <2>2, <2>8, <2>10, <2>11 DEF Chosen, r
<1>4. n \in S
  BY <1>2, <1>3, NatSet
<1> QED BY <1>1, <1>4

\* n distinct free blocks of the disk
Fits(v, bs, n) == Chosen(Free(v.used), bs, n)

\* As long as the count is not larger than the map says, the scan finds n
\* distinct blocks of the disk that are free, although the map has more bits.
THEOREM FirstFitResult ==
  ASSUME NEW v, NEW n \in Nat, n <= Quota(v.used)
  PROVE  Fits(v, FirstFit(v, n), n)
<1>1. Free(v.used) \subseteq Block \ v.used
  BY MiFSAssumption DEF Free, Block
<1>2. \A x \in Block \ v.used : \A y \in Free(v.used) : x <= y => x \in Free(v.used)
  BY MiFSAssumption DEF Free, Block
<1>3. IsFiniteSet(Free(v.used)) /\ n <= Cardinality(Free(v.used))
  BY FreeFinite
<1> QED BY <1>1, <1>2, <1>3, ScanFinds DEF Fits

\* The bits of the map are finitely many.
LEMMA BlockFinite == IsFiniteSet(Block)
  BY MiFSAssumption, FS_Interval DEF Block

\* As long as the map has n bits that are not set, the scan ends.
LEMMA FirstFitBits ==
  ASSUME NEW v, NEW n \in Nat, n <= Cardinality(Block \ v.used)
  PROVE  FirstFit(v, n) \in Seq(Block) /\ Len(FirstFit(v, n)) = n
<1>1. IsFiniteSet(Block \ v.used)
  BY BlockFinite, FS_Subset
<1>2. Chosen(Block \ v.used, FirstFit(v, n), n)
  BY <1>1, ScanFinds
<1> QED BY <1>2 DEF Chosen
-----------------------------------------------------------------------------
\* Division with remainder
LEMMA Divide ==
  ASSUME NEW a \in Nat, NEW b \in Nat \ {0}
  PROVE  /\ a \div b \in Nat /\ a % b \in 0 .. b - 1
         /\ a = b * (a \div b) + (a % b)
OBVIOUS

\* A common factor is cancelled.
LEMMA LessTimes ==
  ASSUME NEW b \in Nat \ {0}, NEW x \in Int, NEW y \in Int, b * x < b * y
  PROVE  x < y
OBVIOUS

\* A file of that size goes to the last of its blocks, and not over it.
LEMMA Division ==
  ASSUME NEW size \in Nat
  PROVE  /\ NumBlocksOf(size) \in Nat
         /\ size <= BlockSize * NumBlocksOf(size)
         /\ BlockSize * NumBlocksOf(size) < size + BlockSize
<1> DEFINE B == BlockSize
           a == size + B - 1
           N == a \div B
           r == a % B
<1>1. B \in Nat \ {0} /\ a \in Nat
  BY MiFSAssumption
<1>2. N \in Nat /\ r \in 0 .. B - 1 /\ a = B * N + r
  BY <1>1, Divide
<1>3. NumBlocksOf(size) = N
  BY DEF NumBlocksOf
<1> HIDE DEF N, r
<1>4. B * N \in Nat
  BY <1>1, <1>2
<1> QED BY <1>1, <1>2, <1>3, <1>4

\* A larger file has as many blocks or more.
LEMMA Grows ==
  ASSUME NEW a \in Nat, NEW b \in Nat, a <= b
  PROVE  NumBlocksOf(a) <= NumBlocksOf(b)
<1> DEFINE M == NumBlocksOf(a)
           N == NumBlocksOf(b)
           B == BlockSize
<1>1. B \in Nat \ {0} /\ M \in Nat /\ N \in Nat /\ b <= B * N /\ B * M < a + B
  BY Division, MiFSAssumption
<1> HIDE DEF M, N, B
<1>2. B * (N + 1) = B * N + B /\ B * N \in Nat /\ B * M \in Nat
  BY <1>1
<1>3. B * M < B * (N + 1)
  BY <1>1, <1>2
<1>4. M < N + 1
  BY <1>1, <1>3, LessTimes
<1> QED BY <1>1, <1>4 DEF M, N

\* The byte at position k of a file of that size is in one of its blocks.
LEMMA InBlock ==
  ASSUME NEW size \in Nat, NEW k \in 0 .. size - 1
  PROVE  /\ k \div BlockSize \in 0 .. NumBlocksOf(size) - 1
         /\ k % BlockSize \in 0 .. BlockSize - 1
         /\ k = BlockSize * (k \div BlockSize) + (k % BlockSize)
<1> DEFINE B == BlockSize
           N == NumBlocksOf(size)
           q == k \div B
           r == k % B
<1>1. B \in Nat \ {0} /\ k \in Nat
  BY MiFSAssumption
<1>2. q \in Nat /\ r \in 0 .. B - 1 /\ k = B * q + r
  BY <1>1, Divide
<1>3. N \in Nat /\ size <= B * N
  BY Division
<1> HIDE DEF q, r, N
<1>4. B * q \in Nat /\ B * N \in Nat
  BY <1>1, <1>2, <1>3
<1>5. B * q < B * N
  BY <1>1, <1>2, <1>3, <1>4
<1>6. q < N
  BY <1>1, <1>2, <1>3, <1>5, LessTimes
<1> QED BY <1>1, <1>2, <1>3, <1>6 DEF q, r, N
-----------------------------------------------------------------------------
\* What a byte of the disk can be
Byte == Nat \cup {Junk}

\* A node on the disk, and the tables in memory
NodeType == [size : Nat, num : 0 .. MaxFileBlocks, idx : [1 .. MaxFileBlocks -> Block \cup {Null}]]

\* The node table, the map, the count of free blocks and the data
VolType(v) ==
    /\ v = [node |-> v.node, used |-> v.used, free |-> v.free, data |-> v.data]
    /\ v.node \in [Inode -> NodeType \cup {Null}]
    /\ v.used \subseteq Block /\ v.free \in Nat
    /\ v.data \in [Block -> [0 .. BlockSize - 1 -> Byte]]

\* A node is not the entry of a file that does not exist.
LEMMA NodeIsNotNull == \A nd \in NodeType : nd # Null
<1> SUFFICES Null \notin NodeType
  BY Zenon
<1>1. Null \notin [size : Nat, num : Nat, idx : [1 .. MaxFileBlocks -> Nat \cup {Null}]]
  BY NothingAssumption, Zenon
<1>2. ASSUME NEW nd \in NodeType
      PROVE  nd \in [size : Nat, num : Nat, idx : [1 .. MaxFileBlocks -> Nat \cup {Null}]]
  <2>1. /\ nd = [size |-> nd.size, num |-> nd.num, idx |-> nd.idx]
        /\ nd.size \in Nat /\ nd.num \in 0 .. MaxFileBlocks
        /\ nd.idx \in [1 .. MaxFileBlocks -> Block \cup {Null}]
    BY <1>2 DEF NodeType
  <2>2. Block \cup {Null} \subseteq Nat \cup {Null} /\ 0 .. MaxFileBlocks \subseteq Nat
    BY MiFSAssumption DEF Block
  <2>3. nd.idx \in [1 .. MaxFileBlocks -> Nat \cup {Null}] /\ nd.num \in Nat
    BY <2>1, <2>2
  <2> QED BY <2>1, <2>3
<1> QED BY <1>1, <1>2

\* The fields of a node
LEMMA NodeFields ==
  ASSUME NEW nd \in NodeType
  PROVE  /\ nd = [size |-> nd.size, num |-> nd.num, idx |-> nd.idx]
         /\ nd.size \in Nat /\ nd.num \in Nat /\ nd.num <= MaxFileBlocks
         /\ nd.idx \in [1 .. MaxFileBlocks -> Block \cup {Null}]
  BY MiFSAssumption DEF NodeType

\* What the scan makes of the indices of a node
IdxAfter(nd, bs) == [j \in DOMAIN nd.idx |->
    IF j \in nd.num + 1 .. nd.num + Len(bs) THEN bs[j - nd.num] ELSE nd.idx[j]]

\* A block of zeros is a block.
LEMMA ZerosType == Zeros \in [0 .. BlockSize - 1 -> Byte]
  BY DEF Zeros, Byte

\* nw is the node nd with the blocks bs behind its own, and num as its count.
Longer(nd, num, bs, nw) ==
    /\ nw \in NodeType /\ nw.num = num
    /\ \A j \in 1 .. nd.num : nw.idx[j] = nd.idx[j]
    /\ \A j \in nd.num + 1 .. nd.num + Len(bs) : nw.idx[j] = bs[j - nd.num]

\* The node that the scan of a growth writes
LEMMA LongerNode ==
  ASSUME NEW nd \in NodeType, NEW num \in 0 .. MaxFileBlocks, NEW bs \in Seq(Block),
         nd.num + Len(bs) <= num, NEW size \in Nat,
         NEW nw, nw = [size |-> size, num |-> num, idx |-> IdxAfter(nd, bs)]
  PROVE  Longer(nd, num, bs, nw)
<1>1. /\ nd.num \in Nat /\ nd.num <= MaxFileBlocks /\ MaxFileBlocks \in Nat
      /\ nd.idx \in [1 .. MaxFileBlocks -> Block \cup {Null}]
  BY NodeFields, MiFSAssumption
<1> PICK n : n = Len(bs)
  OBVIOUS
<1>0. n \in Nat /\ nd.num + n <= MaxFileBlocks
  BY <1>1
<1> PICK idx : idx = IdxAfter(nd, bs)
  OBVIOUS
<1>2. idx = [j \in 1 .. MaxFileBlocks |->
                IF j \in nd.num + 1 .. nd.num + n THEN bs[j - nd.num] ELSE nd.idx[j]]
  BY <1>1 DEF IdxAfter
<1>3. \A j \in nd.num + 1 .. nd.num + n : bs[j - nd.num] \in Block
  <2> TAKE j \in nd.num + 1 .. nd.num + n
  <2>1. j - nd.num \in 1 .. Len(bs)
    BY <1>0, <1>1
  <2> QED BY <2>1
<1>4. idx \in [1 .. MaxFileBlocks -> Block \cup {Null}]
  BY <1>1, <1>2, <1>3
<1>6. nw \in NodeType /\ nw.num = num /\ nw.idx = idx
  BY <1>4 DEF NodeType
<1>7. ASSUME NEW j \in 1 .. nd.num PROVE nw.idx[j] = nd.idx[j]
  <2>1. j \in 1 .. MaxFileBlocks /\ j \notin nd.num + 1 .. nd.num + n
    BY <1>0, <1>1
  <2> QED BY <1>2, <1>6, <2>1
<1>8. ASSUME NEW j \in nd.num + 1 .. nd.num + n PROVE nw.idx[j] = bs[j - nd.num]
  <2>1. j \in 1 .. MaxFileBlocks
    BY <1>0, <1>1
  <2> QED BY <1>2, <1>6, <2>1
<1> QED BY <1>6, <1>7, <1>8 DEF Longer

\* The scan has taken the blocks bs, and erased the first n of them.
Taken(v, i, num, bs, n, g) ==
    /\ VolType(g)
    /\ \A x \in Inode \ {i} : g.node[x] = v.node[x]
    /\ Longer(v.node[i], num, bs, g.node[i]) /\ g.node[i].size = v.node[i].size
    /\ g.used = v.used \cup Range(bs)
    /\ g.free = v.free - (num - v.node[i].num)
    /\ \A b \in Block : g.data[b] = IF b \in Range(SubSeq(bs, 1, n)) THEN Zeros
                                     ELSE v.data[b]

\* A growth takes the blocks it found and erases the first n.
LEMMA GrownTaken ==
  ASSUME NEW v, VolType(v), NEW i \in Inode, NEW nd \in NodeType, nd = v.node[i],
         NEW num \in 0 .. MaxFileBlocks, NEW bs \in Seq(Block), nd.num + Len(bs) <= num,
         num - nd.num <= v.free, NEW n
  PROVE  Taken(v, i, num, bs, n, Grown(v, i, num, bs, n))
<1>1. nd = [size |-> nd.size, num |-> nd.num, idx |-> nd.idx] /\ nd.size \in Nat /\ nd.num \in Nat
  BY NodeFields
<1>2. /\ v = [node |-> v.node, used |-> v.used, free |-> v.free, data |-> v.data]
      /\ v.node = [x \in Inode |-> v.node[x]]
      /\ v.node \in [Inode -> NodeType \cup {Null}] /\ v.used \subseteq Block /\ v.free \in Nat
      /\ v.data \in [Block -> [0 .. BlockSize - 1 -> Byte]]
  BY DEF VolType
<1> PICK g : g = Grown(v, i, num, bs, n)
  OBVIOUS
<1>3. g = [node |-> g.node, used |-> g.used, free |-> g.free, data |-> g.data]
  BY <1>2 DEF Grown
<1>4. g.used = v.used \cup Range(bs) /\ g.free = v.free - (num - nd.num)
  BY <1>2 DEF Grown, LessAsked
<1>5. g.data = [b \in Block |-> IF b \in Range(SubSeq(bs, 1, n)) THEN Zeros ELSE v.data[b]]
  BY <1>2 DEF Grown
<1>6. g.node = [x \in Inode |-> g.node[x]] /\ \A x \in Inode \ {i} : g.node[x] = v.node[x]
  BY <1>2 DEF Grown
<1>7. g.node[i] = [size |-> nd.size, num |-> num, idx |-> IdxAfter(nd, bs)]
  BY <1>1, <1>2 DEF Grown, IdxAfter
<1> PICK nw : nw = g.node[i]
  OBVIOUS
<1>8. Longer(nd, num, bs, nw)
  BY <1>1, <1>7, LongerNode
<1>9. nw \in NodeType /\ nw.size = nd.size
  BY <1>7, <1>8 DEF Longer
<1>10. g.node \in [Inode -> NodeType \cup {Null}]
  <2>1. ASSUME NEW x \in Inode PROVE g.node[x] \in NodeType \cup {Null}
    BY <1>2, <1>6, <1>9
  <2> QED BY <1>6, <2>1
<1>11. g.used \subseteq Block
  BY <1>2, <1>4 DEF Range
<1>12. g.free \in Nat
  BY <1>1, <1>2, <1>4
<1>13. g.data \in [Block -> [0 .. BlockSize - 1 -> Byte]]
  BY <1>2, <1>5, ZerosType
<1>14. VolType(g)
  BY <1>3, <1>10, <1>11, <1>12, <1>13 DEF VolType
<1>15. \A b \in Block : g.data[b] = IF b \in Range(SubSeq(bs, 1, n)) THEN Zeros ELSE v.data[b]
  BY <1>5
<1> QED BY <1>4, <1>6, <1>8, <1>9, <1>14, <1>15 DEF Taken

\* Only the size of a node is set.
SizeSet(v, i, size, g) ==
    /\ VolType(g)
    /\ \A x \in Inode \ {i} : g.node[x] = v.node[x]
    /\ g.node[i] \in NodeType /\ g.node[i].size = size
    /\ g.node[i].num = v.node[i].num /\ g.node[i].idx = v.node[i].idx
    /\ g.used = v.used /\ g.free = v.free /\ g.data = v.data

\* Setting a size changes nothing else.
LEMMA SizeIsSet ==
  ASSUME NEW v, VolType(v), NEW i \in Inode, NEW nd \in NodeType, nd = v.node[i],
         NEW size \in Nat
  PROVE  SizeSet(v, i, size, [v EXCEPT !.node[i].size = size])
<1>1. nd = [size |-> nd.size, num |-> nd.num, idx |-> nd.idx]
      /\ nd.num \in 0 .. MaxFileBlocks /\ nd.idx \in [1 .. MaxFileBlocks -> Block \cup {Null}]
  BY NodeFields, MiFSAssumption
<1>2. /\ v = [node |-> v.node, used |-> v.used, free |-> v.free, data |-> v.data]
      /\ v.node = [x \in Inode |-> v.node[x]]
      /\ v.node \in [Inode -> NodeType \cup {Null}] /\ v.used \subseteq Block /\ v.free \in Nat
      /\ v.data \in [Block -> [0 .. BlockSize - 1 -> Byte]]
  BY DEF VolType
<1> PICK g : g = [v EXCEPT !.node[i].size = size]
  OBVIOUS
<1>3. g = [node |-> g.node, used |-> g.used, free |-> g.free, data |-> g.data]
  BY <1>2
<1>4. g.used = v.used /\ g.free = v.free /\ g.data = v.data
  BY <1>2
<1>5. g.node = [x \in Inode |-> g.node[x]] /\ \A x \in Inode \ {i} : g.node[x] = v.node[x]
  BY <1>2
<1>6. g.node[i] = [size |-> size, num |-> nd.num, idx |-> nd.idx]
  BY <1>1, <1>2
<1>7. g.node[i] \in NodeType
  BY <1>1, <1>6 DEF NodeType
<1>8. g.node \in [Inode -> NodeType \cup {Null}]
  <2>1. ASSUME NEW x \in Inode PROVE g.node[x] \in NodeType \cup {Null}
    BY <1>2, <1>5, <1>7
  <2> QED BY <1>5, <2>1
<1>9. VolType(g)
  BY <1>2, <1>3, <1>4, <1>8 DEF VolType
<1> QED BY <1>4, <1>5, <1>6, <1>7, <1>9 DEF SizeSet

\* The blocks of a node from number n on
Ending(nd, n) == {nd.idx[j] : j \in n .. nd.num}

\* The blocks from number n on are free, and all but m of them are erased.
CutAt(v, i, keep, n, m, g) ==
    /\ VolType(g) /\ g.node = v.node
    /\ g.used = v.used \ Ending(v.node[i], n)
    /\ g.free = v.free + v.node[i].num - keep
    /\ \A b \in Block : g.data[b] = IF b \in Ending(v.node[i], n + m) THEN Zeros ELSE v.data[b]

\* A cut frees and erases the ending of a file.
LEMMA CutIsDone ==
  ASSUME NEW v, VolType(v), NEW i \in Inode, NEW nd \in NodeType, nd = v.node[i],
         NEW keep \in 0 .. nd.num, NEW n, NEW m
  PROVE  CutAt(v, i, keep, n, m, Cut(v, i, keep, n, m))
<1>1. /\ v = [node |-> v.node, used |-> v.used, free |-> v.free, data |-> v.data]
      /\ v.node \in [Inode -> NodeType \cup {Null}] /\ v.used \subseteq Block /\ v.free \in Nat
      /\ v.data \in [Block -> [0 .. BlockSize - 1 -> Byte]]
  BY DEF VolType
<1>2. nd.num \in Nat
  BY NodeFields
<1> PICK g : g = Cut(v, i, keep, n, m)
  OBVIOUS
<1>3. g = [node |-> g.node, used |-> g.used, free |-> g.free, data |-> g.data]
  BY <1>1 DEF Cut
<1>4. /\ g.node = v.node /\ g.used = v.used \ Ending(nd, n)
      /\ g.free = v.free + nd.num - keep
  BY <1>1 DEF Cut, Regained, Ending
<1>5. g.data = [b \in Block |->
          IF \E j \in n + m .. nd.num : nd.idx[j] = b THEN Zeros ELSE v.data[b]]
  BY <1>1 DEF Cut
<1>6. g.data \in [Block -> [0 .. BlockSize - 1 -> Byte]]
  BY <1>1, <1>5, ZerosType
<1>7. \A b \in Block : g.data[b] = IF b \in Ending(nd, n + m) THEN Zeros ELSE v.data[b]
  BY <1>5 DEF Ending
<1>8. g.free \in Nat /\ g.used \subseteq Block
  BY <1>1, <1>2, <1>4
<1>9. VolType(g)
  BY <1>1, <1>3, <1>4, <1>6, <1>8 DEF VolType
<1> QED BY <1>4, <1>7, <1>9 DEF CutAt

\* The node of the file knows of the cut.
Shrunk(v, i, keep, size, g) ==
    /\ VolType(g)
    /\ \A x \in Inode \ {i} : g.node[x] = v.node[x]
    /\ g.node[i] \in NodeType /\ g.node[i].size = size
    /\ g.node[i].num = keep /\ g.node[i].idx = v.node[i].idx
    /\ g.used = v.used \ Ending(v.node[i], keep + 1)
    /\ g.free = v.free + v.node[i].num - keep
    /\ \A b \in Block : g.data[b] = IF b \in Ending(v.node[i], keep + 1) THEN Zeros ELSE v.data[b]

\* A cut and the two fields of the node make a shorter file.
LEMMA ShrunkIsDone ==
  ASSUME NEW v, VolType(v), NEW i \in Inode, NEW nd \in NodeType, nd = v.node[i],
         NEW keep \in 0 .. nd.num, NEW size \in Nat, NEW w, CutAt(v, i, keep, keep + 1, 0, w)
  PROVE  Shrunk(v, i, keep, size, [w EXCEPT !.node[i].num = keep, !.node[i].size = size])
<1>1. nd = [size |-> nd.size, num |-> nd.num, idx |-> nd.idx]
      /\ nd.num \in 0 .. MaxFileBlocks /\ nd.idx \in [1 .. MaxFileBlocks -> Block \cup {Null}]
  BY NodeFields, MiFSAssumption
<1>2. /\ w = [node |-> w.node, used |-> w.used, free |-> w.free, data |-> w.data]
      /\ w.node = v.node
      /\ w.node = [x \in Inode |-> w.node[x]]
      /\ w.node \in [Inode -> NodeType \cup {Null}] /\ w.used \subseteq Block /\ w.free \in Nat
      /\ w.data \in [Block -> [0 .. BlockSize - 1 -> Byte]]
  BY DEF CutAt, VolType
<1> PICK g : g = [w EXCEPT !.node[i].num = keep, !.node[i].size = size]
  OBVIOUS
<1>3. g = [node |-> g.node, used |-> g.used, free |-> g.free, data |-> g.data]
  BY <1>2
<1>4. g.used = w.used /\ g.free = w.free /\ g.data = w.data
  BY <1>2
<1>5. g.node = [x \in Inode |-> g.node[x]] /\ \A x \in Inode \ {i} : g.node[x] = w.node[x]
  BY <1>2
<1>6. g.node[i] = [size |-> size, num |-> keep, idx |-> nd.idx]
  <2> PICK h : h = [w EXCEPT !.node[i].num = keep]
    OBVIOUS
  <2>1. w.node[i] = nd
    BY <1>2
  <2>2. h.node = [w.node EXCEPT ![i].num = keep]
    BY <1>2
  <2>3. h.node = [x \in Inode |-> h.node[x]] /\ h.node[i] = [nd EXCEPT !.num = keep]
    BY <1>2, <2>1, <2>2
  <2>4. h.node[i] = [size |-> nd.size, num |-> keep, idx |-> nd.idx]
    BY <1>1, <2>3
  <2>5. h = [node |-> h.node, used |-> h.used, free |-> h.free, data |-> h.data]
    BY <1>2
  <2>6. g = [h EXCEPT !.node[i].size = size]
    OBVIOUS
  <2>7. g.node = [h.node EXCEPT ![i].size = size]
    BY <2>5, <2>6
  <2>8. g.node[i] = [h.node[i] EXCEPT !.size = size]
    BY <2>3, <2>7
  <2> QED BY <2>4, <2>8
<1>7. keep \in 0 .. MaxFileBlocks
  BY <1>1, MiFSAssumption
<1>8. g.node[i] \in NodeType
  BY <1>1, <1>6, <1>7 DEF NodeType
<1>9. g.node \in [Inode -> NodeType \cup {Null}]
  <2>1. ASSUME NEW x \in Inode PROVE g.node[x] \in NodeType \cup {Null}
    BY <1>2, <1>5, <1>8
  <2> QED BY <1>5, <2>1
<1>10. VolType(g)
  BY <1>2, <1>3, <1>4, <1>9 DEF VolType
<1>11. g.used = v.used \ Ending(nd, keep + 1) /\ g.free = v.free + nd.num - keep
  BY <1>4 DEF CutAt
<1>12. \A b \in Block : g.data[b] = IF b \in Ending(nd, keep + 1) THEN Zeros ELSE v.data[b]
  <2>1. keep + 1 + 0 = keep + 1
    BY <1>1
  <2> QED BY <1>4, <2>1 DEF CutAt
<1> QED BY <1>2, <1>5, <1>6, <1>8, <1>10, <1>11, <1>12 DEF Shrunk

\* The tail of the last block of a file is cleared.
Cleared(v, nd, size, w) ==
    /\ w = [node |-> v.node, used |-> v.used, free |-> v.free, data |-> w.data]
    /\ w.data \in [Block -> [0 .. BlockSize - 1 -> Byte]]
    /\ \A b \in Block \ {nd.idx[nd.num]} : w.data[b] = v.data[b]
    /\ \A p \in 0 .. BlockSize - 1 : w.data[nd.idx[nd.num]][p] =
          IF p \in nd.size % BlockSize .. (nd.size % BlockSize) + size - nd.size - 1
          THEN 0 ELSE v.data[nd.idx[nd.num]][p]

\* Clearing the tail of a file touches one block.
LEMMA TailIs ==
  ASSUME NEW v, VolType(v), NEW nd, nd.idx[nd.num] \in Block, NEW size \in Nat, nd.size \in Nat
  PROVE  Cleared(v, nd, size, TailCleared(v, nd, size))
<1> PICK w : w = TailCleared(v, nd, size)
  OBVIOUS
<1> PICK last : last = nd.idx[nd.num]
  OBVIOUS
<1> PICK first : first = nd.size % BlockSize
  OBVIOUS
<1>1. /\ v = [node |-> v.node, used |-> v.used, free |-> v.free, data |-> v.data]
      /\ v.data \in [Block -> [0 .. BlockSize - 1 -> Byte]]
  BY DEF VolType
<1> DEFINE T == [p \in 0 .. BlockSize - 1 |->
                    IF p \in first .. first + size - nd.size - 1 THEN 0 ELSE v.data[last][p]]
<1>2. w.data = [v.data EXCEPT ![last] = T] /\ w.node = v.node /\ w.used = v.used /\ w.free = v.free
  BY <1>1 DEF TailCleared
<1>3. w = [node |-> w.node, used |-> w.used, free |-> w.free, data |-> w.data]
  BY <1>1 DEF TailCleared
<1>4. T \in [0 .. BlockSize - 1 -> Byte]
  BY <1>1 DEF Byte
<1> HIDE DEF T
<1>5. /\ w.data \in [Block -> [0 .. BlockSize - 1 -> Byte]] /\ w.data[last] = T
      /\ \A b \in Block \ {last} : w.data[b] = v.data[b]
  BY <1>1, <1>2, <1>4
<1>6. \A p \in 0 .. BlockSize - 1 : w.data[last][p] =
        IF p \in first .. first + size - nd.size - 1 THEN 0 ELSE v.data[last][p]
  BY <1>5 DEF T
<1>7. w = [node |-> v.node, used |-> v.used, free |-> v.free, data |-> w.data]
  BY <1>2, <1>3
<1> QED BY <1>5, <1>6, <1>7 DEF Cleared
-----------------------------------------------------------------------------
\* What is left of the structures once a change of size has failed half way:
\* the indices of a file that it counts as its own, written or not,
Slots(v) == {s \in Inode \X (1 .. MaxFileBlocks) :
                v.node[s[1]] # Null /\ s[2] <= v.node[s[1]].num}

\* a count of blocks that is enough for the size,
Enough(v) ==
    /\ VolType(v)
    /\ \A i \in Inode : v.node[i] # Null => NumBlocksOf(v.node[i].size) <= v.node[i].num

\* and, as long as no cut has failed, a count of free blocks that leaves one
\* for every index; every marked block is reserved or is at an index.
Counted(v) ==
    /\ v.free + Cardinality(Slots(v)) = NumBlocks - Reserved
    /\ \A b \in v.used : b < Reserved \/ \E s \in Slots(v) : b = v.node[s[1]].idx[s[2]]

\* No node comes or goes.
SameNodes(v, w) == \A x \in Inode : w.node[x] = Null <=> v.node[x] = Null

\* A step that keeps this
Loosely(v, w) == Enough(w) /\ SameNodes(v, w) /\ (Counted(v) => Counted(w))

\* Two such steps
LEMMA LooselyTwice ==
  ASSUME NEW v, NEW w, Loosely(v, w), NEW u, Loosely(w, u)
  PROVE  Loosely(v, u)
BY DEF Loosely, SameNodes

\* The indices are finitely many.
LEMMA SlotsFinite ==
  ASSUME NEW v
  PROVE  IsFiniteSet(Slots(v)) /\ Cardinality(Slots(v)) \in Nat
<1>1. IsFiniteSet(Inode) /\ IsFiniteSet(1 .. MaxFileBlocks)
  BY MiFSAssumption, FS_Interval DEF Inode
<1>2. IsFiniteSet(Inode \X (1 .. MaxFileBlocks))
  BY <1>1, FS_Product
<1>3. Slots(v) \in SUBSET (Inode \X (1 .. MaxFileBlocks))
  BY DEF Slots
<1> QED BY <1>2, <1>3, FS_Subset, FS_CardinalityType

\* n indices of one node
Row(i, num, n) == {s \in {i} \X (num + 1 .. num + n) : TRUE}

\* They are n.
LEMMA RowSize ==
  ASSUME NEW i, NEW num \in Nat, NEW n \in Nat
  PROVE  IsFiniteSet(Row(i, num, n)) /\ Cardinality(Row(i, num, n)) = n
<1> DEFINE T == num + 1 .. num + n
<1>1. IsFiniteSet(T) /\ Cardinality(T) = n
  <2>1. PICK a \in Int : a = num + 1
    OBVIOUS
  <2>2. PICK b \in Int : b = num + n
    OBVIOUS
  <2>3. IsFiniteSet(a .. b) /\ Cardinality(a .. b) = IF a > b THEN 0 ELSE b - a + 1
    BY FS_Interval
  <2> QED BY <2>1, <2>2, <2>3
<1> HIDE DEF T
<1>2. IsFiniteSet({i}) /\ Cardinality({i}) = 1
  BY FS_Singleton
<1>3. IsFiniteSet({i} \X T) /\ Cardinality({i} \X T) = Cardinality({i}) * Cardinality(T)
  BY <1>1, <1>2, FS_Product
<1>4. Row(i, num, n) = {i} \X T
  BY DEF Row, T
<1>5. Cardinality({i} \X T) = n
  BY <1>1, <1>2, <1>3
<1> QED BY <1>3, <1>4, <1>5

\* The blocks that are marked are at most the reserved ones and one for each
\* index, so the count promises no more free blocks than there are.
THEOREM CountedIsSafe ==
  ASSUME NEW v, VolType(v), Counted(v)
  PROVE  v.free <= Quota(v.used)
<1> DEFINE D == 0 .. NumBlocks - 1
           R == 0 .. Reserved - 1
           S == Slots(v)
           f == [s \in S |-> v.node[s[1]].idx[s[2]]]
           I == {f[s] : s \in S}
           M == v.used \cap D
<1>1. IsFiniteSet(D) /\ Cardinality(D) = NumBlocks /\ IsFiniteSet(R) /\ Cardinality(R) = Reserved
  <2>1. \A n \in Nat : IsFiniteSet(0 .. n - 1) /\ Cardinality(0 .. n - 1) = n
    <3> TAKE n \in Nat
    <3>1. PICK z \in Int : z = n - 1
      OBVIOUS
    <3>2. IsFiniteSet(0 .. z) /\ Cardinality(0 .. z) = IF 0 > z THEN 0 ELSE z - 0 + 1
      BY FS_Interval
    <3> QED BY <3>1, <3>2
  <2> QED BY <2>1, MiFSAssumption
<1>2. IsFiniteSet(S) /\ Cardinality(S) \in Nat
  BY SlotsFinite
<1>3. IsFiniteSet(I) /\ Cardinality(I) <= Cardinality(S)
  <2>1. f \in Surjection(S, I)
    BY SMTT(30) DEF Surjection
  <2> QED BY <1>2, <2>1, FS_Surjection
<1>4. M \subseteq R \cup I
  <2> SUFFICES ASSUME NEW b \in M, b \notin R PROVE b \in I
    OBVIOUS
  <2>1. b \in Nat /\ b >= Reserved
    BY MiFSAssumption
  <2>2. \E s \in S : b = v.node[s[1]].idx[s[2]]
    BY <2>1, MiFSAssumption DEF Counted
  <2> QED BY <2>2
<1> HIDE DEF S, f, I
<1>5. Cardinality(R \cup I) <= Reserved + Cardinality(S)
  <2>1. Cardinality(R \cup I) = Cardinality(R) + Cardinality(I) - Cardinality(R \cap I)
    BY <1>1, <1>3, FS_Union
  <2>2. Cardinality(R \cap I) \in Nat /\ Cardinality(I) \in Nat
    BY <1>1, <1>3, FS_Intersection, FS_CardinalityType
  <2> QED BY <1>1, <1>2, <1>3, <2>1, <2>2, MiFSAssumption
<1>6. IsFiniteSet(R \cup I)
  BY <1>1, <1>3, FS_Union
<1>7. IsFiniteSet(M) /\ Cardinality(M) <= Cardinality(R \cup I)
  BY <1>4, <1>6, FS_Subset
<1>8. Quota(v.used) = NumBlocks - Cardinality(M)
  <2>1. D \cap v.used = M
    OBVIOUS
  <2>2. Cardinality(D \ v.used) = Cardinality(D) - Cardinality(D \cap v.used)
    BY <1>1, FS_Difference
  <2> QED BY <1>1, <2>1, <2>2 DEF Quota
<1>9. Cardinality(M) \in Nat /\ Cardinality(R \cup I) \in Nat
  BY <1>6, <1>7, FS_CardinalityType
<1>10. v.free \in Nat /\ v.free + Cardinality(S) = NumBlocks - Reserved
  BY DEF VolType, Counted, S
<1> HIDE DEF M, R, D
<1> QED BY <1>2, <1>5, <1>7, <1>8, <1>9, <1>10, MiFSAssumption

\* Only data is different.
LEMMA LooseSame ==
  ASSUME NEW v, Enough(v), NEW w, VolType(w), w.node = v.node, w.used = v.used, w.free = v.free
  PROVE  Loosely(v, w)
BY DEF Loosely, Enough, Counted, Slots, SameNodes

\* The node that changes, with its indices before and after
LEMMA SlotsBut ==
  ASSUME NEW v, NEW w, NEW i \in Inode, \A x \in Inode \ {i} : w.node[x] = v.node[x]
  PROVE  \A s \in Inode \X (1 .. MaxFileBlocks) : s[1] # i =>
            /\ s \in Slots(w) <=> s \in Slots(v)
            /\ w.node[s[1]] = v.node[s[1]]
BY DEF Slots

\* A file gets another size, within its blocks.
LEMMA LooseSized ==
  ASSUME NEW v, Enough(v), NEW i \in Inode, NEW nd, nd = v.node[i], nd # Null, NEW size \in Nat,
         NumBlocksOf(size) <= nd.num, NEW w, SizeSet(v, i, size, w)
  PROVE  Loosely(v, w)
<1>1. /\ VolType(w) /\ w.used = v.used /\ w.free = v.free
      /\ w.node[i] # Null /\ w.node[i].size = size /\ w.node[i].num = nd.num
      /\ w.node[i].idx = nd.idx
      /\ \A x \in Inode \ {i} : w.node[x] = v.node[x]
  BY NodeIsNotNull DEF SizeSet
<1>2. SameNodes(v, w)
  BY <1>1 DEF SameNodes
<1>3. Enough(w)
  BY <1>1 DEF Enough
<1>4. \A x \in Inode : w.node[x].num = v.node[x].num /\ w.node[x].idx = v.node[x].idx
                       /\ (w.node[x] = Null <=> v.node[x] = Null)
  BY <1>1
<1>5. Slots(w) = Slots(v)
  BY <1>4 DEF Slots
<1>6. \A s \in Slots(v) : w.node[s[1]].idx[s[2]] = v.node[s[1]].idx[s[2]]
  BY <1>4 DEF Slots
<1>7. Counted(v) => Counted(w)
  BY <1>1, <1>5, <1>6 DEF Counted
<1> QED BY <1>2, <1>3, <1>7 DEF Loosely

\* A file has taken some of the blocks that it now counts.
LEMMA LooseTaken ==
  ASSUME NEW v, Enough(v), NEW i \in Inode, NEW nd, nd = v.node[i], nd # Null, NEW more \in Nat,
         NEW num, num = nd.num + more, NEW bs \in Seq(Block), Len(bs) <= more,
         NEW n, NEW w, Taken(v, i, num, bs, n, w)
  PROVE  Loosely(v, w)
<1>1. nd \in NodeType /\ nd.num \in Nat /\ v.free \in Nat /\ v.used \subseteq Block
  BY NodeFields DEF Enough, VolType
<1> PICK nw : nw = w.node[i]
  OBVIOUS
<1>2. /\ VolType(w) /\ nw # Null /\ nw.num = num /\ nw.size = nd.size /\ num <= MaxFileBlocks
      /\ w.used = v.used \cup Range(bs) /\ w.free = v.free - more
      /\ \A x \in Inode \ {i} : w.node[x] = v.node[x]
      /\ \A j \in 1 .. nd.num : nw.idx[j] = nd.idx[j]
      /\ \A j \in nd.num + 1 .. nd.num + Len(bs) : nw.idx[j] = bs[j - nd.num]
  <2>1. Longer(nd, num, bs, nw) /\ nw \in NodeType
    BY DEF Taken, Longer
  <2>2. nw # Null /\ nw.num <= MaxFileBlocks
    BY <2>1, NodeIsNotNull, NodeFields
  <2>3. num - nd.num = more
    BY <1>1
  <2> QED BY <2>1, <2>2, <2>3 DEF Taken, Longer
<1>3. SameNodes(v, w)
  BY <1>2 DEF SameNodes
<1>4. Enough(w)
  <2>1. NumBlocksOf(nd.size) <= nd.num /\ NumBlocksOf(nd.size) \in Nat
    BY <1>1, Division, NodeFields DEF Enough
  <2>2. NumBlocksOf(nw.size) <= nw.num
    BY <1>1, <1>2, <2>1
  <2> QED BY <1>2, <2>2 DEF Enough
<1>0. num \in Nat /\ num = nd.num + more /\ more \in Nat
  BY <1>1
<1> PICK T : T = Row(i, nd.num, more)
  OBVIOUS
<1>5. Slots(w) = Slots(v) \cup T /\ Slots(v) \cap T = {}
  <2>1. ASSUME NEW s \in Inode \X (1 .. MaxFileBlocks), s[1] = i
        PROVE  /\ s \in Slots(w) <=> s \in Slots(v) \/ s \in T
               /\ ~(s \in Slots(v) /\ s \in T)
    <3>1. PICK j \in 1 .. MaxFileBlocks : s = <<i, j>>
      BY <2>1
    <3>2. s \in Slots(w) <=> j <= num
      BY <1>2, <3>1 DEF Slots
    <3>3. s \in Slots(v) <=> j <= nd.num
      BY <3>1 DEF Slots
    <3>4. s \in T <=> j \in nd.num + 1 .. nd.num + more
      BY <3>1 DEF Row
    <3>5. nd.num \in Nat /\ j \in Nat /\ j >= 1
      BY <1>1, RoomInNode
    <3>6. /\ j <= num <=> j <= nd.num \/ j \in nd.num + 1 .. nd.num + more
          /\ ~(j <= nd.num /\ j \in nd.num + 1 .. nd.num + more)
      BY <1>0, <3>5
    <3> QED BY <3>2, <3>3, <3>4, <3>6
  <2>2. \A s \in T : s \in Inode \X (1 .. MaxFileBlocks) /\ s[1] = i
    <3> TAKE s \in T
    <3>1. PICK j \in nd.num + 1 .. nd.num + more : s = <<i, j>>
      BY DEF Row
    <3>2. j \in 1 .. MaxFileBlocks
      BY <1>1, <1>2, MiFSAssumption
    <3> QED BY <3>1, <3>2
  <2>3. Slots(v) \subseteq Inode \X (1 .. MaxFileBlocks) /\ Slots(w) \subseteq Inode \X (1 .. MaxFileBlocks)
    BY DEF Slots
  <2>4. \A s \in Inode \X (1 .. MaxFileBlocks) : s[1] # i => (s \in Slots(w) <=> s \in Slots(v))
    BY <1>2, SlotsBut
  <2>5. ASSUME NEW s \in Slots(w) PROVE s \in Slots(v) \cup T
    BY <2>1, <2>3, <2>4
  <2>6. ASSUME NEW s \in Slots(v) \cup T PROVE s \in Slots(w)
    BY <2>1, <2>2, <2>3, <2>4
  <2>7. ASSUME NEW s \in Slots(v), s \in T PROVE FALSE
    BY <2>1, <2>2, <2>7
  <2> QED BY <2>5, <2>6, <2>7
<1>6. Cardinality(Slots(w)) = Cardinality(Slots(v)) + more
  <2>1. IsFiniteSet(T) /\ Cardinality(T) = more
    BY <1>1, RowSize
  <2>2. Cardinality(Slots(v) \cup T) = Cardinality(Slots(v)) + Cardinality(T)
                                        - Cardinality(Slots(v) \cap T)
    BY <2>1, SlotsFinite, FS_Union
  <2>3. Cardinality(Slots(v) \cap T) = 0
    BY <1>5, FS_EmptySet
  <2> QED BY <1>5, <2>1, <2>2, <2>3, SlotsFinite
<1>7. ASSUME Counted(v) PROVE Counted(w)
  <2>1. w.free + Cardinality(Slots(w)) = NumBlocks - Reserved
    BY <1>1, <1>2, <1>6, <1>7, SlotsFinite, MiFSAssumption DEF Counted
  <2>2. ASSUME NEW b \in w.used, ~(b < Reserved)
        PROVE  \E s \in Slots(w) : b = w.node[s[1]].idx[s[2]]
    <3>1. CASE b \in v.used
      <4>1. PICK s \in Slots(v) : b = v.node[s[1]].idx[s[2]]
        BY <1>7, <2>2, <3>1 DEF Counted
      <4>2. s[1] = i => s[2] \in 1 .. nd.num
        BY <1>1 DEF Slots
      <4>3. w.node[s[1]].idx[s[2]] = v.node[s[1]].idx[s[2]]
        <5>1. CASE s[1] = i
          BY <1>2, <4>2, <5>1
        <5>2. CASE s[1] # i
          BY <1>2, <5>2 DEF Slots
        <5> QED BY <5>1, <5>2
      <4>4. s \in Slots(w)
        BY <1>5
      <4> QED BY <4>1, <4>3, <4>4
    <3>2. CASE b \in Range(bs)
      <4>1. PICK k \in 1 .. Len(bs) : b = bs[k]
        BY <3>2 DEF Range
      <4>2. PICK j : j = nd.num + k
        OBVIOUS
      <4>3. j \in nd.num + 1 .. nd.num + Len(bs) /\ j - nd.num = k /\ j \in nd.num + 1 .. nd.num + more
        BY <1>1, <4>2
      <4>4. nw.idx[j] = b
        BY <1>2, <4>1, <4>3
      <4>5. <<i, j>> \in Slots(w)
        BY <1>5, <4>3 DEF Row
      <4> QED BY <4>4, <4>5
    <3> QED BY <1>2, <3>1, <3>2
  <2> QED BY <2>1, <2>2 DEF Counted
<1> QED BY <1>3, <1>4, <1>7 DEF Loosely

\* A file has given its ending back.
LEMMA LooseShrunk ==
  ASSUME NEW v, Enough(v), NEW i \in Inode, NEW nd, nd = v.node[i], nd # Null, NEW size \in Nat,
         NEW keep, keep = NumBlocksOf(size), keep \in 0 .. nd.num, NEW w, Shrunk(v, i, keep, size, w)
  PROVE  Loosely(v, w)
<1>1. nd \in NodeType /\ nd.num \in Nat /\ nd.num <= MaxFileBlocks /\ v.free \in Nat
  BY NodeFields DEF Enough, VolType
<1>2. /\ VolType(w) /\ w.node[i] # Null /\ w.node[i].num = keep /\ w.node[i].size = size
      /\ w.node[i].idx = nd.idx
      /\ w.used = v.used \ Ending(nd, keep + 1) /\ w.free = v.free + nd.num - keep
      /\ \A x \in Inode \ {i} : w.node[x] = v.node[x]
  BY NodeIsNotNull DEF Shrunk
<1>3. SameNodes(v, w)
  BY <1>2 DEF SameNodes
<1>4. Enough(w)
  <2>1. NumBlocksOf(size) <= keep
    BY <1>1
  <2> QED BY <1>2, <2>1 DEF Enough
<1> PICK n \in Nat : n = nd.num - keep
  BY <1>1
<1>0. keep \in Nat /\ keep <= nd.num /\ keep + n = nd.num
  BY <1>1
<1> PICK T : T = Row(i, keep, n)
  OBVIOUS
<1>5. Slots(v) = Slots(w) \cup T /\ Slots(w) \cap T = {}
  <2>1. ASSUME NEW s \in Inode \X (1 .. MaxFileBlocks), s[1] = i
        PROVE  /\ s \in Slots(v) <=> s \in Slots(w) \/ s \in T
               /\ ~(s \in Slots(w) /\ s \in T)
    <3>1. PICK j \in 1 .. MaxFileBlocks : s = <<i, j>>
      BY <2>1
    <3>2. s \in Slots(w) <=> j <= keep
      BY <1>2, <3>1 DEF Slots
    <3>3. s \in Slots(v) <=> j <= nd.num
      BY <3>1 DEF Slots
    <3>4. s \in T <=> j \in keep + 1 .. keep + n
      BY <3>1 DEF Row
    <3> QED BY <1>0, <1>1, <3>2, <3>3, <3>4, RoomInNode
  <2>2. \A s \in T : s \in Inode \X (1 .. MaxFileBlocks) /\ s[1] = i
    <3> TAKE s \in T
    <3>1. PICK j \in keep + 1 .. keep + n : s = <<i, j>>
      BY DEF Row
    <3>2. j \in 1 .. MaxFileBlocks
      BY <1>0, <1>1, RoomInNode
    <3> QED BY <3>1, <3>2
  <2>3. Slots(v) \subseteq Inode \X (1 .. MaxFileBlocks) /\ Slots(w) \subseteq Inode \X (1 .. MaxFileBlocks)
    BY DEF Slots
  <2>4. \A s \in Inode \X (1 .. MaxFileBlocks) : s[1] # i => (s \in Slots(w) <=> s \in Slots(v))
    BY <1>2, SlotsBut
  <2>5. ASSUME NEW s \in Slots(v) PROVE s \in Slots(w) \cup T
    BY <2>1, <2>3, <2>4
  <2>6. ASSUME NEW s \in Slots(w) \cup T PROVE s \in Slots(v)
    BY <2>1, <2>2, <2>3, <2>4
  <2>7. ASSUME NEW s \in Slots(w), s \in T PROVE FALSE
    BY <2>1, <2>2, <2>7
  <2> QED BY <2>5, <2>6, <2>7
<1>6. Cardinality(Slots(v)) = Cardinality(Slots(w)) + n
  <2>1. IsFiniteSet(T) /\ Cardinality(T) = n
    BY <1>1, RowSize
  <2>2. Cardinality(Slots(w) \cup T) = Cardinality(Slots(w)) + Cardinality(T)
                                        - Cardinality(Slots(w) \cap T)
    BY <2>1, SlotsFinite, FS_Union
  <2>3. Cardinality(Slots(w) \cap T) = 0
    BY <1>5, FS_EmptySet
  <2> QED BY <1>5, <2>1, <2>2, <2>3, SlotsFinite
<1>7. ASSUME Counted(v) PROVE Counted(w)
  <2>1. w.free + Cardinality(Slots(w)) = NumBlocks - Reserved
    <3>1. PICK c \in Nat : c = Cardinality(Slots(v))
      BY SlotsFinite
    <3>2. PICK d \in Nat : d = Cardinality(Slots(w))
      BY SlotsFinite
    <3>3. v.free + c = NumBlocks - Reserved /\ c = d + n
      BY <1>6, <1>7, <3>1, <3>2 DEF Counted
    <3>4. PICK free \in Nat : free = v.free
      BY <1>1
    <3>5. w.free = free + n
      <4>1. w.free = free + nd.num - keep
        BY <1>2, <3>4
      <4>2. nd.num \in Nat /\ keep \in Nat
        BY <1>0, <1>1
      <4> QED BY <1>0, <4>1, <4>2
    <3>6. free + d + n = NumBlocks - Reserved
      <4>1. d + n = c
        BY <3>3
      <4>2. free + c = NumBlocks - Reserved
        BY <3>3, <3>4
      <4> QED BY <4>1, <4>2
    <3>7. w.free + d = NumBlocks - Reserved
      <4>1. NumBlocks \in Nat /\ Reserved \in Nat
        BY MiFSAssumption
      <4> QED BY <3>5, <3>6, <4>1
    <3> QED BY <3>2, <3>7
  <2>2. ASSUME NEW b \in w.used, ~(b < Reserved)
        PROVE  \E s \in Slots(w) : b = w.node[s[1]].idx[s[2]]
    <3>1. PICK s \in Slots(v) : b = v.node[s[1]].idx[s[2]]
      BY <1>2, <1>7, <2>2 DEF Counted
    <3>2. w.node[s[1]].idx[s[2]] = v.node[s[1]].idx[s[2]]
      <4>1. CASE s[1] = i
        BY <1>2, <4>1
      <4>2. CASE s[1] # i
        BY <1>2, <4>2 DEF Slots
      <4> QED BY <4>1, <4>2
    <3>3. s \notin T
      <4> SUFFICES ASSUME s \in T PROVE FALSE
        OBVIOUS
      <4>1. PICK j \in keep + 1 .. keep + n : s = <<i, j>>
        BY DEF Row
      <4>2. b = nd.idx[j] /\ j \in keep + 1 .. nd.num
        BY <1>1, <3>1, <4>1
      <4>3. b \in Ending(nd, keep + 1)
        BY <4>2 DEF Ending
      <4> QED BY <1>2, <2>2, <4>3
    <3>4. s \in Slots(w)
      BY <1>5, <3>3
    <3> QED BY <3>1, <3>2, <3>4
  <2> QED BY <2>1, <2>2 DEF Counted
<1> QED BY <1>3, <1>4, <1>7 DEF Loosely

\* An end of a call on one file: after a cut that failed the count can be
\* anything.
LooseEnd(v, o) ==
    /\ Enough(o.vol) /\ SameNodes(v, o.vol)
    /\ o.res # "shrink" => Loosely(v, o.vol)

\* The ends of the call that have changed nothing but data
LEMMA LooseData ==
  ASSUME NEW v, Enough(v), NEW w, VolType(w), w.node = v.node, w.used = v.used, w.free = v.free,
         NEW r, NEW o, o = End(w, r)
  PROVE  LooseEnd(v, o)
<1>1. o.vol = w
  BY DEF End
<1> QED BY <1>1, LooseSame DEF LooseEnd, Loosely

\* What resizeInodo leaves of any tables when a file shrinks
LEMMA ShrinkLoosely ==
  ASSUME NEW v, Enough(v), NEW i \in Inode, NEW nd, nd = v.node[i], nd # Null,
         NEW size \in Nat, size < nd.size, NEW o \in Shrink(v, i, size)
  PROVE  LooseEnd(v, o)
<1>1. nd \in NodeType /\ nd.num \in Nat /\ nd.size \in Nat /\ VolType(v)
      /\ NumBlocksOf(nd.size) <= nd.num
  BY NodeFields DEF Enough, VolType
<1> PICK keep : keep = NumBlocksOf(size)
  OBVIOUS
<1>2. keep \in 0 .. nd.num
  <2>1. keep <= NumBlocksOf(nd.size)
    BY <1>1, Grows
  <2>2. keep \in Nat /\ NumBlocksOf(nd.size) \in Nat
    BY <1>1, Division
  <2> QED BY <1>1, <2>1, <2>2
<1> PICK w : w = Cut(v, i, keep, keep + 1, 0)
  OBVIOUS
<1> PICK g : g = [w EXCEPT !.node[i].num = keep, !.node[i].size = size]
  OBVIOUS
<1>3. \/ o = End(v, "lost")
      \/ o = End(g, "ok")
      \/ \E n \in keep + 1 .. nd.num : o = End(Cut(v, i, keep, n, 1), "shrink")
  BY DEF Shrink
<1>4. CASE o = End(v, "lost")
  BY <1>1, <1>4, LooseData
<1>5. CASE o = End(g, "ok")
  <2>1. CutAt(v, i, keep, keep + 1, 0, w)
    BY <1>1, <1>2, CutIsDone
  <2>2. Shrunk(v, i, keep, size, g)
    BY <1>1, <1>2, <2>1, ShrunkIsDone
  <2>3. Loosely(v, g)
    BY <1>2, <2>2, LooseShrunk
  <2>4. o.vol = g
    BY <1>5 DEF End
  <2> QED BY <2>3, <2>4 DEF LooseEnd, Loosely
<1>6. CASE \E n \in keep + 1 .. nd.num : o = End(Cut(v, i, keep, n, 1), "shrink")
  <2>1. PICK n \in keep + 1 .. nd.num : o = End(Cut(v, i, keep, n, 1), "shrink")
    BY <1>6
  <2> PICK c : c = Cut(v, i, keep, n, 1)
    OBVIOUS
  <2>2. CutAt(v, i, keep, n, 1, c)
    BY <1>1, <1>2, CutIsDone
  <2>3. Enough(c) /\ SameNodes(v, c)
    BY <2>2 DEF CutAt, SameNodes, Enough
  <2>4. o.res = "shrink" /\ o.vol = c
    BY <2>1 DEF End
  <2> QED BY <2>3, <2>4 DEF LooseEnd
<1> QED BY <1>3, <1>4, <1>5, <1>6

\* and when it takes the blocks it needs
LEMMA TakeLoosely ==
  ASSUME NEW v, Enough(v), NEW i \in Inode, NEW nd, nd = v.node[i], nd # Null,
         NEW size \in Nat, NEW more \in Nat, NumBlocksOf(size) = nd.num + more,
         more <= v.free, nd.num + more <= MaxFileBlocks, more <= Cardinality(Block \ v.used),
         NEW o \in Take(v, i, size, more)
  PROVE  LooseEnd(v, o)
<1>1. nd \in NodeType /\ nd.num \in Nat /\ VolType(v)
  BY NodeFields DEF Enough, VolType
<1> PICK num : num = nd.num + more
  OBVIOUS
<1> PICK bs : bs = FirstFit(v, more)
  OBVIOUS
<1> PICK h : h = Grown(v, i, num, bs, more)
  OBVIOUS
<1> PICK g : g = [h EXCEPT !.node[i].size = size]
  OBVIOUS
<1>2. \/ o = End(g, "ok")
      \/ \E n \in 1 .. more : o = End(Grown(v, i, num, SubSeq(bs, 1, n), n - 1), "grow")
  BY DEF Take
<1>3. bs \in Seq(Block) /\ Len(bs) = more
  BY FirstFitBits
<1>4. num \in 0 .. MaxFileBlocks /\ num - nd.num = more /\ num = NumBlocksOf(size)
  BY <1>1, RoomInNode
<1>5. ASSUME NEW q \in Seq(Block), Len(q) <= more, NEW n
      PROVE  /\ Taken(v, i, num, q, n, Grown(v, i, num, q, n))
             /\ Loosely(v, Grown(v, i, num, q, n))
  <2>1. nd.num + Len(q) <= num /\ num - nd.num <= v.free
    BY <1>1, <1>4, <1>5
  <2>2. Taken(v, i, num, q, n, Grown(v, i, num, q, n))
    BY <1>1, <1>4, <2>1, GrownTaken
  <2> QED BY <1>5, <2>2, LooseTaken
<1>6. CASE o = End(g, "ok")
  <2>1. Taken(v, i, num, bs, more, h) /\ Loosely(v, h)
    BY <1>3, <1>5
  <2> PICK nh : nh = h.node[i]
    BY SMTT(30)
  <2>2. nh \in NodeType /\ VolType(h) /\ nh.num = num /\ nh # Null
    BY <2>1, NodeIsNotNull DEF Taken, Longer
  <2>3. SizeSet(h, i, size, g)
    BY <2>2, SizeIsSet
  <2>4. Enough(h) /\ NumBlocksOf(size) <= nh.num
    BY <1>4, <2>1, <2>2, SMTT(30) DEF Loosely
  <2>5. Loosely(h, g)
    BY <2>2, <2>3, <2>4, LooseSized
  <2>6. Loosely(v, g)
    BY <2>1, <2>5, LooselyTwice
  <2>7. o.vol = g
    BY <1>6 DEF End
  <2> QED BY <2>6, <2>7 DEF LooseEnd, Loosely
<1>7. CASE \E n \in 1 .. more : o = End(Grown(v, i, num, SubSeq(bs, 1, n), n - 1), "grow")
  <2>1. PICK n \in 1 .. more : o = End(Grown(v, i, num, SubSeq(bs, 1, n), n - 1), "grow")
    BY <1>7
  <2> PICK q : q = SubSeq(bs, 1, n)
    OBVIOUS
  <2>2. q \in Seq(Block) /\ Len(q) <= more
    BY <1>3
  <2>3. Loosely(v, Grown(v, i, num, q, n - 1))
    BY <1>5, <2>2
  <2>4. o.vol = Grown(v, i, num, q, n - 1)
    BY <2>1 DEF End
  <2> QED BY <2>3, <2>4 DEF LooseEnd, Loosely
<1> QED BY <1>2, <1>6, <1>7

\* or, before that, fills its last block up.
LEMMA GrowLoosely ==
  ASSUME NEW v, Enough(v), NEW i \in Inode, NEW nd, nd = v.node[i], nd # Null,
         NEW size \in Nat, nd.size < size, NEW o \in Grow(v, i, size)
  PROVE  LooseEnd(v, o)
<1>1. nd \in NodeType /\ nd.num \in Nat /\ nd.num <= MaxFileBlocks /\ nd.size \in Nat /\ VolType(v)
      /\ nd.idx \in [1 .. MaxFileBlocks -> Block \cup {Null}] /\ v.free \in Nat
  BY NodeFields DEF Enough, VolType
<1> PICK N \in Nat : N = NumBlocksOf(size)
  BY Division
<1> PICK more \in Int : more = N - nd.num
  BY <1>1
<1>2. CASE nd.num > 0 /\ nd.size % BlockSize # 0 /\ nd.idx[nd.num] = Null
  <2>1. o = End(v, "lost")
    BY <1>2, SMTT(30) DEF Grow
  <2> QED BY <1>1, <2>1, LooseData
<1>3. CASE ~(nd.num > 0 /\ nd.size % BlockSize # 0 /\ nd.idx[nd.num] = Null)
  <2> PICK w : w = IF nd.num > 0 /\ nd.size % BlockSize # 0 THEN TailCleared(v, nd, size) ELSE v
    OBVIOUS
  <2>1. VolType(w) /\ w.node = v.node /\ w.used = v.used /\ w.free = v.free
    <3>1. CASE nd.num > 0 /\ nd.size % BlockSize # 0
      <4>1. nd.num \in 1 .. MaxFileBlocks
        BY <1>1, <3>1, MiFSAssumption
      <4>2. nd.idx[nd.num] \in Block
        BY <1>1, <1>3, <3>1, <4>1
      <4>3. Cleared(v, nd, size, w)
        BY <1>1, <3>1, <4>2, TailIs, SMTT(30)
      <4>4. /\ w = [node |-> v.node, used |-> v.used, free |-> v.free, data |-> w.data]
            /\ w.data \in [Block -> [0 .. BlockSize - 1 -> Byte]]
        BY <4>3 DEF Cleared
      <4>5. w.node = v.node /\ w.used = v.used /\ w.free = v.free
        BY <4>4
      <4> QED BY <1>1, <4>4, <4>5 DEF VolType
    <3>2. CASE ~(nd.num > 0 /\ nd.size % BlockSize # 0)
      BY <1>1, <3>2
    <3> QED BY <3>1, <3>2
  <2>2. Loosely(v, w) /\ Enough(w) /\ w.node[i] = nd
    BY <2>1, LooseSame DEF Loosely
  <2> PICK g : g = [w EXCEPT !.node[i].size = size]
    OBVIOUS
  <2>3. \/ o = End(v, "data")
        \/ more = 0 /\ o = End(g, "ok")
        \/ o = End(w, "full")
        \/ o = End(w, "large")
        \/ o = End(w, "lost")
        \/ /\ more # 0 /\ RoomFor(v, more) /\ ~(nd.num + more > MaxFileBlocks) /\ ~RunsOff(v, more)
           /\ o \in Take(w, i, size, more)
    <3>1. o \in (IF nd.num > 0 /\ nd.size % BlockSize # 0 THEN {End(v, "data")} ELSE {}) \cup
               (IF more = 0 THEN {End(g, "ok")}
                ELSE IF ~RoomFor(v, more) THEN {End(w, "full")}
                ELSE IF nd.num + more > MaxFileBlocks THEN {End(w, "large")}
                ELSE IF RunsOff(v, more) THEN {End(w, "lost")}
                ELSE Take(w, i, size, more))
      BY <1>3 DEF Grow
    <3> QED BY <3>1, ZenonT(30)
  <2>4. CASE o = End(v, "data")
    BY <1>1, <2>4, LooseData, SMTT(30)
  <2>5. CASE more = 0 /\ o = End(g, "ok")
    <3>1. SizeSet(w, i, size, g)
      BY <1>1, <2>1, <2>2, SizeIsSet, ZenonT(30)
    <3>0. more = 0
      BY <2>5
    <3>2. NumBlocksOf(size) <= nd.num
      BY <1>1, <3>0
    <3>3. nd # Null
      BY SMTT(30)
    <3>4. Loosely(w, g)
      BY <2>2, <3>1, <3>2, LooseSized, ZenonT(30)
    <3>5. Loosely(v, g)
      BY <2>2, <3>4, Zenon DEF Loosely, SameNodes
    <3>6. o.vol = g
      BY <2>5 DEF End
    <3> QED BY <3>5, <3>6, ZenonT(30) DEF LooseEnd, Loosely
  <2>6. CASE o = End(w, "full") \/ o = End(w, "large") \/ o = End(w, "lost")
    BY <2>1, <2>6, LooseData, SMTT(30)
  <2>7. CASE /\ more # 0 /\ RoomFor(v, more) /\ ~(nd.num + more > MaxFileBlocks) /\ ~RunsOff(v, more)
             /\ o \in Take(w, i, size, more)
    <3>1. Cardinality(Block \ v.used) \in Nat
      BY BlockFinite, FS_Subset, FS_CardinalityType
    <3>2. more \in Nat /\ more <= Cardinality(Block \ v.used)
      BY <2>7, <3>1 DEF RunsOff
    <3>3. more <= w.free /\ more <= Cardinality(Block \ w.used) /\ nd.num + more <= MaxFileBlocks
      <4>1. more <= v.free /\ ~(nd.num + more > MaxFileBlocks)
        BY <2>7 DEF RoomFor
      <4>2. nd.num + more <= MaxFileBlocks
        <5>1. \A a, b, c \in Nat : ~(a + b > c) => a + b <= c
          OBVIOUS
        <5>2. nd.num \in Nat /\ MaxFileBlocks \in Nat
          BY <1>1, MiFSAssumption
        <5> QED BY <3>2, <4>1, <5>1, <5>2, Zenon
      <4> QED BY <2>1, <3>2, <4>1, <4>2
    <3>4. NumBlocksOf(size) = nd.num + more
      BY <1>1, SMTT(30)
    <3>5. LooseEnd(w, o)
      BY <2>2, <2>7, <3>2, <3>3, <3>4, TakeLoosely
    <3> QED BY <2>2, <3>5, LooselyTwice DEF LooseEnd, Loosely, SameNodes
  <2> QED BY <2>3, <2>4, <2>5, <2>6, <2>7
<1> QED BY <1>2, <1>3

\* Whatever the tables were, resizeInodo keeps what is left of them.
THEOREM ResizeLoosely ==
  ASSUME NEW v, Enough(v), NEW i \in Inode, v.node[i] # Null,
         NEW size \in Nat, NEW o \in Resize(v, i, size)
  PROVE  LooseEnd(v, o)
<1> PICK nd : nd = v.node[i]
  OBVIOUS
<1>1. nd.size \in Nat /\ nd # Null /\ VolType(v)
  BY NodeFields DEF Enough, VolType
<1>2. CASE size = nd.size
  <2>1. o = End(v, "same")
    BY <1>2 DEF Resize
  <2> QED BY <1>1, <2>1, LooseData
<1>3. CASE nd.size < size
  <2>1. o \in Grow(v, i, size)
    BY <1>1, <1>3 DEF Resize
  <2> QED BY <1>1, <1>3, <2>1, GrowLoosely
<1>4. CASE size < nd.size
  <2>1. o \in Shrink(v, i, size)
    BY <1>1, <1>4 DEF Resize
  <2> QED BY <1>1, <1>4, <2>1, ShrinkLoosely
<1> QED BY <1>1, <1>2, <1>3, <1>4
-----------------------------------------------------------------------------
\* A file has the blocks its size needs, each written and each once.
FullNode(nd) ==
    /\ nd \in NodeType /\ nd.num = NumBlocksOf(nd.size)
    /\ \A j \in 1 .. nd.num : nd.idx[j] \in Block
    /\ \A j, k \in 1 .. nd.num : nd.idx[j] = nd.idx[k] => j = k

\* The blocks of a node
Blocks(nd) == {nd.idx[j] : j \in 1 .. nd.num}

\* The blocks of node number i
Of(v, i) == IF v.node[i] = Null THEN {} ELSE Blocks(v.node[i])

\* The node table, the map and the count agree: no block belongs to two files,
\* the marked blocks are the reserved ones and those of the files, and the count
\* is the one of the map.
Sound(v) ==
    /\ VolType(v)
    /\ \A i \in Inode : v.node[i] # Null => FullNode(v.node[i])
    /\ \A i, k \in Inode : i # k => Of(v, i) \cap Of(v, k) = {}
    /\ \A b \in Block : b \in v.used <=> b < Reserved \/ \E i \in Inode : b \in Of(v, i)
    /\ \A i \in Inode : Of(v, i) \subseteq Reserved .. NumBits - 1
    /\ v.used \subseteq 0 .. NumBlocks - 1
    /\ v.free = Quota(v.used)

\* A file has as many blocks as it counts.
LEMMA BlocksFinite ==
  ASSUME NEW nd, FullNode(nd)
  PROVE  /\ IsFiniteSet(Blocks(nd)) /\ Cardinality(Blocks(nd)) = nd.num
         /\ Blocks(nd) \subseteq Block
<1> DEFINE q == [j \in 1 .. nd.num |-> nd.idx[j]]
<1>1. nd.num \in Nat
  BY NodeFields DEF FullNode
<1>2. q \in [1 .. nd.num -> Block]
  BY DEF FullNode
<1>3. q \in Seq(Block) /\ Len(q) = nd.num /\ DOMAIN q = 1 .. nd.num
  BY <1>1, <1>2
<1>4. IsInjective(q)
  BY DEF FullNode, IsInjective
<1>5. Range(q) = Blocks(nd)
  BY DEF Range, Blocks
<1> HIDE DEF q
<1>6. IsFiniteSet(Range(q)) /\ Cardinality(Range(q)) = Len(q)
  BY <1>3, <1>4, RangeSize
<1> QED BY <1>3, <1>5, <1>6 DEF Blocks, FullNode

\* It has written the index of each.
LEMMA FullIndex ==
  ASSUME NEW nd, FullNode(nd)
  PROVE  \A j \in 1 .. nd.num : nd.idx[j] # Null
<1>1. Null \notin Block
  BY NothingAssumption, MiFSAssumption DEF Block
<1> QED BY <1>1 DEF FullNode

\* The blocks of a file are marked.
LEMMA OfIsMarked ==
  ASSUME NEW v, Sound(v)
  PROVE  \A i \in Inode : Of(v, i) \subseteq v.used
<1>1. \A i \in Inode : Of(v, i) \subseteq Block
  BY MiFSAssumption DEF Sound, Block
<1> QED BY <1>1 DEF Sound

\* A node gets the blocks S, which were free.
LEMMA SoundMore ==
  ASSUME NEW v, Sound(v), NEW i \in Inode, NEW w, VolType(w), NEW S,
         \A k \in Inode \ {i} : w.node[k] = v.node[k],
         FullNode(w.node[i]), Of(w, i) = Of(v, i) \cup S,
         IsFiniteSet(S), S \subseteq Free(v.used),
         w.used = v.used \cup S, w.free = v.free - Cardinality(S)
  PROVE  Sound(w)
<1>1. \A k \in Inode \ {i} : Of(w, k) = Of(v, k)
  BY DEF Of
<1>2. \A k \in Inode : w.node[k] # Null => FullNode(w.node[k])
  BY DEF Sound
<1>3. \A k \in Inode : Of(v, k) \subseteq v.used
  BY OfIsMarked
<1>4. /\ S \cap v.used = {} /\ S \subseteq 0 .. NumBlocks - 1
      /\ S \subseteq Reserved .. NumBits - 1
  <2>1. S \cap v.used = {} /\ S \subseteq 0 .. NumBlocks - 1 /\ S \subseteq Block
    <3>1. S \cap v.used = {} /\ S \subseteq 0 .. NumBlocks - 1
      BY DEF Free
    <3>2. 0 .. NumBlocks - 1 \subseteq Block
      BY MiFSAssumption DEF Block
    <3> QED BY <3>1, <3>2
  <2>2. \A b \in S : b >= Reserved
    BY <2>1, MiFSAssumption DEF Sound, Block
  <2> QED BY <2>1, <2>2, MiFSAssumption DEF Block
<1>5. ASSUME NEW x \in Inode, NEW k \in Inode, x # k PROVE Of(w, x) \cap Of(w, k) = {}
  <2>1. Of(v, x) \cap Of(v, k) = {}
    BY <1>5 DEF Sound
  <2> QED BY <1>1, <1>3, <1>4, <1>5, <2>1
<1>6. \A b \in Block : b \in w.used <=> b < Reserved \/ \E k \in Inode : b \in Of(w, k)
  <2>1. \A b \in Block : b \in v.used <=> b < Reserved \/ \E k \in Inode : b \in Of(v, k)
    BY DEF Sound
  <2>2. \A b \in Block : (\E k \in Inode : b \in Of(w, k))
                         <=> (\E k \in Inode : b \in Of(v, k)) \/ b \in S
    BY <1>1
  <2> QED BY <2>1, <2>2
<1>7. \A k \in Inode : Of(w, k) \subseteq Reserved .. NumBits - 1
  BY <1>1, <1>4 DEF Sound
<1>8. w.used \subseteq 0 .. NumBlocks - 1
  BY <1>4 DEF Sound
<1>9. w.free = Quota(w.used)
  BY QuotaOfMore DEF Sound
<1> QED BY <1>2, <1>5, <1>6, <1>7, <1>8, <1>9 DEF Sound

\* A node gives the blocks S back.
LEMMA SoundLess ==
  ASSUME NEW v, Sound(v), NEW i \in Inode, NEW w, VolType(w), NEW S,
         \A k \in Inode \ {i} : w.node[k] = v.node[k],
         FullNode(w.node[i]), Of(w, i) = Of(v, i) \ S,
         IsFiniteSet(S), S \subseteq Of(v, i),
         w.used = v.used \ S, w.free = v.free + Cardinality(S)
  PROVE  Sound(w)
<1>1. \A k \in Inode \ {i} : Of(w, k) = Of(v, k)
  BY DEF Of
<1>2. \A k \in Inode : w.node[k] # Null => FullNode(w.node[k])
  BY DEF Sound
<1>3. \A k \in Inode : Of(v, k) \subseteq v.used
  BY OfIsMarked
<1>4. /\ S \subseteq v.used /\ S \subseteq 0 .. NumBlocks - 1
      /\ S \subseteq Reserved .. NumBits - 1
  BY <1>3 DEF Sound
<1>5. ASSUME NEW x \in Inode, NEW k \in Inode, x # k PROVE Of(w, x) \cap Of(w, k) = {}
  <2>1. Of(v, x) \cap Of(v, k) = {}
    BY <1>5 DEF Sound
  <2> QED BY <1>1, <2>1
<1>6. \A b \in Block : b \in w.used <=> b < Reserved \/ \E k \in Inode : b \in Of(w, k)
  <2>1. \A b \in Block : b \in v.used <=> b < Reserved \/ \E k \in Inode : b \in Of(v, k)
    BY DEF Sound
  <2>2. \A k \in Inode \ {i} : Of(v, k) \cap S = {}
    BY DEF Sound
  <2>3. \A k \in Inode : Of(w, k) = Of(v, k) \ S
    BY <1>1, <2>2
  <2>4. \A b \in S : b >= Reserved
    BY <1>4
  <2> QED BY <2>1, <2>3, <2>4, MiFSAssumption DEF Block
<1>7. \A k \in Inode : Of(w, k) \subseteq Reserved .. NumBits - 1
  BY <1>1 DEF Sound
<1>8. w.used \subseteq 0 .. NumBlocks - 1
  BY DEF Sound
<1>9. w.free = Quota(w.used)
  BY <1>4, QuotaOfLess DEF Sound
<1> QED BY <1>2, <1>5, <1>6, <1>7, <1>8, <1>9 DEF Sound

\* Only data, or what a node knows besides its blocks, is different.
LEMMA SoundSame ==
  ASSUME NEW v, Sound(v), NEW w, VolType(w),
         w.node = v.node, w.used = v.used, w.free = v.free
  PROVE  Sound(w)
<1>1. \A i \in Inode : Of(w, i) = Of(v, i)
  BY DEF Of
<1> QED BY <1>1 DEF Sound
-----------------------------------------------------------------------------
\* Byte k of a file, counted from 0
ByteAt(v, nd, k) == v.data[nd.idx[(k \div BlockSize) + 1]][k % BlockSize]

\* The other files are as they were.
Others(v, w, i) == \A x \in Inode \ {i} :
    w.node[x] = v.node[x] /\ \A b \in Of(v, x) : w.data[b] = v.data[b]

\* A file that ends within a block
LEMMA HalfBlock ==
  ASSUME NEW size \in Nat, size % BlockSize # 0
  PROVE  /\ NumBlocksOf(size) \in Nat \ {0}
         /\ size = BlockSize * (NumBlocksOf(size) - 1) + (size % BlockSize)
         /\ size % BlockSize \in 1 .. BlockSize - 1
<1> DEFINE B == BlockSize
           q == size \div B
           r == size % B
           N == NumBlocksOf(size)
<1>1. B \in Nat \ {0}
  BY MiFSAssumption
<1>2. q \in Nat /\ r \in 1 .. B - 1 /\ size = B * q + r
  BY <1>1, Divide
<1>3. N \in Nat /\ size <= B * N /\ B * N < size + B
  BY Division
<1> HIDE DEF q, r, N
<1>4. B * (q + 2) = B * q + B + B /\ B * q \in Nat /\ B * N \in Nat
  BY <1>1, <1>2, <1>3
<1>5. B * q < B * N /\ B * N < B * (q + 2)
  BY <1>1, <1>2, <1>3, <1>4
<1>6. q < N
  BY <1>1, <1>2, <1>3, <1>5, LessTimes
<1>7. N < q + 2
  BY <1>1, <1>2, <1>3, <1>5, LessTimes
<1>8. N = q + 1
  BY <1>2, <1>3, <1>6, <1>7
<1>9. N \in Nat \ {0} /\ N - 1 = q
  BY <1>2, <1>8
<1> QED BY <1>2, <1>9 DEF q, r, N

\* A file that ends with a block
LEMMA WholeBlock ==
  ASSUME NEW size \in Nat, size % BlockSize = 0
  PROVE  size = BlockSize * NumBlocksOf(size)
<1> DEFINE B == BlockSize
           q == size \div B
           N == NumBlocksOf(size)
<1>1. B \in Nat \ {0}
  BY MiFSAssumption
<1>2. q \in Nat /\ size = B * q
  BY <1>1, Divide
<1>3. N \in Nat /\ size <= B * N /\ B * N < size + B
  BY Division
<1> HIDE DEF q, N
<1>4. B * (q + 1) = B * q + B /\ B * (N + 1) = B * N + B /\ B * q \in Nat /\ B * N \in Nat
  BY <1>1, <1>2, <1>3
<1>5. B * q < B * (N + 1) /\ B * N < B * (q + 1)
  BY <1>1, <1>2, <1>3, <1>4
<1>6. q < N + 1
  BY <1>1, <1>2, <1>3, <1>5, LessTimes
<1>7. N < q + 1
  BY <1>1, <1>2, <1>3, <1>5, LessTimes
<1>8. N = q
  BY <1>2, <1>3, <1>6, <1>7
<1> QED BY <1>2, <1>8 DEF N

\* The file can grow: its last block is filled up with zeros.
Prepared(v, i, size, w) ==
    /\ Sound(w) /\ Others(v, w, i)
    /\ w.node = v.node /\ w.used = v.used /\ w.free = v.free
    /\ \A k \in 0 .. size - 1 : k < BlockSize * v.node[i].num =>
          ByteAt(w, v.node[i], k) = IF k < v.node[i].size THEN ByteAt(v, v.node[i], k) ELSE 0

\* A file that ends with a block has nothing to clear.
LEMMA WholePrepared ==
  ASSUME NEW v, Sound(v), NEW i \in Inode, v.node[i] # Null, NEW size \in Nat,
         ~(v.node[i].num > 0 /\ v.node[i].size % BlockSize # 0)
  PROVE  Prepared(v, i, size, v)
<1> PICK nd : nd = v.node[i]
  OBVIOUS
<1>1. FullNode(nd) /\ nd.num = NumBlocksOf(nd.size) /\ nd.size \in Nat /\ nd.num \in Nat
  BY NodeFields DEF Sound, FullNode
<1>2. nd.size % BlockSize = 0
  BY <1>1, HalfBlock
<1>3. BlockSize * nd.num = nd.size
  BY <1>1, <1>2, WholeBlock
<1> QED BY <1>3 DEF Prepared, Others

\* A file that ends within a block can grow once its tail is cleared.
LEMMA TailPrepared ==
  ASSUME NEW v, Sound(v), NEW i \in Inode, v.node[i] # Null, NEW size \in Nat,
         v.node[i].num > 0, v.node[i].size % BlockSize # 0, size > v.node[i].size
  PROVE  Prepared(v, i, size, TailCleared(v, v.node[i], size))
<1> PICK nd : nd = v.node[i]
  OBVIOUS
<1> DEFINE B == BlockSize
<1> PICK first : first = nd.size % B
  OBVIOUS
<1> PICK last : last = nd.idx[nd.num]
  OBVIOUS
<1> PICK w : w = TailCleared(v, nd, size)
  OBVIOUS
<1>1. FullNode(nd) /\ nd.num = NumBlocksOf(nd.size) /\ nd.size \in Nat /\ nd.num \in Nat \ {0}
  BY NodeFields DEF Sound, FullNode
<1>2. last \in Block /\ last \in Of(v, i)
  BY <1>1 DEF FullNode, Of, Blocks
<1>3. VolType(v)
  BY SMTT(30) DEF Sound
<1>4. /\ w = [node |-> v.node, used |-> v.used, free |-> v.free, data |-> w.data]
      /\ w.data \in [Block -> [0 .. B - 1 -> Byte]]
      /\ \A b \in Block \ {last} : w.data[b] = v.data[b]
      /\ \A p \in 0 .. B - 1 : w.data[last][p] =
            IF p \in first .. first + size - nd.size - 1 THEN 0 ELSE v.data[last][p]
  <2>1. nd.idx[nd.num] \in Block /\ nd.size \in Nat
    BY <1>1, <1>2
  <2>2. Cleared(v, nd, size, w)
    BY <1>3, <2>1, TailIs
  <2> QED BY <2>2 DEF Cleared
<1>5. w.node = v.node /\ w.used = v.used /\ w.free = v.free
  BY <1>4
<1>6. VolType(w)
  BY <1>3, <1>4, <1>5 DEF VolType
<1>7. Sound(w)
  BY <1>5, <1>6, SoundSame, SMTT(30)
<1>8. Others(v, w, i)
  <2>1. \A x \in Inode \ {i} : last \notin Of(v, x) /\ Of(v, x) \subseteq Block
    BY <1>2, MiFSAssumption DEF Sound, Block
  <2> QED BY <1>4, <1>5, <2>1 DEF Others
<1>9. B \in Nat \ {0} /\ nd.size = B * (nd.num - 1) + first /\ first \in 1 .. B - 1
  BY <1>1, HalfBlock, MiFSAssumption
<1>10. ASSUME NEW k \in 0 .. size - 1, k < B * nd.num
       PROVE  ByteAt(w, nd, k) = IF k < nd.size THEN ByteAt(v, nd, k) ELSE 0
  <2> DEFINE q == k \div B
             p == k % B
  <2>0. k \in Nat
    OBVIOUS
  <2>1. q \in Nat /\ p \in 0 .. B - 1 /\ k = B * q + p /\ k \in Nat
    BY <1>9, <2>0, Divide
  <2> HIDE DEF q, p
  <2>2. q < nd.num
    <3>1. B * q < B * nd.num
      <4>1. B * q \in Nat /\ B * nd.num \in Nat
        BY <1>1, <1>9, <2>1
      <4> QED BY <1>9, <1>10, <2>1, <4>1
    <3> QED BY <1>1, <1>9, <2>1, <3>1, LessTimes
  <2>3. q + 1 \in 1 .. nd.num /\ nd.idx[q + 1] \in Block
    BY <1>1, <2>1, <2>2 DEF FullNode
  <2>4. B * (nd.num - 1) \in Nat /\ B * q \in Nat
    BY <1>1, <1>9, <2>1
  <2>5. CASE q + 1 = nd.num
    <3>1. nd.idx[q + 1] = last /\ nd.num - 1 = q
      BY <2>1, <2>5, <1>1 
    <3>2. nd.size = B * q + first
      BY <1>9, <3>1
    <3>3. (p \in first .. first + size - nd.size - 1) <=> ~(k < nd.size)
      <4>1. PICK bq \in Nat : bq = B * q
        BY <2>4
      <4>2. nd.size = bq + first /\ k = bq + p /\ first \in Nat /\ p \in Nat
        BY <1>9, <2>1, <3>2, <4>1
      <4>3. first + size - nd.size - 1 = size - 1 - bq
        BY <1>1, <4>2
      <4>4. (p \in first .. size - 1 - bq) <=> ~(k < nd.size)
        BY <1>1, <4>2, SMTT(30)
      <4> QED BY <4>3, <4>4
    <3>4. w.data[last][p] = IF k < nd.size THEN v.data[last][p] ELSE 0
      BY <1>4, <2>1, <3>3
    <3> QED BY <3>1, <3>4 DEF ByteAt, q, p
  <2>6. CASE q + 1 # nd.num
    <3>1. nd.idx[q + 1] # last
      BY <1>1, <2>3, <2>6 DEF FullNode
    <3>2. k < nd.size
      <4>1. q + 1 <= nd.num - 1
        BY <1>1, <2>1, <2>2, <2>6
      <4>2. B * q + B = B * (q + 1) /\ B * (q + 1) <= B * (nd.num - 1)
        BY <1>1, <1>9, <2>1, <4>1, SMTT(30)
      <4> QED BY <1>1, <1>9, <2>1, <2>4, <4>2
    <3>3. w.data[nd.idx[q + 1]] = v.data[nd.idx[q + 1]]
      BY <1>4, <2>3, <3>1
    <3> QED BY <3>2, <3>3 DEF ByteAt, q, p
  <2> QED BY <2>5, <2>6
<1> QED BY <1>5, <1>7, <1>8, <1>10 DEF Prepared
-----------------------------------------------------------------------------
\* The file i has the size it was given; what it did not hold is zero.
Resized(v, i, size, w) ==
    /\ Sound(w) /\ Others(v, w, i)
    /\ w.node[i] # Null /\ w.node[i].size = size
    /\ \A k \in 0 .. size - 1 :
          ByteAt(w, w.node[i], k) = IF k < v.node[i].size THEN ByteAt(v, v.node[i], k) ELSE 0

\* The new node, when it got all its blocks
LEMMA GrownFull ==
  ASSUME NEW nd, FullNode(nd), NEW more \in Nat, NEW num, num = nd.num + more,
         NEW v, NEW bs, Fits(v, bs, more), Blocks(nd) \subseteq v.used,
         NEW size \in Nat, num = NumBlocksOf(size),
         NEW nw, Longer(nd, num, bs, nw), NEW nx \in NodeType,
         nx.num = nw.num, nx.idx = nw.idx, nx.size = size
  PROVE  FullNode(nx) /\ Blocks(nx) = Blocks(nd) \cup Range(bs)
<1>1. /\ bs \in Seq(Block) /\ Len(bs) = more /\ IsInjective(bs) /\ Range(bs) \subseteq Free(v.used)
      /\ nd.num \in Nat
      /\ DOMAIN bs = 1 .. more
  BY NodeFields DEF FullNode, Fits, Chosen
<1>2. /\ nx.num = nd.num + more
      /\ \A j \in 1 .. nd.num : nx.idx[j] = nd.idx[j]
      /\ \A j \in nd.num + 1 .. nd.num + more : nx.idx[j] = bs[j - nd.num]
  BY <1>1 DEF Longer
<1>3. ASSUME NEW j \in 1 .. nd.num
      PROVE  nx.idx[j] \in Blocks(nd) /\ nx.idx[j] \in Block
  BY <1>2 DEF Blocks, FullNode
<1>4. ASSUME NEW j \in nd.num + 1 .. nd.num + more
      PROVE  nx.idx[j] \in Range(bs) /\ nx.idx[j] \in Block /\ j - nd.num \in 1 .. more
  <2>1. j - nd.num \in 1 .. more
    BY <1>1
  <2>2. bs[j - nd.num] \in Range(bs) /\ bs[j - nd.num] \in Block
    BY <1>1, <2>1 DEF Range
  <2> QED BY <1>2, <2>1, <2>2
<1>5. Blocks(nd) \cap Range(bs) = {}
  BY <1>1 DEF Free
<1>6. ASSUME NEW j \in 1 .. nx.num
      PROVE  j \in 1 .. nd.num \/ j \in nd.num + 1 .. nd.num + more
  BY <1>1, <1>2
<1>7. \A j \in 1 .. nx.num : nx.idx[j] \in Block
  BY <1>3, <1>4, <1>6
<1>8. ASSUME NEW j \in 1 .. nx.num, NEW k \in 1 .. nx.num, nx.idx[j] = nx.idx[k]
      PROVE  j = k
  <2>1. CASE j \in 1 .. nd.num /\ k \in 1 .. nd.num
    BY <1>2, <1>8, <2>1 DEF FullNode
  <2>2. CASE j \in nd.num + 1 .. nd.num + more /\ k \in nd.num + 1 .. nd.num + more
    <3>1. bs[j - nd.num] = bs[k - nd.num]
      BY <1>2, <1>8, <2>2
    <3>2. j - nd.num = k - nd.num
      BY <1>1, <1>4, <2>2, <3>1 DEF IsInjective
    <3> QED BY <1>1, <3>2
  <2>3. CASE j \in 1 .. nd.num /\ k \in nd.num + 1 .. nd.num + more
    BY <1>3, <1>4, <1>5, <1>8, <2>3
  <2>4. CASE j \in nd.num + 1 .. nd.num + more /\ k \in 1 .. nd.num
    BY <1>3, <1>4, <1>5, <1>8, <2>4
  <2> QED BY <1>6, <2>1, <2>2, <2>3, <2>4
<1>9. ASSUME NEW b \in Blocks(nx) PROVE b \in Blocks(nd) \cup Range(bs)
  BY <1>3, <1>4, <1>6 DEF Blocks
<1>10. ASSUME NEW b \in Blocks(nd) PROVE b \in Blocks(nx)
  <2>1. PICK j \in 1 .. nd.num : b = nd.idx[j]
    BY DEF Blocks
  <2>2. j \in 1 .. nx.num /\ nx.idx[j] = b
    BY <1>1, <1>2, <2>1
  <2> QED BY <2>2 DEF Blocks
<1>11. ASSUME NEW b \in Range(bs) PROVE b \in Blocks(nx)
  <2>1. PICK j \in 1 .. more : b = bs[j]
    BY <1>1 DEF Range
  <2>2. nd.num + j \in 1 .. nx.num /\ nd.num + j \in nd.num + 1 .. nd.num + more
        /\ (nd.num + j) - nd.num = j
    BY <1>1, <1>2
  <2>3. nx.idx[nd.num + j] = b
    BY <1>2, <2>1, <2>2
  <2> QED BY <2>2, <2>3 DEF Blocks
<1>12. FullNode(nx)
  BY <1>2, <1>7, <1>8 DEF FullNode
<1> QED BY <1>9, <1>10, <1>11, <1>12
-----------------------------------------------------------------------------
\* A product of natural numbers is one.
LEMMA Product == \A a, b \in Nat : a * b \in Nat
OBVIOUS

\* A growth that got its blocks
LEMMA TakenIsSound ==
  ASSUME NEW v, Sound(v), NEW i \in Inode, NEW nd, nd = v.node[i], nd # Null,
         NEW size \in Nat, NEW more \in Nat,
         NEW num, num = nd.num + more, num = NumBlocksOf(size),
         NEW bs, Fits(v, bs, more),
         NEW h, Taken(v, i, num, bs, more, h), NEW g, SizeSet(h, i, size, g)
  PROVE  Sound(g)
<1>1. FullNode(nd) /\ nd.num \in Nat /\ VolType(v) /\ v.free \in Nat
  BY NodeFields DEF Sound, FullNode, VolType
<1>2. Of(v, i) = Blocks(nd) /\ Blocks(nd) \subseteq v.used
  BY OfIsMarked DEF Of
<1> PICK nh : nh = h.node[i]
  OBVIOUS
<1> PICK ng : ng = g.node[i]
  OBVIOUS
<1>3. Longer(nd, num, bs, nh)
  BY DEF Taken
<1>4. ng \in NodeType /\ ng.num = nh.num /\ ng.idx = nh.idx /\ ng.size = size
  BY DEF SizeSet
<1>5. FullNode(ng) /\ Blocks(ng) = Blocks(nd) \cup Range(bs)
  BY <1>1, <1>2, <1>3, <1>4, GrownFull
<1>6. bs \in Seq(Block) /\ Len(bs) = more /\ IsInjective(bs) /\ Range(bs) \subseteq Free(v.used)
  BY DEF Fits, Chosen
<1> PICK S : S = Range(bs)
  OBVIOUS
<1>7. IsFiniteSet(S) /\ Cardinality(S) = more /\ S \subseteq Free(v.used)
  BY <1>6, RangeSize
<1>8. Of(g, i) = Of(v, i) \cup S
  BY <1>2, <1>4, <1>5, NodeIsNotNull DEF Of
<1>9. \A x \in Inode \ {i} : g.node[x] = v.node[x]
  BY DEF Taken, SizeSet
<1>10. g.used = v.used \cup S
  BY DEF Taken, SizeSet
<1>11. g.free = v.free - Cardinality(S)
  <2>1. g.free = v.free - (num - nd.num)
    BY DEF Taken, SizeSet
  <2> QED BY <1>1, <1>7, <2>1
<1>12. VolType(g)
  BY DEF SizeSet
<1>13. FullNode(g.node[i])
  BY <1>5
<1> QED BY <1>7, <1>8, <1>9, <1>10, <1>11, <1>12, <1>13, SoundMore

\* The blocks of S hold zeros, and no other block is different.
Zeroed(v, S, w) == \A b \in Block : w.data[b] = IF b \in S THEN Zeros ELSE v.data[b]

\* A growth erases every block it takes.
LEMMA TakenData ==
  ASSUME NEW v, NEW i \in Inode, NEW more \in Nat, NEW num, NEW bs, Fits(v, bs, more),
         NEW h, Taken(v, i, num, bs, more, h)
  PROVE  Zeroed(v, Range(bs), h)
<1>1. SubSeq(bs, 1, more) = bs
  BY DEF Fits, Chosen
<1> QED BY <1>1 DEF Taken, Zeroed

\* A growth that got its blocks adds zeros to the file.
LEMMA TakeOk ==
  ASSUME NEW v, Sound(v), NEW i \in Inode, NEW nd, nd = v.node[i], nd # Null,
         NEW size \in Nat, NEW w, Prepared(v, i, size, w), NEW more \in Nat,
         NEW num, num = nd.num + more, num = NumBlocksOf(size),
         NEW bs, Fits(w, bs, more),
         NEW h, Taken(w, i, num, bs, more, h), NEW g, SizeSet(h, i, size, g)
  PROVE  Resized(v, i, size, g)
<1>1. FullNode(nd) /\ nd.num \in Nat /\ nd.size \in Nat /\ VolType(v)
  BY NodeFields DEF Sound, FullNode
<1>2. Sound(w) /\ Others(v, w, i) /\ w.node = v.node /\ w.used = v.used /\ w.node[i] = nd
  BY DEF Prepared
<1>3. Sound(g)
  BY <1>2, TakenIsSound
<1>4. \A b \in Block : g.data[b] = IF b \in Range(bs) THEN Zeros ELSE w.data[b]
  <2>1. Zeroed(w, Range(bs), h)
    BY TakenData
  <2>2. g.data = h.data
    BY DEF SizeSet
  <2> QED BY <2>1, <2>2 DEF Zeroed
<1>5. /\ bs \in Seq(Block) /\ Len(bs) = more /\ Range(bs) \subseteq Free(w.used)
      /\ DOMAIN bs = 1 .. more
  BY DEF Fits, Chosen
<1>6. \A x \in Inode \ {i} : g.node[x] = v.node[x]
  BY <1>2 DEF Taken, SizeSet
<1>7. Others(v, g, i)
  <2>1. ASSUME NEW x \in Inode \ {i}, NEW b \in Of(v, x) PROVE g.data[b] = v.data[b]
    <3>1. w.data[b] = v.data[b]
      BY <1>2 DEF Others
    <3>2. b \in w.used /\ b \in Block
      BY <1>1, <1>2, OfIsMarked DEF VolType
    <3>3. b \notin Range(bs)
      BY <1>5, <3>2 DEF Free
    <3> QED BY <1>4, <3>1, <3>2, <3>3
  <2> QED BY <1>6, <2>1 DEF Others
<1> PICK nh : nh = h.node[i]
  OBVIOUS
<1> PICK ng : ng = g.node[i]
  OBVIOUS
<1>8. Longer(nd, num, bs, nh)
  BY <1>2 DEF Taken
<1>9. ng \in NodeType /\ ng.idx = nh.idx /\ ng.size = size
  BY DEF SizeSet
<1>10. /\ \A j \in 1 .. nd.num : ng.idx[j] = nd.idx[j]
       /\ \A j \in nd.num + 1 .. nd.num + more : ng.idx[j] = bs[j - nd.num]
  BY <1>5, <1>8, <1>9 DEF Longer
<1>11. ASSUME NEW k \in 0 .. size - 1
       PROVE  ByteAt(g, ng, k) = IF k < nd.size THEN ByteAt(v, nd, k) ELSE 0
  <2> PICK q : q = k \div BlockSize
    OBVIOUS
  <2> PICK p : p = k % BlockSize
    OBVIOUS
  <2> PICK B : B = BlockSize
    OBVIOUS
  <2>1. q \in 0 .. num - 1 /\ p \in 0 .. B - 1 /\ k = B * q + p /\ B \in Nat \ {0} /\ k \in Nat
    <3>1. q \in 0 .. NumBlocksOf(size) - 1 /\ p \in 0 .. BlockSize - 1 /\ k = BlockSize * q + p
      BY InBlock
    <3> QED BY <3>1, MiFSAssumption
  <2>2. num \in Nat
    BY <1>1
  <2> PICK m \in Nat : m = nd.num
    BY <1>1
  <2>3. q \in Nat /\ (q + 1 \in 1 .. nd.num \/ q + 1 \in nd.num + 1 .. nd.num + more)
    BY <1>1, <2>1, <2>2
  <2>4. ByteAt(g, ng, k) = g.data[ng.idx[q + 1]][p]
    BY SMTT(30) DEF ByteAt
  <2>5. CASE q + 1 \in 1 .. nd.num
    <3>1. nd.idx[q + 1] \in Blocks(nd) /\ nd.idx[q + 1] \in Block
      BY <1>1, <2>5 DEF Blocks, FullNode
    <3>2. Blocks(nd) \subseteq w.used
      BY <1>2, OfIsMarked DEF Of
    <3>3. nd.idx[q + 1] \notin Range(bs)
      BY <1>5, <3>1, <3>2 DEF Free
    <3>4. g.data[ng.idx[q + 1]] = w.data[nd.idx[q + 1]]
      BY <1>4, <1>10, <2>5, <3>1, <3>3
    <3>5. k < B * m
      <4>1. q + 1 <= m
        BY <2>3, <2>5
      <4>2. B * (q + 1) <= B * m
        BY <2>1, <2>3, <4>1
      <4>3. PICK bq \in Nat : bq = B * q
        BY <2>1, <2>3, Product
      <4>4. B * (q + 1) = bq + B
        BY <2>1, <2>3, <4>3
      <4>5. PICK bn \in Nat : bn = B * m
        BY <2>1, Product
      <4> QED BY <2>1, <4>2, <4>3, <4>4, <4>5
    <3>6. ByteAt(w, nd, k) = IF k < nd.size THEN ByteAt(v, nd, k) ELSE 0
      BY <3>5 DEF Prepared
    <3>7. ByteAt(w, nd, k) = w.data[nd.idx[q + 1]][p]
      BY DEF ByteAt
    <3> QED BY <2>4, <3>4, <3>6, <3>7
  <2>6. CASE q + 1 \in nd.num + 1 .. nd.num + more
    <3> PICK j : j = q + 1 - nd.num
      OBVIOUS
    <3>1. j \in 1 .. more
      BY <1>1, <2>3, <2>6
    <3>2. bs[j] \in Range(bs) /\ bs[j] \in Block
      BY <1>5, <3>1 DEF Range
    <3>3. g.data[ng.idx[q + 1]] = Zeros
      <4>1. ng.idx[q + 1] = bs[j]
        BY <1>10, <2>6
      <4> QED BY <1>4, <3>2, <4>1
    <3>4. Zeros[p] = 0
      BY <2>1 DEF Zeros
    <3>5. ~(k < nd.size)
      <4>1. m <= q
        BY <2>3, <2>6
      <4>2. nd.size <= B * m
        BY <1>1, Division DEF FullNode
      <4>3. B * m <= B * q
        BY <2>1, <2>3, <4>1
      <4>4. PICK bq \in Nat : bq = B * q
        BY <2>1, <2>3, Product
      <4>5. PICK bn \in Nat : bn = B * m
        BY <2>1, Product
      <4> QED BY <1>1, <2>1, <4>2, <4>3, <4>4, <4>5
    <3> QED BY <2>4, <3>3, <3>4, <3>5
  <2> QED BY <2>3, <2>5, <2>6
<1>12. ng # Null
  BY <1>9, NodeIsNotNull
<1> QED BY <1>3, <1>7, <1>9, <1>11, <1>12 DEF Resized

-----------------------------------------------------------------------------
\* A file gives the blocks it does not need back.
LEMMA ShrunkIsSound ==
  ASSUME NEW v, Sound(v), NEW i \in Inode, NEW nd, nd = v.node[i], nd # Null,
         NEW size \in Nat, NEW keep, keep = NumBlocksOf(size), keep <= nd.num,
         NEW g, Shrunk(v, i, keep, size, g)
  PROVE  Sound(g)
<1>1. FullNode(nd) /\ nd.num \in Nat /\ VolType(v) /\ v.free \in Nat /\ keep \in Nat
  BY NodeFields, Division DEF Sound, FullNode, VolType
<1> PICK ng : ng = g.node[i]
  OBVIOUS
<1> PICK S : S = Ending(nd, keep + 1)
  OBVIOUS
<1>2. ng \in NodeType /\ ng.size = size /\ ng.num = keep /\ ng.idx = nd.idx
  BY DEF Shrunk
<1>3. \A j \in 1 .. keep : j \in 1 .. nd.num
  BY <1>1
<1>4. FullNode(ng)
  BY <1>1, <1>2, <1>3 DEF FullNode
<1>5. \A b : b \in S <=> \E j \in keep + 1 .. nd.num : b = nd.idx[j]
  BY DEF Ending
<1>6. \A b : b \in Blocks(nd) <=> \E j \in 1 .. nd.num : b = nd.idx[j]
  BY DEF Blocks
<1>7. \A b : b \in Blocks(ng) <=> \E j \in 1 .. keep : b = nd.idx[j]
  BY <1>2 DEF Blocks
<1>8. \A b : b \in Blocks(nd) <=> b \in Blocks(ng) \/ b \in S
  <2>1. \A j \in 1 .. nd.num : j \in 1 .. keep \/ j \in keep + 1 .. nd.num
    BY <1>1
  <2>2. \A j \in keep + 1 .. nd.num : j \in 1 .. nd.num
    BY <1>1
  <2> TAKE b
  <2>3. ASSUME b \in Blocks(nd) PROVE b \in Blocks(ng) \/ b \in S
    <3>1. PICK j \in 1 .. nd.num : b = nd.idx[j]
      BY <1>6, <2>3
    <3> QED BY <1>5, <1>7, <2>1, <3>1
  <2>4. ASSUME b \in Blocks(ng) PROVE b \in Blocks(nd)
    BY <1>3, <1>6, <1>7, <2>4
  <2>5. ASSUME b \in S PROVE b \in Blocks(nd)
    BY <1>5, <1>6, <2>2, <2>5
  <2> QED BY <2>3, <2>4, <2>5
<1>9. \A b : ~(b \in Blocks(ng) /\ b \in S)
  <2> SUFFICES ASSUME NEW b, b \in Blocks(ng), b \in S PROVE FALSE
    OBVIOUS
  <2>1. PICK j \in 1 .. keep : b = nd.idx[j]
    BY <1>7
  <2>2. PICK k \in keep + 1 .. nd.num : b = nd.idx[k]
    BY <1>5
  <2>3. j \in 1 .. nd.num /\ k \in 1 .. nd.num /\ j # k
    BY <1>1
  <2> QED BY <1>1, <2>1, <2>2, <2>3 DEF FullNode
<1>10. /\ IsFiniteSet(Blocks(nd)) /\ Cardinality(Blocks(nd)) = nd.num
       /\ IsFiniteSet(Blocks(ng)) /\ Cardinality(Blocks(ng)) = keep
  BY <1>1, <1>2, <1>4, BlocksFinite
<1>11. IsFiniteSet(S) /\ Cardinality(S) = nd.num - keep
  <2>1. IsFiniteSet(S)
    BY <1>8, <1>10, FS_Subset
  <2>2. Cardinality(Blocks(ng) \cup S) =
           Cardinality(Blocks(ng)) + Cardinality(S) - Cardinality(Blocks(ng) \cap S)
    BY <1>10, <2>1, FS_Union
  <2>3. Blocks(ng) \cup S = Blocks(nd) /\ Blocks(ng) \cap S = {}
    BY <1>8, <1>9
  <2>4. Cardinality({}) = 0 /\ Cardinality(S) \in Nat
    BY <2>1, FS_EmptySet, FS_CardinalityType
  <2>5. nd.num = keep + Cardinality(S) - 0
    BY <1>10, <2>2, <2>3, <2>4, Zenon
  <2>6. Cardinality(S) = nd.num - keep
    BY <1>1, <2>4, <2>5
  <2> QED BY <2>1, <2>6
<1>12. Of(v, i) = Blocks(nd) /\ Of(g, i) = Blocks(ng)
  BY <1>2, NodeIsNotNull DEF Of
<1>13. Of(g, i) = Of(v, i) \ S
  BY <1>8, <1>9, <1>12
<1>14. \A x \in Inode \ {i} : g.node[x] = v.node[x]
  BY DEF Shrunk
<1>15. g.used = v.used \ S
  BY DEF Shrunk
<1>16. g.free = v.free + Cardinality(S)
  <2>1. g.free = v.free + nd.num - keep
    BY DEF Shrunk
  <2> QED BY <1>1, <1>11, <2>1
<1>17. VolType(g)
  BY DEF Shrunk
<1>18. S \subseteq Of(v, i)
  BY <1>8, <1>12
<1> QED BY <1>4, <1>11, <1>13, <1>14, <1>15, <1>16, <1>17, <1>18, SoundLess

\* A cut that worked keeps the bytes before it.
LEMMA ShrinkOk ==
  ASSUME NEW v, Sound(v), NEW i \in Inode, NEW nd, nd = v.node[i], nd # Null,
         NEW size \in Nat, size <= nd.size, NEW keep, keep = NumBlocksOf(size), keep <= nd.num,
         NEW g, Shrunk(v, i, keep, size, g)
  PROVE  Resized(v, i, size, g)
<1>1. FullNode(nd) /\ nd.num \in Nat /\ nd.size \in Nat /\ VolType(v) /\ keep \in Nat
  BY NodeFields, Division DEF Sound, FullNode, VolType
<1>2. Sound(g)
  BY ShrunkIsSound
<1> PICK ng : ng = g.node[i]
  OBVIOUS
<1>3. ng \in NodeType /\ ng.size = size /\ ng.num = keep /\ ng.idx = nd.idx /\ ng # Null
  BY NodeIsNotNull DEF Shrunk
<1>4. \A b \in Block : b \notin Ending(nd, keep + 1) => g.data[b] = v.data[b]
  BY DEF Shrunk
<1>5. \A x \in Inode \ {i} : g.node[x] = v.node[x]
  BY DEF Shrunk
<1>6. Others(v, g, i)
  <2>1. ASSUME NEW x \in Inode \ {i}, NEW b \in Of(v, x) PROVE g.data[b] = v.data[b]
    <3>1. b \notin Of(v, i)
      BY DEF Sound
    <3>2. Of(v, i) = Blocks(nd)
      BY DEF Of
    <3>3. b \notin Ending(nd, keep + 1)
      <4>1. \A j \in keep + 1 .. nd.num : j \in 1 .. nd.num
        BY <1>1
      <4> QED BY <3>1, <3>2, <4>1 DEF Blocks, Ending
    <3>4. b \in Block
      BY <1>1, OfIsMarked DEF VolType
    <3> QED BY <1>4, <3>3, <3>4
  <2> QED BY <1>5, <2>1 DEF Others
<1>7. ASSUME NEW k \in 0 .. size - 1
      PROVE  ByteAt(g, ng, k) = IF k < nd.size THEN ByteAt(v, nd, k) ELSE 0
  <2> PICK q : q = k \div BlockSize
    OBVIOUS
  <2>1. q \in 0 .. keep - 1
    BY InBlock
  <2>2. k < nd.size
    BY <1>1
  <2>3. q + 1 \in 1 .. keep /\ q + 1 \in 1 .. nd.num
    BY <1>1, <2>1
  <2>4. nd.idx[q + 1] \in Block
    BY <1>1, <2>3 DEF FullNode
  <2>5. nd.idx[q + 1] \notin Ending(nd, keep + 1)
    <3> SUFFICES ASSUME NEW j \in keep + 1 .. nd.num, nd.idx[q + 1] = nd.idx[j] PROVE FALSE
      BY DEF Ending
    <3>1. j \in 1 .. nd.num /\ j # q + 1
      BY <1>1, <2>1
    <3> QED BY <1>1, <2>3, <3>1 DEF FullNode
  <2>6. g.data[nd.idx[q + 1]] = v.data[nd.idx[q + 1]]
    BY <1>4, <2>4, <2>5
  <2>7. ByteAt(g, ng, k) = g.data[nd.idx[q + 1]][k % BlockSize]
    BY <1>3 DEF ByteAt
  <2>8. ByteAt(v, nd, k) = v.data[nd.idx[q + 1]][k % BlockSize]
    BY DEF ByteAt
  <2> QED BY <2>2, <2>6, <2>7, <2>8
<1> QED BY <1>2, <1>3, <1>6, <1>7 DEF Resized
-----------------------------------------------------------------------------
\* What a change of size leaves in sound tables, by its result
ResizeEnd(v, i, size, o) ==
    \/ o.res = "same" /\ o.vol = v /\ size = v.node[i].size
    \/ o.res = "ok" /\ Resized(v, i, size, o.vol)
    \/ /\ o.res = "full" /\ Resized(v, i, v.node[i].size, o.vol)
       /\ o.vol.node = v.node /\ o.vol.used = v.used /\ o.vol.free = v.free
    \/ o.res = "data" /\ o.vol = v
    \/ o.res \in {"large", "grow", "shrink"}

\* What a call of resizeInodo that shrinks a file leaves
LEMMA ShrinkEnds ==
  ASSUME NEW v, Sound(v), NEW i \in Inode, NEW nd, nd = v.node[i], nd # Null,
         NEW size \in Nat, size < nd.size, NEW o \in Shrink(v, i, size)
  PROVE  ResizeEnd(v, i, size, o)
<1>1. FullNode(nd) /\ nd \in NodeType /\ nd.num \in Nat /\ nd.size \in Nat /\ VolType(v)
      /\ nd.num = NumBlocksOf(nd.size)
  BY NodeFields DEF Sound, FullNode, VolType
<1> PICK keep : keep = NumBlocksOf(size)
  OBVIOUS
<1>2. keep \in 0 .. nd.num /\ keep \in Nat /\ keep <= nd.num
  <2>1. keep <= NumBlocksOf(nd.size)
    BY <1>1, Grows
  <2>2. keep \in Nat
    BY Division
  <2> QED BY <1>1, <2>1, <2>2
<1> PICK w : w = Cut(v, i, keep, keep + 1, 0)
  OBVIOUS
<1> PICK g : g = [w EXCEPT !.node[i].num = keep, !.node[i].size = size]
  OBVIOUS
<1>3. \/ o = End(g, "ok")
      \/ \E n \in keep + 1 .. nd.num : o = End(Cut(v, i, keep, n, 1), "shrink")
  <2>1. ~ \E j \in keep + 1 .. nd.num : nd.idx[j] = Null
    <3>1. \A j \in 1 .. nd.num : nd.idx[j] # Null
      BY <1>1, FullIndex
    <3>2. keep + 1 .. nd.num \subseteq 1 .. nd.num
      BY <1>1, <1>2
    <3> QED BY <3>1, <3>2, Zenon
  <2> QED BY <2>1 DEF Shrink
<1>4. CASE o = End(g, "ok")
  <2>1. CutAt(v, i, keep, keep + 1, 0, w)
    BY <1>1, <1>2, CutIsDone
  <2>2. Shrunk(v, i, keep, size, g)
    BY <1>1, <1>2, <2>1, ShrunkIsDone
  <2>3. size <= nd.size
    BY <1>1
  <2>4. Resized(v, i, size, g)
    BY <1>2, <2>2, <2>3, ShrinkOk
  <2>5. o.res = "ok" /\ o.vol = g
    BY <1>4 DEF End
  <2> QED BY <2>4, <2>5 DEF ResizeEnd
<1>5. CASE \E n \in keep + 1 .. nd.num : o = End(Cut(v, i, keep, n, 1), "shrink")
  BY <1>5 DEF End, ResizeEnd
<1> QED BY <1>3, <1>4, <1>5
-----------------------------------------------------------------------------
\* A file that grows within its last block
LEMMA SameBlocks ==
  ASSUME NEW v, Sound(v), NEW i \in Inode, NEW nd, nd = v.node[i], nd # Null,
         NEW size \in Nat, nd.num = NumBlocksOf(size), NEW w, Prepared(v, i, size, w),
         NEW g, SizeSet(w, i, size, g)
  PROVE  Resized(v, i, size, g)
<1>1. FullNode(nd) /\ nd.num \in Nat /\ nd.size \in Nat
  BY NodeFields DEF Sound, FullNode
<1>2. Sound(w) /\ Others(v, w, i) /\ w.node = v.node /\ w.used = v.used /\ w.node[i] = nd
  BY DEF Prepared
<1> PICK ng : ng = g.node[i]
  OBVIOUS
<1>3. ng \in NodeType /\ ng.size = size /\ ng.num = nd.num /\ ng.idx = nd.idx /\ ng # Null
  BY <1>2, NodeIsNotNull DEF SizeSet
<1>4. FullNode(ng)
  <2>1. /\ \A j \in 1 .. nd.num : nd.idx[j] \in Block
        /\ \A j, k \in 1 .. nd.num : nd.idx[j] = nd.idx[k] => j = k
    BY <1>1 DEF FullNode
  <2>2. ng.num = NumBlocksOf(ng.size)
    BY <1>3
  <2>3. \A j \in 1 .. ng.num : ng.idx[j] \in Block
    BY <1>3, <2>1
  <2>4. \A j, k \in 1 .. ng.num : ng.idx[j] = ng.idx[k] => j = k
    BY <1>3, <2>1
  <2>5. ng \in NodeType
    BY <1>3
  <2> QED BY <2>2, <2>3, <2>4, <2>5, Zenon DEF FullNode
<1>5. Blocks(ng) = Blocks(nd)
  BY <1>3 DEF Blocks
<1>6. Of(g, i) = Of(w, i) \cup {}
  BY <1>2, <1>3, <1>5 DEF Of
<1>7. \A x \in Inode \ {i} : g.node[x] = w.node[x]
  BY DEF SizeSet
<1>8. IsFiniteSet({}) /\ Cardinality({}) = 0
  BY FS_EmptySet
<1>9. g.used = w.used \cup {} /\ g.free = w.free - Cardinality({})
  <2>1. w.free \in Nat
    BY <1>2 DEF Sound, VolType
  <2> QED BY <1>8, <2>1 DEF SizeSet
<1>10. {} \subseteq Free(w.used) /\ VolType(g) /\ FullNode(g.node[i])
  BY <1>4 DEF SizeSet
<1>11. Sound(g)
  BY <1>2, <1>6, <1>7, <1>8, <1>9, <1>10, SoundMore
<1>12. g.data = w.data
  BY DEF SizeSet
<1>13. Others(v, g, i)
  BY <1>2, <1>7, <1>12 DEF Others
<1>14. ASSUME NEW k \in 0 .. size - 1
       PROVE  ByteAt(g, ng, k) = IF k < nd.size THEN ByteAt(v, nd, k) ELSE 0
  <2>1. k < BlockSize * nd.num
    <3>1. size <= BlockSize * nd.num
      BY Division
    <3> PICK bn \in Nat : bn = BlockSize * nd.num
      BY <1>1, Product, MiFSAssumption
    <3> QED BY <3>1
  <2>2. ByteAt(w, nd, k) = IF k < nd.size THEN ByteAt(v, nd, k) ELSE 0
    BY <2>1 DEF Prepared
  <2>3. ByteAt(g, ng, k) = ByteAt(w, nd, k)
    BY <1>3, <1>12 DEF ByteAt
  <2> QED BY <2>2, <2>3
<1> QED BY <1>3, <1>11, <1>13, <1>14 DEF Resized

\* A growth for which there is no room: the file has been filled up.
LEMMA NoRoom ==
  ASSUME NEW v, Sound(v), NEW i \in Inode, NEW nd, nd = v.node[i], nd # Null,
         NEW size \in Nat, nd.size < size, NEW w, Prepared(v, i, size, w)
  PROVE  Resized(v, i, nd.size, w)
<1>1. FullNode(nd) /\ nd.num \in Nat /\ nd.size \in Nat /\ nd.num = NumBlocksOf(nd.size)
  BY NodeFields DEF Sound, FullNode
<1>2. Sound(w) /\ Others(v, w, i) /\ w.node[i] = nd
  BY DEF Prepared
<1>3. ASSUME NEW k \in 0 .. nd.size - 1
      PROVE  ByteAt(w, nd, k) = IF k < nd.size THEN ByteAt(v, nd, k) ELSE 0
  <2>1. k < BlockSize * nd.num
    <3>1. nd.size <= BlockSize * nd.num
      BY <1>1, Division
    <3> PICK bn \in Nat : bn = BlockSize * nd.num
      BY <1>1, Product, MiFSAssumption
    <3> QED BY <1>1, <3>1
  <2>2. k \in 0 .. size - 1
    BY <1>1
  <2> QED BY <2>1, <2>2 DEF Prepared
<1> QED BY <1>2, <1>3 DEF Resized

\* The map has as many free bits as the count says.
LEMMA EnoughBits ==
  ASSUME NEW v, Sound(v), NEW more \in Nat, more <= v.free
  PROVE  more <= Cardinality(Block \ v.used) /\ more <= Quota(v.used)
<1>1. v.free = Quota(v.used)
  BY DEF Sound
<1>2. IsFiniteSet(Block \ v.used)
  BY BlockFinite, FS_Subset
<1>3. Free(v.used) \subseteq Block \ v.used
  BY MiFSAssumption DEF Free, Block
<1>4. Cardinality(Free(v.used)) <= Cardinality(Block \ v.used)
  BY <1>2, <1>3, FS_Subset
<1>5. Cardinality(Free(v.used)) = Quota(v.used) /\ Quota(v.used) \in Nat
  BY FreeFinite
<1>6. Cardinality(Block \ v.used) \in Nat
  BY <1>2, FS_CardinalityType
<1> QED BY <1>1, <1>4, <1>5, <1>6

\* What the growth of a file that fits in its indices leaves
LEMMA TakeEnds ==
  ASSUME NEW v, Sound(v), NEW i \in Inode, NEW nd, nd = v.node[i], nd # Null,
         NEW size \in Nat, NEW w, Prepared(v, i, size, w), NEW more \in Nat,
         NumBlocksOf(size) = nd.num + more, more <= w.free, nd.num + more <= MaxFileBlocks,
         NEW o \in Take(w, i, size, more)
  PROVE  ResizeEnd(v, i, size, o)
<1>1. FullNode(nd) /\ nd \in NodeType /\ nd.num \in Nat /\ nd.size \in Nat
  BY NodeFields DEF Sound, FullNode
<1>2. Sound(w) /\ VolType(w) /\ w.node = v.node /\ w.node[i] = nd
  BY DEF Prepared, Sound
<1> PICK num : num = nd.num + more
  OBVIOUS
<1> PICK bs : bs = FirstFit(w, more)
  OBVIOUS
<1> PICK h : h = Grown(w, i, num, bs, more)
  OBVIOUS
<1> PICK g : g = [h EXCEPT !.node[i].size = size]
  OBVIOUS
<1>3. \/ o = End(g, "ok")
      \/ \E n \in 1 .. more : o = End(Grown(w, i, num, SubSeq(bs, 1, n), n - 1), "grow")
  BY <1>2 DEF Take
<1>4. Fits(w, bs, more)
  <2>1. more <= Quota(w.used)
    BY <1>2, EnoughBits
  <2> QED BY <2>1, FirstFitResult
<1>5. bs \in Seq(Block) /\ Len(bs) = more
  BY <1>4 DEF Fits, Chosen
<1>6. num \in 0 .. MaxFileBlocks /\ num - nd.num = more /\ num = NumBlocksOf(size)
  BY <1>1, RoomInNode
<1>7. CASE o = End(g, "ok")
  <2>1. nd.num + Len(bs) <= num /\ num - nd.num <= w.free
    BY <1>1, <1>5, <1>6
  <2>2. Taken(w, i, num, bs, more, h)
    BY <1>1, <1>2, <1>5, <1>6, <2>1, GrownTaken
  <2> PICK nh : nh = h.node[i]
    OBVIOUS
  <2>3. nh \in NodeType /\ VolType(h)
    BY <2>2 DEF Taken, Longer
  <2>4. SizeSet(h, i, size, g)
    BY <2>3, SizeIsSet
  <2>5. Resized(v, i, size, g)
    BY <1>4, <1>6, <2>2, <2>4, TakeOk, SMTT(30)
  <2>6. o.res = "ok" /\ o.vol = g
    BY <1>7 DEF End
  <2> QED BY <2>5, <2>6 DEF ResizeEnd
<1>8. CASE \E n \in 1 .. more : o = End(Grown(w, i, num, SubSeq(bs, 1, n), n - 1), "grow")
  BY <1>8, SMTT(30) DEF End, ResizeEnd
<1> QED BY <1>3, <1>7, <1>8

\* What a call of resizeInodo that grows a file leaves
LEMMA GrowEnds ==
  ASSUME NEW v, Sound(v), NEW i \in Inode, NEW nd, nd = v.node[i], nd # Null,
         NEW size \in Nat, nd.size < size, NEW o \in Grow(v, i, size)
  PROVE  ResizeEnd(v, i, size, o)
<1>1. FullNode(nd) /\ nd \in NodeType /\ nd.num \in Nat /\ nd.size \in Nat
      /\ nd.num = NumBlocksOf(nd.size)
  BY NodeFields DEF Sound, FullNode
<1> PICK more : more = NumBlocksOf(size) - nd.num
  OBVIOUS
<1>2. more \in Nat /\ NumBlocksOf(size) = nd.num + more
  <2>1. nd.num <= NumBlocksOf(size)
    BY <1>1, Grows
  <2>2. NumBlocksOf(size) \in Nat
    BY Division
  <2> QED BY <1>1, <2>1, <2>2
<1> PICK w : w = IF nd.num > 0 /\ nd.size % BlockSize # 0 THEN TailCleared(v, nd, size) ELSE v
  OBVIOUS
<1>3. Prepared(v, i, size, w)
  <2>1. CASE nd.num > 0 /\ nd.size % BlockSize # 0
    BY <1>1, <2>1, TailPrepared
  <2>2. CASE ~(nd.num > 0 /\ nd.size % BlockSize # 0)
    BY <1>1, <2>2, WholePrepared, SMTT(30)
  <2> QED BY <2>1, <2>2
<1>4. Sound(w) /\ VolType(w) /\ w.node = v.node /\ w.used = v.used /\ w.free = v.free
      /\ w.node[i] = nd
  BY <1>3 DEF Prepared, Sound
<1> PICK g : g = [w EXCEPT !.node[i].size = size]
  OBVIOUS
<1>5. \/ o = End(v, "data")
      \/ more = 0 /\ o = End(g, "ok")
      \/ ~RoomFor(v, more) /\ o = End(w, "full")
      \/ o = End(w, "large")
      \/ RoomFor(v, more) /\ RunsOff(v, more) /\ o = End(w, "lost")
      \/ RoomFor(v, more) /\ nd.num + more <= MaxFileBlocks /\ o \in Take(w, i, size, more)
  <2>1. o \in (IF nd.num > 0 /\ nd.size % BlockSize # 0 THEN {End(v, "data")} ELSE {}) \cup
               (IF more = 0 THEN {End(g, "ok")}
                ELSE IF ~RoomFor(v, more) THEN {End(w, "full")}
                ELSE IF nd.num + more > MaxFileBlocks THEN {End(w, "large")}
                ELSE IF RunsOff(v, more) THEN {End(w, "lost")}
                ELSE Take(w, i, size, more))
    <3>1. ~(nd.num > 0 /\ nd.size % BlockSize # 0 /\ nd.idx[nd.num] = Null)
      <4>1. nd.num > 0 => nd.num \in 1 .. nd.num
        BY <1>1
      <4> QED BY <1>1, <4>1, FullIndex
    <3> QED BY <3>1 DEF Grow
  <2>2. ~(nd.num + more > MaxFileBlocks) => nd.num + more <= MaxFileBlocks
    BY <1>1, <1>2, MiFSAssumption
  <2> QED BY <2>1, <2>2, ZenonT(30)
<1>6. CASE o = End(v, "data")
  BY <1>6, SMTT(30) DEF End, ResizeEnd
<1>7. CASE more = 0 /\ o = End(g, "ok")
  <2>1. SizeSet(w, i, size, g)
    BY <1>1, <1>4, SizeIsSet, ZenonT(30)
  <2>2. nd.num = NumBlocksOf(size)
    <3>1. more = 0
      BY <1>7
    <3>2. nd.num + 0 = nd.num
      BY <1>1
    <3> QED BY <1>2, <3>1, <3>2, Zenon
  <2>3. Resized(v, i, size, g)
    BY <1>3, <2>1, <2>2, SameBlocks, SMTT(30)
  <2> QED BY <1>7, <2>3, ZenonT(30) DEF End, ResizeEnd
<1>8. CASE o = End(w, "full")
  <2>1. Resized(v, i, nd.size, w)
    BY <1>3, NoRoom
  <2> QED BY <1>4, <1>8, <2>1 DEF End, ResizeEnd
<1>9. CASE o = End(w, "large")
  BY <1>9 DEF End, ResizeEnd
<1>10. CASE RoomFor(v, more) /\ RunsOff(v, more) /\ o = End(w, "lost")
  <2>1. more <= Cardinality(Block \ v.used)
    BY <1>2, <1>10, EnoughBits DEF RoomFor
  <2>2. Cardinality(Block \ v.used) \in Nat
    BY BlockFinite, FS_Subset, FS_CardinalityType
  <2> QED BY <1>2, <1>10, <2>1, <2>2 DEF RunsOff
<1>11. CASE RoomFor(v, more) /\ nd.num + more <= MaxFileBlocks /\ o \in Take(w, i, size, more)
  <2>1. more <= w.free
    BY <1>4, <1>11 DEF RoomFor
  <2> QED BY <1>2, <1>3, <1>11, <2>1, TakeEnds
<1> QED BY <1>5, <1>6, <1>7, <1>8, <1>9, <1>10, <1>11

\* resizeInodo keeps the structures sound whenever it says that it worked.
THEOREM ResizeEnds ==
  ASSUME NEW v, Sound(v), NEW i \in Inode, v.node[i] # Null,
         NEW size \in Nat, NEW o \in Resize(v, i, size)
  PROVE  ResizeEnd(v, i, size, o)
<1> PICK nd : nd = v.node[i]
  OBVIOUS
<1>1. nd.size \in Nat /\ nd # Null
  BY NodeFields DEF Sound, FullNode
<1>2. CASE size = nd.size
  <2>1. o = End(v, "same")
    BY <1>2 DEF Resize
  <2> QED BY <1>2, <2>1 DEF End, ResizeEnd
<1>3. CASE nd.size < size
  <2>1. o \in Grow(v, i, size)
    BY <1>1, <1>3 DEF Resize
  <2> QED BY <1>1, <1>3, <2>1, GrowEnds
<1>4. CASE size < nd.size
  <2>1. o \in Shrink(v, i, size)
    BY <1>1, <1>4 DEF Resize
  <2> QED BY <1>1, <1>4, <2>1, ShrinkEnds
<1> QED BY <1>1, <1>2, <1>3, <1>4
-----------------------------------------------------------------------------
\* A set of numbers below n that is not empty has a largest one.
LEMMA MaxExists ==
  ASSUME NEW n \in Nat, NEW S, S \subseteq 0 .. n - 1, S # {}
  PROVE  Max(S) \in S
<1> DEFINE T == {n - x : x \in S}
<1>1. T \subseteq Nat /\ T # {}
  <2>1. \A x \in S : x \in 0 .. n - 1
    OBVIOUS
  <2>2. \A x \in 0 .. n - 1 : n - x \in Nat
    OBVIOUS
  <2>3. \A x \in S : n - x \in Nat
    BY <2>1, <2>2, Zenon
  <2> QED BY <2>3, Zenon
<1>2. Min(T) \in T /\ \A y \in T : Min(T) <= y
  BY <1>1, MinExists
<1> PICK m : m = Min(T)
  OBVIOUS
<1>3. PICK x \in S : m = n - x
  BY <1>2
<1>4. \A y \in S : x >= y
  <2> TAKE y \in S
  <2>1. n - y \in T
    OBVIOUS
  <2>2. m <= n - y
    BY <1>2, <2>1
  <2>3. x \in Nat /\ y \in Nat
    OBVIOUS
  <2> QED BY <1>3, <2>2, <2>3
<1> QED BY <1>4 DEF Max

\* The bytes of a write that go to a position of a block
Hits(nd, offset, n, b, p) ==
    {k \in 0 .. n - 1 : nd.idx[Place(offset, k)[1] + 1] = b /\ Place(offset, k)[2] = p}

\* The first n bytes have been written.
Written(v, nd, offset, bytes, n, w) ==
    /\ VolType(w) /\ w.node = v.node /\ w.used = v.used /\ w.free = v.free
    /\ \A b \in Block, p \in 0 .. BlockSize - 1 : w.data[b][p] =
          IF Hits(nd, offset, n, b, p) = {} THEN v.data[b][p]
          ELSE bytes[Max(Hits(nd, offset, n, b, p)) + 1]

\* The loop of my_write writes its bytes, the last one to a place winning.
LEMMA PutWrites ==
  ASSUME NEW v, VolType(v), NEW nd, NEW offset \in Nat, NEW bytes \in Seq(Nat),
         NEW n \in Nat, n <= Len(bytes)
  PROVE  Written(v, nd, offset, bytes, n, Put(v, nd, offset, bytes, n))
<1> PICK w : w = Put(v, nd, offset, bytes, n)
  OBVIOUS
<1>1. /\ v = [node |-> v.node, used |-> v.used, free |-> v.free, data |-> v.data]
      /\ v.data \in [Block -> [0 .. BlockSize - 1 -> Byte]]
  BY DEF VolType
<1>2. /\ w = [node |-> w.node, used |-> w.used, free |-> w.free, data |-> w.data]
      /\ w.node = v.node /\ w.used = v.used /\ w.free = v.free
  BY <1>1 DEF Put
<1>3. w.data = [b \in Block |-> [p \in 0 .. BlockSize - 1 |->
            IF Hits(nd, offset, n, b, p) = {} THEN v.data[b][p]
            ELSE bytes[Max(Hits(nd, offset, n, b, p)) + 1]]]
  BY <1>1 DEF Put, Hits
<1>4. \A b \in Block, p \in 0 .. BlockSize - 1 : w.data[b][p] =
          IF Hits(nd, offset, n, b, p) = {} THEN v.data[b][p]
          ELSE bytes[Max(Hits(nd, offset, n, b, p)) + 1]
  BY <1>3
<1>5. ASSUME NEW b \in Block, NEW p \in 0 .. BlockSize - 1 PROVE w.data[b][p] \in Byte
  <2> PICK H : H = Hits(nd, offset, n, b, p)
    OBVIOUS
  <2>1. CASE H = {}
    BY <1>1, <1>4, <2>1
  <2>2. CASE H # {}
    <3>1. H \subseteq 0 .. n - 1
      BY DEF Hits
    <3>2. Max(H) \in 0 .. n - 1
      BY <2>2, <3>1, MaxExists
    <3>3. bytes[Max(H) + 1] \in Nat
      BY <3>2
    <3> QED BY <1>4, <2>2, <3>3 DEF Byte
  <2> QED BY <2>1, <2>2
<1>6. w.data \in [Block -> [0 .. BlockSize - 1 -> Byte]]
  <2>1. /\ w.data = [b \in Block |-> w.data[b]]
        /\ \A b \in Block : w.data[b] = [p \in 0 .. BlockSize - 1 |-> w.data[b][p]]
    BY <1>3
  <2>2. \A b \in Block : w.data[b] \in [0 .. BlockSize - 1 -> Byte]
    BY <1>5, <2>1
  <2> QED BY <2>1, <2>2
<1>7. VolType(w)
  BY <1>2, <1>6 DEF VolType
<1> QED BY <1>2, <1>4, <1>7 DEF Written
-----------------------------------------------------------------------------
\* Quotient and remainder are the only ones.
Splits(a, b, q, r) == q \in Nat /\ r \in 0 .. b - 1 /\ a = b * q + r

\* Who splits a number this way has its quotient and remainder.
LEMMA DivideOnly ==
  ASSUME NEW b \in Nat \ {0}, NEW a \in Nat, NEW q, NEW r, Splits(a, b, q, r)
  PROVE  q = a \div b /\ r = a % b
<1>0. q \in Nat /\ r \in 0 .. b - 1 /\ a = b * q + r
  BY DEF Splits
<1> PICK d \in Nat : d = a \div b
  BY Divide
<1> PICK e \in 0 .. b - 1 : e = a % b
  BY Divide
<1>1. a = b * d + e
  BY Divide
<1> PICK bq \in Nat : bq = b * q
  BY <1>0, Product
<1> PICK bd \in Nat : bd = b * d
  BY Product
<1>2. bq + r = bd + e
  BY <1>0, <1>1
<1>3. b * q < b * (d + 1)
  <2>1. b * (d + 1) = bd + b
    BY <1>0
  <2> QED BY <1>0, <1>2, <2>1
<1>4. b * d < b * (q + 1)
  <2>1. b * (q + 1) = bq + b
    BY <1>0
  <2> QED BY <1>0, <1>2, <2>1
<1>5. q < d + 1 /\ d < q + 1
  BY <1>0, <1>3, <1>4, LessTimes
<1>6. q = d
  BY <1>0, <1>5
<1> QED BY <1>0, <1>2, <1>6

\* A number smaller than the divisor is its own remainder.
LEMMA SmallDivide ==
  ASSUME NEW b \in Nat \ {0}, NEW a \in 0 .. b - 1
  PROVE  a \div b = 0 /\ a % b = a
<1>1. Splits(a, b, 0, a)
  BY DEF Splits
<1> QED BY <1>1, DivideOnly

\* A write within a block or from the start of one puts every byte where
\* the file has it.
LEMMA PlaceIsRight ==
  ASSUME NEW offset \in Nat, NEW bytes \in Seq(Nat), ~Across(offset, bytes),
         NEW k \in 0 .. Len(bytes) - 1
  PROVE  /\ Place(offset, k)[1] = (offset + k) \div BlockSize
         /\ Place(offset, k)[2] = (offset + k) % BlockSize
<1>1. PICK B : B = BlockSize /\ B \in Nat \ {0}
  BY MiFSAssumption
<1>2. PICK len : len = Len(bytes) /\ len \in Nat
  OBVIOUS
<1>3. PICK a : a = offset + k /\ a \in Nat /\ k \in Nat
  OBVIOUS
<1>4. PICK q : q = offset \div B /\ q \in Nat
  BY <1>1, Divide
<1>5. PICK r : r = offset % B /\ r \in 0 .. B - 1
  BY <1>1, Divide
<1>6. PICK bq : bq = B * q /\ bq \in Nat
  BY <1>1, <1>4, Product
<1>7. offset = bq + r
  BY <1>1, <1>4, <1>5, <1>6, Divide
<1>8. Place(offset, k) = <<q + (k \div (B - r)), r + (k % (B - r))>>
  BY <1>1, <1>4, <1>5 DEF Place
<1>9. CASE r = 0
  <2>1. PICK x : x = k \div B /\ x \in Nat
    BY <1>1, <1>3, Divide
  <2>2. PICK y : y = k % B /\ y \in 0 .. B - 1
    BY <1>1, <1>3, Divide
  <2>3. PICK bx : bx = B * x /\ bx \in Nat
    BY <1>1, <2>1, Product
  <2>4. k = bx + y
    BY <1>1, <1>3, <2>1, <2>2, <2>3, Divide
  <2>5. PICK s : s = q + x /\ s \in Nat
    BY <1>4, <2>1
  <2>6. B - r = B /\ r + y = y
    BY <1>1, <1>9, <2>2
  <2>7. Place(offset, k) = <<s, y>>
    BY <1>8, <2>1, <2>2, <2>5, <2>6
  <2>8. B * s = bq + bx
    BY <1>1, <1>4, <1>6, <2>1, <2>3, <2>5
  <2>9. a = B * s + y
    BY <1>3, <1>6, <1>7, <1>9, <2>2, <2>3, <2>4, <2>8
  <2>10. s = a \div B /\ y = a % B
    <3>1. Splits(a, B, s, y)
      BY <2>2, <2>5, <2>9 DEF Splits
    <3> QED BY <1>1, <1>3, <3>1, DivideOnly
  <2> QED BY <1>1, <1>3, <2>7, <2>10
<1>10. CASE r # 0
  <2>1. r + len <= B
    BY <1>1, <1>2, <1>5, <1>10 DEF Across
  <2>2. PICK c : c = B - r /\ c \in Nat \ {0} /\ k \in 0 .. c - 1
    BY <1>1, <1>2, <1>5, <2>1
  <2>3. k \div c = 0 /\ k % c = k
    BY <2>2, SmallDivide
  <2>4. PICK s : s = r + k /\ s \in 0 .. B - 1
    BY <1>1, <1>3, <1>5, <2>2
  <2>5. q + 0 = q
    BY <1>4
  <2>6. Place(offset, k) = <<q, s>>
    BY <1>8, <2>2, <2>3, <2>4, <2>5
  <2>7. a = B * q + s
    <3>1. a = bq + s
      BY <1>1, <1>3, <1>5, <1>6, <1>7, <2>4
    <3> QED BY <1>6, <3>1
  <2>8. q = a \div B /\ s = a % B
    <3>1. Splits(a, B, q, s)
      BY <1>4, <2>4, <2>7 DEF Splits
    <3> QED BY <1>1, <1>3, <1>4, <3>1, DivideOnly
  <2> QED BY <1>1, <1>3, <2>6, <2>8
<1> QED BY <1>9, <1>10
-----------------------------------------------------------------------------
\* What the loop of a write leaves, by its result
PutEnd(v, i, offset, bytes, o) ==
    \/ o.res = "lost" /\ o.vol = v /\ Across(offset, bytes)
    \/ /\ o.res \in {"ok", "data"}
       /\ VolType(o.vol) /\ o.vol.node = v.node /\ o.vol.used = v.used /\ o.vol.free = v.free
       /\ o.res = "ok" => Written(v, v.node[i], offset, bytes, Len(bytes), o.vol)

\* The blocks of the file reach as far as the write.
LEMMA PutStays ==
  ASSUME NEW nd, FullNode(nd), NEW offset \in Nat, NEW bytes \in Seq(Nat),
         nd.size = offset + Len(bytes), ~Across(offset, bytes),
         NEW j \in (offset \div BlockSize) .. Place(offset, Len(bytes) - 1)[1]
  PROVE  j + 1 \in 1 .. nd.num /\ nd.num <= MaxFileBlocks /\ nd.num \in Nat /\ j \in Nat
<1>1. nd.num \in Nat /\ nd.num <= MaxFileBlocks /\ nd.size \in Nat /\ nd.num = NumBlocksOf(nd.size)
  BY NodeFields DEF FullNode
<1>2. PICK B : B = BlockSize /\ B \in Nat \ {0}
  BY MiFSAssumption
<1>3. PICK q : q = offset \div B /\ q \in Nat
  BY <1>2, Divide
<1>4. PICK r : r = offset % B /\ r \in 0 .. B - 1
  BY <1>2, Divide
<1>5. PICK len : len = Len(bytes) /\ len \in Nat
  OBVIOUS
<1>6. CASE len = 0
  <2>1. Place(offset, len - 1)[1] = q + ((-1) \div (B - r))
    BY <1>2, <1>3, <1>4, <1>6 DEF Place
  <2>2. PICK c : c = B - r /\ c \in Nat \ {0}
    BY <1>2, <1>4
  <2>3. (-1) \div c = -1
    BY <2>2
  <2>4. Place(offset, len - 1)[1] = q - 1
    BY <1>3, <2>1, <2>2, <2>3
  <2>5. j \in q .. q - 1
    BY <1>2, <1>3, <1>5, <2>4
  <2> QED BY <1>3, <2>5
<1>7. CASE len # 0
  <2>1. len - 1 \in 0 .. len - 1
    BY <1>5, <1>7
  <2>2. Place(offset, len - 1)[1] = (offset + (len - 1)) \div BlockSize
    BY <1>5, <2>1, PlaceIsRight
  <2>3. PICK e : e = offset + (len - 1) /\ e \in 0 .. nd.size - 1
    BY <1>1, <1>5, <1>7
  <2>4. e \div BlockSize \in 0 .. nd.num - 1
    BY <1>1, <2>3, InBlock
  <2>5. PICK last : last = Place(offset, len - 1)[1] /\ last \in 0 .. nd.num - 1
    BY <2>2, <2>3, <2>4
  <2>6. j \in q .. last
    BY <1>2, <1>3, <1>5, <2>5
  <2> QED BY <1>1, <1>3, <2>5, <2>6
<1> QED BY <1>1, <1>5, <1>6, <1>7

\* What the loop of my_write leaves
LEMMA PutEnds ==
  ASSUME NEW v, Sound(v), NEW i \in Inode, NEW nd, nd = v.node[i], nd # Null,
         NEW offset \in Nat, NEW bytes \in Seq(Nat), nd.size = offset + Len(bytes),
         NEW o \in PutAll(v, i, offset, bytes)
  PROVE  PutEnd(v, i, offset, bytes, o)
<1>1. FullNode(nd) /\ VolType(v)
  BY DEF Sound
<1> DEFINE Lost == \E j \in (offset \div BlockSize) .. Place(offset, Len(bytes) - 1)[1] :
                      j >= MaxFileBlocks \/ nd.idx[j + 1] = Null
           Before(c) == {k \in 0 .. Len(bytes) - 1 : Place(offset, k)[1] < c}
<1>2. \/ Lost /\ o = End(v, "lost")
      \/ o = End(Put(v, nd, offset, bytes, Len(bytes)), "ok")
      \/ \E c : o = End(Put(v, nd, offset, bytes, Cardinality(Before(c))), "data")
  BY DEF PutAll
<1>3. CASE Lost /\ o = End(v, "lost")
  <2>1. ASSUME ~Across(offset, bytes) PROVE FALSE
    <3>1. PICK j \in (offset \div BlockSize) .. Place(offset, Len(bytes) - 1)[1] :
              j >= MaxFileBlocks \/ nd.idx[j + 1] = Null
      BY <1>3
    <3>2. j + 1 \in 1 .. nd.num /\ nd.num <= MaxFileBlocks /\ nd.num \in Nat /\ j \in Nat
      BY <1>1, <2>1, PutStays
    <3>3. nd.idx[j + 1] \in Nat
      BY <1>1, <3>2, MiFSAssumption DEF FullNode, Block
    <3>4. nd.idx[j + 1] # Null
      BY <3>3, NothingAssumption
    <3>5. ~(j >= MaxFileBlocks)
      BY <3>2, MiFSAssumption
    <3> QED BY <3>1, <3>4, <3>5
  <2> QED BY <1>3, <2>1 DEF PutEnd, End
<1> HIDE DEF Lost
<1>4. CASE o = End(Put(v, nd, offset, bytes, Len(bytes)), "ok")
  <2>1. Len(bytes) \in Nat /\ Len(bytes) <= Len(bytes)
    OBVIOUS
  <2> PICK w : w = Put(v, nd, offset, bytes, Len(bytes))
    OBVIOUS
  <2>2. Written(v, nd, offset, bytes, Len(bytes), w)
    BY <1>1, <2>1, PutWrites
  <2>3. o.vol = w /\ o.res = "ok"
    BY <1>4 DEF End
  <2>4. VolType(w) /\ w.node = v.node /\ w.used = v.used /\ w.free = v.free
    BY <2>2 DEF Written
  <2> QED BY <2>2, <2>3, <2>4 DEF PutEnd
<1>5. CASE \E c : o = End(Put(v, nd, offset, bytes, Cardinality(Before(c))), "data")
  <2>1. PICK c : o = End(Put(v, nd, offset, bytes, Cardinality(Before(c))), "data")
    BY <1>5
  <2>2. PICK len : len = Len(bytes) /\ len \in Nat
    OBVIOUS
  <2>3. PICK n : n = Cardinality(Before(c))
    OBVIOUS
  <2>4. n \in Nat /\ n <= len
    <3>1. IsFiniteSet(0 .. len - 1) /\ Cardinality(0 .. len - 1) <= len
      <4>1. PICK z : z = len - 1 /\ z \in Int
        BY <2>2
      <4>2. IsFiniteSet(0 .. z) /\ Cardinality(0 .. z) = IF 0 > z THEN 0 ELSE z - 0 + 1
        <5>1. z \in Int /\ 0 \in Int
          BY <4>1
        <5> QED BY <5>1, FS_Interval, Zenon
      <4> QED BY <2>2, <4>1, <4>2
    <3>2. Before(c) \subseteq 0 .. len - 1
      BY <2>2
    <3>3. IsFiniteSet(Before(c)) /\ Cardinality(Before(c)) <= Cardinality(0 .. len - 1)
      BY <3>1, <3>2, FS_Subset
    <3>4. Cardinality(Before(c)) \in Nat /\ Cardinality(0 .. len - 1) \in Nat
      BY <3>1, <3>3, FS_CardinalityType
    <3> QED BY <2>2, <2>3, <3>1, <3>3, <3>4
  <2> PICK w : w = Put(v, nd, offset, bytes, n)
    OBVIOUS
  <2>5. Written(v, nd, offset, bytes, n, w)
    BY <1>1, <2>2, <2>4, PutWrites
  <2>6. o.vol = w /\ o.res = "data"
    BY <2>1, <2>3 DEF End
  <2>7. VolType(w) /\ w.node = v.node /\ w.used = v.used /\ w.free = v.free
    BY <2>5 DEF Written
  <2> QED BY <2>6, <2>7 DEF PutEnd
<1> QED BY <1>2, <1>3, <1>4, <1>5

\* Whatever the tables were, the loop of my_write only changes data.
LEMMA PutLoosely ==
  ASSUME NEW v, Enough(v), NEW i \in Inode, NEW offset \in Nat, NEW bytes \in Seq(Nat),
         NEW o \in PutAll(v, i, offset, bytes)
  PROVE  LooseEnd(v, o) /\ o.res # "shrink"
<1>1. VolType(v)
  BY DEF Enough
<1> PICK nd : nd = v.node[i]
  OBVIOUS
<1> PICK len \in Nat : len = Len(bytes)
  OBVIOUS
<1> DEFINE Before(c) == {k \in 0 .. len - 1 : Place(offset, k)[1] < c}
<1>2. \/ o = End(v, "lost")
      \/ o = End(Put(v, nd, offset, bytes, len), "ok")
      \/ \E c : o = End(Put(v, nd, offset, bytes, Cardinality(Before(c))), "data")
  BY DEF PutAll
<1>3. ASSUME NEW c PROVE Cardinality(Before(c)) \in Nat /\ Cardinality(Before(c)) <= len
  <2>1. IsFiniteSet(0 .. len - 1) /\ Cardinality(0 .. len - 1) = len
    <3>1. PICK z : z = len - 1 /\ z \in Int /\ 0 \in Int
      OBVIOUS
    <3>2. IsFiniteSet(0 .. z) /\ Cardinality(0 .. z) = IF 0 > z THEN 0 ELSE z - 0 + 1
      BY <3>1, FS_Interval, Zenon
    <3> QED BY <3>1, <3>2
  <2>2. Before(c) \in SUBSET (0 .. len - 1)
    OBVIOUS
  <2> QED BY <2>1, <2>2, FS_Subset, FS_CardinalityType
<1> HIDE DEF Before
<1>4. ASSUME NEW n \in Nat, n <= len, NEW r, o = End(Put(v, nd, offset, bytes, n), r)
      PROVE  LooseEnd(v, o)
  <2> PICK w : w = Put(v, nd, offset, bytes, n)
    OBVIOUS
  <2>1. Written(v, nd, offset, bytes, n, w)
    BY <1>1, <1>4, PutWrites
  <2>2. VolType(w) /\ w.node = v.node /\ w.used = v.used /\ w.free = v.free
    BY <2>1 DEF Written
  <2> QED BY <1>4, <2>2, LooseData
<1>5. CASE o = End(v, "lost")
  BY <1>1, <1>5, LooseData DEF End
<1>6. CASE o = End(Put(v, nd, offset, bytes, len), "ok")
  <2>1. o.res = "ok"
    BY <1>6 DEF End
  <2> QED BY <1>4, <1>6, <2>1
<1>7. CASE \E c : o = End(Put(v, nd, offset, bytes, Cardinality(Before(c))), "data")
  <2>1. PICK c : o = End(Put(v, nd, offset, bytes, Cardinality(Before(c))), "data")
    BY <1>7
  <2>2. o.res = "data"
    BY <2>1 DEF End
  <2> QED BY <1>3, <1>4, <2>1, <2>2
<1> QED BY <1>2, <1>5, <1>6, <1>7
-----------------------------------------------------------------------------
\* A write that does not run across blocks changes the bytes it says it
\* does, and no others.
Changed(v, i, offset, bytes, w) ==
    /\ Others(v, w, i)
    /\ \A k \in 0 .. offset + Len(bytes) - 1 : ByteAt(w, w.node[i], k) =
          IF k < offset THEN ByteAt(v, v.node[i], k) ELSE bytes[k - offset + 1]

\* A write that does not run across blocks writes every byte in place.
LEMMA WriteChanges ==
  ASSUME NEW v, Sound(v), NEW i \in Inode, NEW nd, nd = v.node[i], nd # Null,
         NEW offset \in Nat, NEW bytes \in Seq(Nat), nd.size = offset + Len(bytes),
         ~Across(offset, bytes),
         NEW w, Written(v, nd, offset, bytes, Len(bytes), w)
  PROVE  Changed(v, i, offset, bytes, w)
<1>1. /\ FullNode(nd) /\ VolType(v) /\ nd.num \in Nat /\ nd.size \in Nat
      /\ nd.num = NumBlocksOf(nd.size)
  BY NodeFields DEF Sound, FullNode
<1>2. PICK len : len = Len(bytes) /\ len \in Nat
  OBVIOUS
<1>3. PICK B : B = BlockSize /\ B \in Nat \ {0}
  BY MiFSAssumption
<1>4. VolType(w) /\ w.node = v.node /\ w.node[i] = nd
  BY DEF Written
<1>5. ASSUME NEW k \in 0 .. len - 1
      PROVE  /\ Place(offset, k)[1] = (offset + k) \div B
             /\ Place(offset, k)[2] = (offset + k) % B
             /\ ((offset + k) \div B) + 1 \in 1 .. nd.num
             /\ offset + k = B * ((offset + k) \div B) + ((offset + k) % B)
  <2>1. PICK e : e = offset + k /\ e \in 0 .. nd.size - 1
    BY <1>1, <1>2
  <2>2. e \div BlockSize \in 0 .. nd.num - 1
        /\ e = BlockSize * (e \div BlockSize) + (e % BlockSize)
    BY <1>1, <2>1, InBlock
  <2>3. (e \div BlockSize) + 1 \in 1 .. nd.num
    BY <1>1, <2>2
  <2>4. Place(offset, k)[1] = (offset + k) \div BlockSize
        /\ Place(offset, k)[2] = (offset + k) % BlockSize
    BY <1>2, PlaceIsRight
  <2> QED BY <1>3, <2>1, <2>2, <2>3, <2>4
<1>6. Others(v, w, i)
  <2>1. ASSUME NEW x \in Inode \ {i}, NEW b \in Of(v, x) PROVE w.data[b] = v.data[b]
    <3>1. b \in Block /\ b \notin Blocks(nd)
      <4>1. Of(v, i) = Blocks(nd)
        BY DEF Of
      <4>2. Of(v, x) \cap Of(v, i) = {}
        BY DEF Sound
      <4>3. b \in v.used /\ v.used \subseteq Block
        BY OfIsMarked DEF Sound, VolType
      <4> QED BY <2>1, <4>1, <4>2, <4>3
    <3>2. ASSUME NEW p \in 0 .. BlockSize - 1 PROVE Hits(nd, offset, len, b, p) = {}
      <4> SUFFICES ASSUME NEW k \in 0 .. len - 1, nd.idx[Place(offset, k)[1] + 1] = b PROVE FALSE
        BY DEF Hits
      <4>1. Place(offset, k)[1] + 1 \in 1 .. nd.num
        BY <1>5
      <4> QED BY <3>1, <4>1 DEF Blocks
    <3>3. \A p \in 0 .. BlockSize - 1 : w.data[b][p] = v.data[b][p]
      BY <1>2, <3>1, <3>2 DEF Written
    <3>4. w.data[b] \in [0 .. BlockSize - 1 -> Byte] /\ v.data[b] \in [0 .. BlockSize - 1 -> Byte]
      BY <1>1, <1>4, <3>1 DEF VolType
    <3>5. /\ w.data[b] = [p \in 0 .. BlockSize - 1 |-> w.data[b][p]]
          /\ v.data[b] = [p \in 0 .. BlockSize - 1 |-> v.data[b][p]]
      BY <3>4
    <3>6. [p \in 0 .. BlockSize - 1 |-> w.data[b][p]] = [p \in 0 .. BlockSize - 1 |-> v.data[b][p]]
      BY <3>3
    <3> QED BY <3>5, <3>6
  <2> QED BY <1>4, <2>1 DEF Others
<1>7. ASSUME NEW m \in 0 .. nd.size - 1
      PROVE  ByteAt(w, nd, m) = IF m < offset THEN ByteAt(v, nd, m) ELSE bytes[m - offset + 1]
  <2>1. PICK q : q = m \div B /\ q \in 0 .. nd.num - 1
    BY <1>1, <1>3, InBlock
  <2>2. PICK p : p = m % B /\ p \in 0 .. B - 1 /\ m = B * q + p
    BY <1>1, <1>3, <2>1, InBlock
  <2>3. q + 1 \in 1 .. nd.num
    BY <1>1, <2>1
  <2>4. PICK b : b = nd.idx[q + 1] /\ b \in Block
    BY <1>1, <2>3, SMTT(30) DEF FullNode
  <2>5. ByteAt(w, nd, m) = w.data[b][p] /\ ByteAt(v, nd, m) = v.data[b][p]
    BY <1>3, <2>1, <2>2, <2>4 DEF ByteAt
  <2>6. PICK H : H = Hits(nd, offset, len, b, p)
    OBVIOUS
  <2>7. w.data[b][p] = IF H = {} THEN v.data[b][p] ELSE bytes[Max(H) + 1]
    BY <1>2, <1>3, <2>2, <2>4, <2>6 DEF Written
  <2>8. ASSUME NEW k \in H PROVE k \in 0 .. len - 1 /\ offset + k = m
    <3>1. k \in 0 .. len - 1 /\ nd.idx[Place(offset, k)[1] + 1] = b /\ Place(offset, k)[2] = p
      BY <2>6 DEF Hits
    <3>2. PICK d : d = (offset + k) \div B
      OBVIOUS
    <3>3. nd.idx[d + 1] = b /\ (offset + k) % B = p /\ d + 1 \in 1 .. nd.num
          /\ offset + k = B * d + ((offset + k) % B)
      BY <1>5, <3>1, <3>2
    <3>4. d + 1 = q + 1
      BY <1>1, <2>3, <2>4, <3>3 DEF FullNode
    <3>5. d = q
      <4>1. d \in Int
        BY <1>3, <3>1, <3>2
      <4> QED BY <2>1, <3>4, <4>1
    <3> QED BY <2>2, <3>1, <3>3, <3>5
  <2>9. ASSUME NEW k \in 0 .. len - 1, offset + k = m PROVE k \in H
    <3>1. Place(offset, k)[1] = q /\ Place(offset, k)[2] = p
      BY <1>5, <2>1, <2>2, <2>9
    <3> QED BY <2>4, <2>6, <3>1 DEF Hits
  <2>10. CASE m < offset
    <3>1. H = {}
      <4>1. \A k \in 0 .. len - 1 : offset + k # m
        BY <2>10
      <4> QED BY <2>8, <4>1
    <3> QED BY <2>5, <2>7, <2>10, <3>1
  <2>11. CASE ~(m < offset)
    <3>1. PICK k : k = m - offset /\ k \in 0 .. len - 1 /\ offset + k = m
      BY <1>1, <1>2, <2>11
    <3>2. k \in H
      BY <2>9, <3>1
    <3>3. H \subseteq 0 .. len - 1
      BY <2>8
    <3>4. Max(H) \in H
      BY <1>2, <3>2, <3>3, MaxExists
    <3>5. Max(H) = k
      <4>1. Max(H) \in 0 .. len - 1 /\ offset + Max(H) = m
        BY <2>8, <3>4
      <4>2. PICK x : x = Max(H) /\ x \in Nat
        BY <4>1
      <4> QED BY <1>2, <3>1, <4>1, <4>2
    <3> QED BY <2>5, <2>7, <2>11, <3>1, <3>2, <3>5
  <2> QED BY <2>10, <2>11
<1> QED BY <1>2, <1>4, <1>6, <1>7 DEF Changed
-----------------------------------------------------------------------------
\* An entry of the directory that is in use
EntryType == [name : Name \ LongName, node : Inode]

\* The directory and the two counters agree with the nodes in use.
DirInv ==
    /\ dir = [e \in Entry |-> dir[e]]
    /\ \A e \in Entry : dir[e] = Null \/ dir[e] \in EntryType
    /\ \A e, f \in Entry : dir[e] # Null /\ dir[f] # Null /\ e # f =>
          dir[e].name # dir[f].name /\ dir[e].node # dir[f].node
    /\ \A i \in Inode : vol.node[i] # Null <=> \E e \in Entry : dir[e] # Null /\ dir[e].node = i
    /\ numFiles = Cardinality({e \in Entry : dir[e] # Null})
    /\ freeNodes = Cardinality(FreeNodes)

\* The tables in memory are sound until a change of size has failed half way.
\* From then on they are what is left of sound tables, and the count of free
\* blocks still leaves one for every index until a cut has failed.
VolInv ==
    /\ Enough(vol)
    /\ status = "running" /\ NoneHalfDone => Sound(vol)
    /\ status = "running" /\ "shrink" \notin faults => Counted(vol)

\* The program is only lost after a fault.
FaultInv ==
    /\ faults \subseteq Refusals \cup {"large", "across", "cut"} /\ status \in {"running", "lost"}
    /\ status = "lost" => faults \ {"data", "cut"} # {}

\* The inductive invariant of the file system
FSInv == DirInv /\ VolInv /\ FaultInv /\ DiskIsCurrent

\* An entry in use is not a free one.
LEMMA EntryIsNotNull == \A d \in EntryType : d # Null /\ d.name \in Name \ LongName /\ d.node \in Inode
<1> SUFFICES ASSUME NEW d \in EntryType
             PROVE  d # Null /\ d.name \in Name \ LongName /\ d.node \in Inode
  BY Zenon
<1>1. d.name \in Name \ LongName /\ d.node \in Inode /\ d = [name |-> d.name, node |-> d.node]
  BY DEF EntryType
<1>2. d \in [name : Name, node : Nat]
  BY <1>1 DEF Inode
<1>3. Null \notin [name : Name, node : Nat]
  BY NothingAssumption, Zenon
<1> QED BY <1>1, <1>2, <1>3, Zenon

\* An empty file needs no block.
LEMMA NoBlocks == NumBlocksOf(0) = 0
<1>1. PICK n : n = NumBlocksOf(0) /\ n \in Nat
  BY Division
<1>2. PICK B : B = BlockSize /\ B \in Nat \ {0}
  BY MiFSAssumption
<1>3. B * n < B * 1
  BY <1>1, <1>2, Division
<1>4. n < 1
  BY <1>1, <1>2, <1>3, LessTimes
<1> QED BY <1>1, <1>4

\* The tables of an empty disk are sound.
LEMMA EmptyFree ==
  ASSUME NEW v, VolType(v), v.used = 0 .. Reserved - 1, v.free = Quota(v.used),
         \A i \in Inode : v.node[i] = Null
  PROVE  Sound(v)
<1>1. \A i \in Inode : Of(v, i) = {}
  BY DEF Of
<1>2. \A b \in Block : b \in v.used <=> b < Reserved
  BY MiFSAssumption DEF Block
<1>3. v.used \subseteq 0 .. NumBlocks - 1
  BY MiFSAssumption
<1> QED BY <1>1, <1>2, <1>3 DEF Sound

\* On an empty disk all blocks are free but the reserved ones.
LEMMA EmptyQuota == Quota(0 .. Reserved - 1) = NumBlocks - Reserved
<1> DEFINE D == 0 .. NumBlocks - 1
           R == 0 .. Reserved - 1
<1>1. IsFiniteSet(D) /\ Cardinality(D) = NumBlocks /\ IsFiniteSet(R) /\ Cardinality(R) = Reserved
  <2>1. \A n \in Nat : IsFiniteSet(0 .. n - 1) /\ Cardinality(0 .. n - 1) = n
    <3> TAKE n \in Nat
    <3>1. PICK z \in Int : z = n - 1
      OBVIOUS
    <3>2. IsFiniteSet(0 .. z) /\ Cardinality(0 .. z) = IF 0 > z THEN 0 ELSE z - 0 + 1
      BY FS_Interval
    <3> QED BY <3>1, <3>2
  <2> QED BY <2>1, MiFSAssumption
<1>2. D \cap R = R
  BY MiFSAssumption
<1>3. Cardinality(D \ R) = Cardinality(D) - Cardinality(D \cap R)
  BY <1>1, FS_Difference
<1> QED BY <1>1, <1>2, <1>3 DEF Quota

\* myMkfs makes a file system for which the invariant holds.
LEMMA InitHolds == Init => FSInv
<1> SUFFICES ASSUME Init PROVE FSInv
  OBVIOUS
<1>1. dir = [e \in Entry |-> Null] /\ \A e \in Entry : dir[e] = Null
  BY DEF Init
<1>2. {e \in Entry : dir[e] # Null} = {}
  BY <1>1
<1>3. vol = [node |-> [i \in Inode |-> Null], used |-> 0 .. Reserved - 1,
             free |-> Quota(0 .. Reserved - 1),
             data |-> [b \in Block |-> [p \in 0 .. BlockSize - 1 |-> Junk]]]
  BY DEF Init
<1>4. /\ vol.node = [i \in Inode |-> Null] /\ vol.used = 0 .. Reserved - 1
      /\ vol.free = Quota(0 .. Reserved - 1)
      /\ vol.data = [b \in Block |-> [p \in 0 .. BlockSize - 1 |-> Junk]]
      /\ vol = [node |-> vol.node, used |-> vol.used, free |-> vol.free, data |-> vol.data]
  BY <1>3
<1>5. FreeNodes = Inode /\ \A i \in Inode : vol.node[i] = Null
  BY <1>4 DEF FreeNodes
<1>6. Cardinality(Inode) = NumNodes
  <2>1. PICK z : z = NumNodes - 1 /\ z \in Int /\ 0 \in Int
    BY MiFSAssumption
  <2>2. Cardinality(0 .. z) = IF 0 > z THEN 0 ELSE z - 0 + 1
    BY <2>1, FS_Interval, Zenon
  <2> QED BY <2>1, <2>2, MiFSAssumption DEF Inode
<1>7. DirInv
  <2>1. numFiles = Cardinality({e \in Entry : dir[e] # Null})
    BY <1>2, FS_EmptySet DEF Init
  <2>2. freeNodes = Cardinality(FreeNodes)
    BY <1>5, <1>6 DEF Init
  <2>3. dir = [e \in Entry |-> dir[e]]
    BY <1>1
  <2> QED BY <1>1, <1>5, <2>1, <2>2, <2>3 DEF DirInv
<1>8. VolType(vol)
  <2>1. vol.node \in [Inode -> NodeType \cup {Null}]
    BY <1>4
  <2>2. vol.used \subseteq Block
    BY <1>4, MiFSAssumption DEF Block
  <2>3. vol.free \in Nat
    BY <1>4, FreeFinite
  <2>4. vol.data \in [Block -> [0 .. BlockSize - 1 -> Byte]]
    BY <1>4 DEF Byte
  <2> QED BY <1>4, <2>1, <2>2, <2>3, <2>4 DEF VolType
<1>9. Sound(vol)
  BY <1>4, <1>5, <1>8, EmptyFree
<1>10. VolInv
  <2>1. Enough(vol)
    BY <1>5, <1>8 DEF Enough
  <2>2. Slots(vol) = {}
    BY <1>5 DEF Slots
  <2>3. Quota(0 .. Reserved - 1) = NumBlocks - Reserved
    BY EmptyQuota
  <2>4. vol.free + Cardinality(Slots(vol)) = NumBlocks - Reserved
    BY <1>4, <2>2, <2>3, FS_EmptySet, MiFSAssumption
  <2>5. \A b \in vol.used : b < Reserved
    BY <1>4, MiFSAssumption
  <2>6. Counted(vol)
    BY <2>4, <2>5 DEF Counted
  <2> QED BY <1>9, <2>1, <2>6 DEF VolInv
<1>11. FaultInv
  BY DEF Init, FaultInv
<1>12. DiskIsCurrent
  BY DEF Init, DiskIsCurrent
<1> QED BY <1>7, <1>10, <1>11, <1>12 DEF FSInv
-----------------------------------------------------------------------------
\* What a call on the node i leaves of sound tables, whether it is saved, and
\* what it adds to the faults
CallEnd(v, i, o, save, also) ==
    \/ /\ o.res \in {"ok", "same", "full", "data"} /\ Sound(o.vol)
       /\ \A x \in Inode \ {i} : o.vol.node[x] = v.node[x]
       /\ o.vol.node[i] # Null
       /\ save \/ (o.vol.node = v.node /\ o.vol.used = v.used /\ o.vol.free = v.free)
    \/ o.res \in {"large", "grow", "shrink"}
    \/ o.res = "lost" /\ "across" \in also

\* The end of a call, where the node and the map are saved or not, keeps the
\* invariant.
LEMMA FinishKeeps ==
  ASSUME FSInv, status = "running", NEW i \in Inode, vol.node[i] # Null,
         NEW o, NEW save \in BOOLEAN, NEW also, also \subseteq {"across", "cut"},
         LooseEnd(vol, o), NoneHalfDone => CallEnd(vol, i, o, save, also),
         Finish(i, o, save, also)
  PROVE  FSInv'
<1>1. /\ vol' = o.vol /\ disk' = IF save THEN Saved(disk, i) ELSE disk
      /\ faults' = faults \cup also \cup ({o.res} \cap (Refusals \cup {"large"}))
      /\ status' = IF o.res \in {"lost", "large"} THEN "lost" ELSE status
      /\ dir' = dir /\ numFiles' = numFiles /\ freeNodes' = freeNodes
  BY DEF Finish
<1>2. VolType(o.vol) /\ SameNodes(vol, o.vol) /\ Enough(o.vol)
  BY DEF LooseEnd, Enough
<1>3. faults \subseteq Refusals \cup {"large", "across", "cut"}
  BY DEF FSInv, FaultInv
<1>4. DirInv'
  <2>1. \A x \in Inode : vol'.node[x] = Null <=> vol.node[x] = Null
    BY <1>1, <1>2 DEF SameNodes
  <2>2. FreeNodes' = FreeNodes
    BY <2>1 DEF FreeNodes
  <2>3. /\ dir' = [e \in Entry |-> dir'[e]]
        /\ \A e \in Entry : dir'[e] = Null \/ dir'[e] \in EntryType
        /\ \A e, f \in Entry : dir'[e] # Null /\ dir'[f] # Null /\ e # f =>
             dir'[e].name # dir'[f].name /\ dir'[e].node # dir'[f].node
        /\ numFiles' = Cardinality({e \in Entry : dir'[e] # Null})
    BY <1>1 DEF FSInv, DirInv
  <2>4. \A x \in Inode : vol'.node[x] # Null <=> \E e \in Entry : dir'[e] # Null /\ dir'[e].node = x
    <3> TAKE x \in Inode
    <3>1. vol.node[x] # Null <=> \E e \in Entry : dir[e] # Null /\ dir[e].node = x
      BY DEF FSInv, DirInv
    <3> QED BY <1>1, <2>1, <3>1
  <2>5. freeNodes' = Cardinality(FreeNodes')
    BY <1>1, <2>2 DEF FSInv, DirInv
  <2> QED BY <2>3, <2>4, <2>5 DEF DirInv
<1>5. ASSUME status' = "running", NoneHalfDone'
      PROVE  /\ NoneHalfDone /\ Sound(o.vol)
             /\ \A x \in Inode \ {i} : o.vol.node[x] = vol.node[x]
             /\ save \/ (o.vol.node = vol.node /\ o.vol.used = vol.used /\ o.vol.free = vol.free)
  <2>1. NoneHalfDone /\ o.res \notin {"grow", "shrink"}
    BY <1>1, <1>5 DEF NoneHalfDone, Refusals
  <2>2. o.res \notin {"lost", "large"}
    BY <1>1, <1>5
  <2> QED BY <2>1, <2>2 DEF CallEnd
<1>6. VolInv'
  <2>1. ASSUME status' = "running", "shrink" \notin faults' PROVE Counted(o.vol)
    <3>1. Counted(vol)
      BY <1>1, <2>1 DEF FSInv, VolInv
    <3>2. o.res # "shrink"
      BY <1>1, <2>1 DEF Refusals
    <3> QED BY <3>1, <3>2 DEF LooseEnd, Loosely
  <2> QED BY <1>1, <1>2, <1>5, <2>1 DEF VolInv
<1>7. FaultInv'
  <2>1. faults' \subseteq Refusals \cup {"large", "across", "cut"}
    BY <1>1, <1>3
  <2>2. status' \in {"running", "lost"}
    BY <1>1
  <2>3. ASSUME status' = "lost" PROVE faults' \ {"data", "cut"} # {}
    <3>1. CASE o.res = "large"
      BY <1>1, <3>1
    <3>2. CASE o.res = "lost" /\ ~NoneHalfDone
      BY <1>1, <3>2 DEF NoneHalfDone
    <3>3. CASE o.res = "lost" /\ NoneHalfDone
      <4>1. "across" \in also
        BY <3>3 DEF CallEnd
      <4> QED BY <1>1, <4>1
    <3> QED BY <1>1, <2>3, <3>1, <3>2, <3>3
  <2> QED BY <2>1, <2>2, <2>3 DEF FaultInv
<1>8. DiskIsCurrent'
  <2> SUFFICES ASSUME status' = "running", NoneHalfDone'
               PROVE  disk' = [dir |-> dir', numFiles |-> numFiles',
                               node |-> vol'.node, used |-> vol'.used, free |-> vol'.free]
    BY DEF DiskIsCurrent
  <2>2. /\ \A x \in Inode \ {i} : o.vol.node[x] = vol.node[x]
        /\ save \/ (o.vol.node = vol.node /\ o.vol.used = vol.used /\ o.vol.free = vol.free)
    BY <1>5
  <2>3. disk = [dir |-> dir, numFiles |-> numFiles,
                node |-> vol.node, used |-> vol.used, free |-> vol.free]
    BY <1>5 DEF FSInv, DiskIsCurrent
  <2>4. CASE save
    <3>1. disk' = [disk EXCEPT !.free = vol'.free, !.used = vol'.used, !.node[i] = vol'.node[i]]
      BY <1>1, <2>4 DEF Saved
    <3>2. disk' = [dir |-> dir, numFiles |-> numFiles, node |-> [vol.node EXCEPT ![i] = vol'.node[i]],
                   used |-> vol'.used, free |-> vol'.free]
      BY <2>3, <3>1
    <3>3. vol.node \in [Inode -> NodeType \cup {Null}] /\ vol'.node \in [Inode -> NodeType \cup {Null}]
      BY <1>1, <1>2 DEF FSInv, VolInv, Enough, VolType
    <3>4. vol.node = [x \in Inode |-> vol.node[x]] /\ vol'.node = [x \in Inode |-> vol'.node[x]]
      BY <3>3
    <3>5. [vol.node EXCEPT ![i] = vol'.node[i]] = vol'.node
      BY <1>1, <2>2, <3>4
    <3> QED BY <1>1, <3>2, <3>5 DEF DiskIsCurrent
  <2>5. CASE ~save
    BY <1>1, <2>2, <2>3, <2>5 DEF DiskIsCurrent
  <2> QED BY <2>4, <2>5
<1> QED BY <1>4, <1>6, <1>7, <1>8 DEF FSInv
-----------------------------------------------------------------------------
\* The node of a file is there.
LEMMA NodeOfName ==
  ASSUME DirInv, NEW n, Listed(n)
  PROVE  /\ Pos(n) \in Entry /\ dir[Pos(n)] # Null /\ dir[Pos(n)].name = n
         /\ dir[Pos(n)].node \in Inode /\ vol.node[dir[Pos(n)].node] # Null
<1> DEFINE S == {e \in Entry : dir[e] # Null /\ dir[e].name = n}
<1>1. S \subseteq Nat /\ S # {}
  BY DEF Listed, Entry
<1>2. Pos(n) \in S
  BY <1>1, MinExists DEF Pos
<1>3. PICK e : e = Pos(n) /\ e \in Entry /\ dir[e] # Null /\ dir[e].name = n
  BY <1>2
<1>4. dir[e] \in EntryType
  BY <1>3 DEF DirInv
<1>5. dir[e].node \in Inode
  BY <1>4, EntryIsNotNull
<1>6. vol.node[dir[e].node] # Null
  BY <1>3, <1>5 DEF DirInv
<1> QED BY <1>3, <1>5, <1>6

\* my_truncate keeps the invariant.
LEMMA TruncateKeeps ==
  ASSUME FSInv, NEW n \in Name, NEW size \in Offset, Truncate(n, size)
  PROVE  FSInv'
<1>1. status = "running" /\ Listed(n) /\ size \in Nat
  BY MiFSAssumption DEF Truncate
<1>2. PICK i : i = dir[Pos(n)].node /\ i \in Inode /\ vol.node[i] # Null
  BY <1>1, NodeOfName DEF FSInv
<1>3. PICK o \in Resize(vol, i, size) : Finish(i, o, o.res = "ok", {})
  BY <1>2 DEF Truncate
<1>4. LooseEnd(vol, o)
  BY <1>1, <1>2, <1>3, ResizeLoosely DEF FSInv, VolInv
<1>5. PICK save : save = (o.res = "ok") /\ save \in BOOLEAN
  OBVIOUS
<1>6. ASSUME NoneHalfDone PROVE CallEnd(vol, i, o, save, {})
  <2>1. Sound(vol)
    BY <1>1, <1>6 DEF FSInv, VolInv
  <2>2. ResizeEnd(vol, i, size, o)
    BY <1>1, <1>2, <1>3, <2>1, ResizeEnds
  <2> QED BY <1>2, <1>5, <2>1, <2>2 DEF ResizeEnd, Resized, Others, CallEnd
<1>7. Finish(i, o, save, {}) /\ {} \subseteq {"across", "cut"}
  BY <1>3, <1>5
<1> QED BY <1>1, <1>2, <1>4, <1>5, <1>6, <1>7, FinishKeeps

\* my_write keeps the invariant.
LEMMA WriteKeeps ==
  ASSUME FSInv, NEW n \in Name, NEW offset \in Offset, NEW bytes \in Bytes,
         Write(n, offset, bytes)
  PROVE  FSInv'
<1>1. status = "running" /\ Listed(n) /\ offset \in Nat /\ bytes \in Seq(Nat)
  BY MiFSAssumption DEF Write
<1>2. PICK i : i = dir[Pos(n)].node /\ i \in Inode /\ vol.node[i] # Null
  BY <1>1, NodeOfName DEF FSInv
<1>3. PICK size : size = offset + Len(bytes) /\ size \in Nat
  BY <1>1
<1> PICK also : also = (IF Across(offset, bytes) THEN {"across"} ELSE {}) \cup
                       (IF CutsOff(i, offset, bytes) THEN {"cut"} ELSE {})
  OBVIOUS
<1>4. PICK o \in Resize(vol, i, size) :
         IF o.res \notin {"ok", "same"} THEN Finish(i, o, FALSE, {})
         ELSE \E p \in PutAll(o.vol, i, offset, bytes) :
                 Finish(i, p, o.res = "ok" \/ p.res = "ok", also)
  BY <1>2, <1>3 DEF Write
<1>5. ASSUME NoneHalfDone PROVE Sound(vol) /\ ResizeEnd(vol, i, size, o)
  <2>1. Sound(vol)
    BY <1>1, <1>5 DEF FSInv, VolInv
  <2> QED BY <1>2, <1>3, <1>4, <2>1, ResizeEnds
<1>6. LooseEnd(vol, o)
  BY <1>2, <1>3, <1>4, ResizeLoosely DEF FSInv, VolInv
<1>7. CASE o.res \notin {"ok", "same"}
  <2>1. Finish(i, o, FALSE, {}) /\ {} \subseteq {"across", "cut"} /\ FALSE \in BOOLEAN
    BY <1>4, <1>7
  <2>2. NoneHalfDone => CallEnd(vol, i, o, FALSE, {})
    BY <1>2, <1>5, <1>7 DEF ResizeEnd, Resized, Others, CallEnd
  <2> QED BY <1>1, <1>2, <1>6, <2>1, <2>2, FinishKeeps
<1>8. CASE o.res \in {"ok", "same"}
  <2>1. PICK p \in PutAll(o.vol, i, offset, bytes) :
            Finish(i, p, o.res = "ok" \/ p.res = "ok", also)
    BY <1>4, <1>8
  <2>2. PICK v : v = o.vol
    OBVIOUS
  <2>3. Loosely(vol, v) /\ Enough(v)
    BY <1>6, <1>8, <2>2 DEF LooseEnd
  <2>4. LooseEnd(vol, p)
    <3>1. LooseEnd(v, p) /\ p.res # "shrink"
      BY <1>1, <1>2, <2>1, <2>2, <2>3, PutLoosely
    <3> QED BY <2>3, <3>1, LooselyTwice DEF LooseEnd, Loosely
  <2>5. PICK save : save = (o.res = "ok" \/ p.res = "ok") /\ save \in BOOLEAN
    OBVIOUS
  <2>6. ASSUME NoneHalfDone PROVE CallEnd(vol, i, p, save, also)
    <3>1. /\ Sound(v) /\ v.node[i] # Null /\ v.node[i].size = size
          /\ \A x \in Inode \ {i} : v.node[x] = vol.node[x]
          /\ o.res = "ok" \/ v = vol
      BY <1>2, <1>5, <1>8, <2>2, <2>6 DEF ResizeEnd, Resized, Others
    <3>2. PutEnd(v, i, offset, bytes, p)
      <4>1. PICK nd : nd = v.node[i] /\ nd # Null /\ nd.size = offset + Len(bytes)
        BY <1>3, <3>1
      <4> QED BY <1>1, <1>2, <2>1, <2>2, <3>1, <4>1, PutEnds
    <3>3. CASE p.res = "lost" /\ p.vol = v /\ Across(offset, bytes)
      BY <3>3 DEF CallEnd
    <3>4. CASE /\ p.res \in {"ok", "data"} /\ VolType(p.vol) /\ p.vol.node = v.node
               /\ p.vol.used = v.used /\ p.vol.free = v.free
      <4>1. Sound(p.vol)
        BY <3>1, <3>4, SoundSame
      <4>2. save \/ (p.vol.node = vol.node /\ p.vol.used = vol.used /\ p.vol.free = vol.free)
        BY <2>5, <3>1, <3>4
      <4> QED BY <3>1, <3>4, <4>1, <4>2 DEF CallEnd
    <3> QED BY <3>2, <3>3, <3>4 DEF PutEnd
  <2>7. Finish(i, p, save, also) /\ also \subseteq {"across", "cut"}
    BY <2>1, <2>5
  <2> QED BY <1>1, <1>2, <2>4, <2>5, <2>6, <2>7, FinishKeeps
<1> QED BY <1>7, <1>8

\* The new file has no block.
NewNode == [size |-> 0, num |-> 0, idx |-> [j \in 1 .. MaxFileBlocks |-> Null]]

\* The tables with a new node
WithNew(v, i) == [v EXCEPT !.node[i] = NewNode]

\* What is promised of the tables stays so, and the node i is new.
Made(v, i, w) ==
    /\ Enough(w) /\ (Counted(v) => Counted(w)) /\ (Sound(v) => Sound(w))
    /\ w.used = v.used /\ w.free = v.free /\ w.data = v.data
    /\ w.node[i] = NewNode /\ NewNode # Null
    /\ \A x \in Inode \ {i} : w.node[x] = v.node[x]

\* A new node has no index of its own.
LEMMA NewIsMade ==
  ASSUME NEW v, Enough(v), NEW i \in Inode, v.node[i] = Null
  PROVE  Made(v, i, WithNew(v, i))
<1> PICK nd : nd = NewNode
  OBVIOUS
<1> PICK w : w = WithNew(v, i)
  OBVIOUS
<1>1. /\ v = [node |-> v.node, used |-> v.used, free |-> v.free, data |-> v.data]
      /\ v.node \in [Inode -> NodeType \cup {Null}] /\ v.used \subseteq Block /\ v.free \in Nat
      /\ v.data \in [Block -> [0 .. BlockSize - 1 -> Byte]]
  BY DEF Enough, VolType
<1>2. nd \in NodeType
  BY MiFSAssumption DEF NodeType, NewNode
<1>3. nd # Null
  BY <1>2, NodeIsNotNull
<1>4. /\ w = [node |-> w.node, used |-> v.used, free |-> v.free, data |-> v.data]
      /\ w.node = [v.node EXCEPT ![i] = nd]
  BY <1>1 DEF WithNew
<1>5. /\ w.used = v.used /\ w.free = v.free /\ w.data = v.data
      /\ w.node \in [Inode -> NodeType \cup {Null}] /\ w.node[i] = nd
      /\ \A x \in Inode \ {i} : w.node[x] = v.node[x]
  BY <1>1, <1>2, <1>4
<1>6. VolType(w)
  BY <1>1, <1>4, <1>5 DEF VolType
<1>7. nd.num = 0 /\ nd.size = 0
  BY DEF NewNode
<1>8. 1 .. nd.num = {}
  BY <1>7
<1>9. Enough(w)
  <2>1. NumBlocksOf(nd.size) <= nd.num
    BY <1>7, NoBlocks
  <2> QED BY <1>5, <1>6, <2>1 DEF Enough
<1>10. Counted(v) => Counted(w)
  <2>1. \A s \in Inode \X (1 .. MaxFileBlocks) : s[1] = i => s \notin Slots(v) /\ s \notin Slots(w)
    BY <1>5, <1>7 DEF Slots
  <2>2. \A s \in Inode \X (1 .. MaxFileBlocks) : s[1] # i =>
            (s \in Slots(w) <=> s \in Slots(v)) /\ w.node[s[1]] = v.node[s[1]]
    BY <1>5, SlotsBut
  <2>3. Slots(v) \subseteq Inode \X (1 .. MaxFileBlocks) /\ Slots(w) \subseteq Inode \X (1 .. MaxFileBlocks)
    BY DEF Slots
  <2>4. Slots(w) = Slots(v)
    BY <2>1, <2>2, <2>3
  <2>5. \A s \in Slots(v) : w.node[s[1]] = v.node[s[1]]
    BY <2>1, <2>2, <2>3
  <2> QED BY <1>5, <2>4, <2>5 DEF Counted
<1>11. ASSUME Sound(v) PROVE Sound(w)
  <2>1. FullNode(nd)
    <3>1. nd.num = NumBlocksOf(nd.size)
      BY <1>7, NoBlocks
    <3> QED BY <1>2, <1>8, <3>1 DEF FullNode
  <2>2. Of(v, i) = {} /\ Of(w, i) = {}
    BY <1>3, <1>5, <1>8 DEF Of, Blocks
  <2>3. IsFiniteSet({}) /\ Cardinality({}) = 0 /\ {} \subseteq Free(v.used)
    BY FS_EmptySet
  <2>4. w.used = v.used \cup {} /\ w.free = v.free - Cardinality({}) /\ Of(w, i) = Of(v, i) \cup {}
    <3>1. v.free - 0 = v.free
      BY <1>1
    <3>2. w.free = v.free - Cardinality({})
      BY <1>5, <2>3, <3>1, Zenon
    <3> QED BY <1>5, <2>2, <3>2
  <2>5. FullNode(w.node[i])
    BY <1>5, <2>1
  <2>6. \A x \in Inode \ {i} : w.node[x] = v.node[x]
    BY <1>5
  <2> QED BY <1>6, <1>11, <2>3, <2>4, <2>5, <2>6, SoundMore
<1> QED BY <1>3, <1>5, <1>9, <1>10, <1>11 DEF Made

\* The directory and the node table are finite.
LEMMA EntryFinite == IsFiniteSet(Entry) /\ IsFiniteSet(Inode)
  BY MiFSAssumption, FS_Interval DEF Entry, Inode

\* my_mknod keeps the invariant.
LEMMA MknodKeeps ==
  ASSUME FSInv, NEW n \in Name, Mknod(n)
  PROVE  FSInv'
<1>1. /\ status = "running" /\ n \notin LongName /\ ~Listed(n)
      /\ FreeNodes # {} /\ FreeEntries # {}
      /\ faults' = faults /\ status' = status
      /\ numFiles' = numFiles + 1 /\ freeNodes' = freeNodes - 1
  BY DEF Mknod, MayCreate
<1>2. PICK k : k = Min(FreeEntries) /\ k \in Entry /\ dir[k] = Null
  <2>1. FreeEntries \subseteq Nat
    BY DEF FreeEntries, Entry
  <2>2. Min(FreeEntries) \in FreeEntries
    BY <1>1, <2>1, MinExists
  <2> QED BY <2>2 DEF FreeEntries
<1>3. PICK i : i = Min(FreeNodes) /\ i \in Inode /\ vol.node[i] = Null
  <2>1. FreeNodes \subseteq Nat
    BY DEF FreeNodes, Inode
  <2>2. Min(FreeNodes) \in FreeNodes
    BY <1>1, <2>1, MinExists
  <2> QED BY <2>2 DEF FreeNodes
<1>4. PICK d : d = [name |-> n, node |-> i] /\ d \in EntryType /\ d # Null /\ d.name = n /\ d.node = i
  <2>1. [name |-> n, node |-> i] \in EntryType
    BY <1>1, <1>3 DEF EntryType
  <2>2. [name |-> n, node |-> i] # Null
    BY <2>1, EntryIsNotNull
  <2> QED BY <2>1, <2>2
<1>5. PICK nd : nd = NewNode
  OBVIOUS
<1>6. dir' = [dir EXCEPT ![k] = d] /\ vol' = WithNew(vol, i)
  BY <1>2, <1>3, <1>4, <1>5 DEF Mknod, WithNew, NewNode
<1>7. Enough(vol)
  BY DEF FSInv, VolInv
<1>8. /\ Enough(vol') /\ (Counted(vol) => Counted(vol')) /\ (Sound(vol) => Sound(vol'))
      /\ vol'.used = vol.used /\ vol'.free = vol.free
      /\ vol'.node[i] = nd /\ nd # Null
      /\ \A x \in Inode \ {i} : vol'.node[x] = vol.node[x]
  <2>1. Made(vol, i, vol')
    BY <1>3, <1>6, <1>7, NewIsMade
  <2> QED BY <1>5, <2>1 DEF Made
<1>9. /\ dir = [e \in Entry |-> dir[e]]
      /\ \A e \in Entry : dir[e] = Null \/ dir[e] \in EntryType
      /\ \A e, f \in Entry : dir[e] # Null /\ dir[f] # Null /\ e # f =>
            dir[e].name # dir[f].name /\ dir[e].node # dir[f].node
      /\ \A x \in Inode : vol.node[x] # Null <=> \E e \in Entry : dir[e] # Null /\ dir[e].node = x
      /\ numFiles = Cardinality({e \in Entry : dir[e] # Null})
      /\ freeNodes = Cardinality(FreeNodes)
  BY DEF FSInv, DirInv
<1>10. /\ dir' = [e \in Entry |-> dir'[e]] /\ dir'[k] = d
       /\ \A e \in Entry \ {k} : dir'[e] = dir[e]
  BY <1>2, <1>6, <1>9
<1>11. \A e \in Entry : dir[e] # Null => dir[e].name # n /\ dir[e].node # i
  <2>1. \A e \in Entry : dir[e] # Null => dir[e].name # n
    BY <1>1 DEF Listed
  <2>2. \A e \in Entry : dir[e] # Null => dir[e].node # i
    BY <1>3, <1>9
  <2> QED BY <2>1, <2>2
<1>12. DirInv'
  <2>1. \A e \in Entry : dir'[e] = Null \/ dir'[e] \in EntryType
    BY <1>4, <1>9, <1>10
  <2>2. \A e, f \in Entry : dir'[e] # Null /\ dir'[f] # Null /\ e # f =>
            dir'[e].name # dir'[f].name /\ dir'[e].node # dir'[f].node
    BY <1>4, <1>9, <1>10, <1>11
  <2>3. \A x \in Inode : vol'.node[x] # Null <=> \E e \in Entry : dir'[e] # Null /\ dir'[e].node = x
    <3> TAKE x \in Inode
    <3>1. CASE x = i
      BY <1>2, <1>4, <1>8, <1>10, <3>1
    <3>2. CASE x # i
      <4>1. vol'.node[x] = vol.node[x]
        BY <1>8, <3>2
      <4>2. (\E e \in Entry : dir'[e] # Null /\ dir'[e].node = x)
               <=> (\E e \in Entry : dir[e] # Null /\ dir[e].node = x)
        BY <1>2, <1>4, <1>10, <3>2
      <4> QED BY <1>9, <4>1, <4>2
    <3> QED BY <3>1, <3>2
  <2>4. numFiles' = Cardinality({e \in Entry : dir'[e] # Null})
    <3>1. PICK S : S = {e \in Entry : dir[e] # Null}
      OBVIOUS
    <3>2. {e \in Entry : dir'[e] # Null} = S \cup {k} /\ k \notin S
      BY <1>2, <1>4, <1>10, <3>1
    <3>3. IsFiniteSet(S)
      BY <3>1, EntryFinite, FS_Subset
    <3>4. Cardinality(S \cup {k}) = Cardinality(S) + 1
      BY <3>2, <3>3, FS_AddElement
    <3> QED BY <1>1, <1>9, <3>1, <3>2, <3>4
  <2>5. freeNodes' = Cardinality(FreeNodes')
    <3>1. FreeNodes' = FreeNodes \ {i} /\ i \in FreeNodes
      BY <1>3, <1>8 DEF FreeNodes
    <3>2. IsFiniteSet(FreeNodes)
      BY EntryFinite, FS_Subset DEF FreeNodes
    <3>3. Cardinality(FreeNodes \ {i}) = Cardinality(FreeNodes) - 1
      BY <3>1, <3>2, FS_RemoveElement
    <3> QED BY <1>1, <1>9, <3>1, <3>3
  <2> QED BY <1>10, <2>1, <2>2, <2>3, <2>4, <2>5 DEF DirInv
<1>13. VolInv'
  <2>1. NoneHalfDone' = NoneHalfDone
    BY <1>1 DEF NoneHalfDone
  <2> QED BY <1>1, <1>8, <2>1 DEF FSInv, VolInv
<1>14. FaultInv'
  BY <1>1 DEF FSInv, FaultInv
<1>15. DiskIsCurrent'
  <2> SUFFICES ASSUME NoneHalfDone'
               PROVE  disk' = [dir |-> dir', numFiles |-> numFiles',
                               node |-> vol'.node, used |-> vol'.used, free |-> vol'.free]
    BY DEF DiskIsCurrent
  <2>1. disk = [dir |-> dir, numFiles |-> numFiles,
                node |-> vol.node, used |-> vol.used, free |-> vol.free]
    BY <1>1 DEF FSInv, DiskIsCurrent, NoneHalfDone
  <2>2. disk' = [disk EXCEPT !.dir = dir', !.numFiles = numFiles', !.node = vol'.node]
    BY DEF Mknod
  <2> QED BY <1>8, <2>1, <2>2
<1> QED BY <1>12, <1>13, <1>14, <1>15 DEF FSInv
-----------------------------------------------------------------------------
\* A step that changes nothing keeps the invariant.
LEMMA StutterKeeps ==
  ASSUME FSInv, UNCHANGED vars
  PROVE  FSInv'
<1>1. /\ dir' = dir /\ numFiles' = numFiles /\ freeNodes' = freeNodes /\ vol' = vol
      /\ disk' = disk /\ faults' = faults /\ status' = status
  BY DEF vars
<1>2. FreeNodes' = FreeNodes
  BY <1>1 DEF FreeNodes
<1>3. DirInv'
  BY <1>1, <1>2 DEF FSInv, DirInv
<1>4. VolInv'
  BY <1>1 DEF FSInv, VolInv, NoneHalfDone
<1>5. FaultInv'
  BY <1>1 DEF FSInv, FaultInv
<1>6. DiskIsCurrent'
  BY <1>1 DEF FSInv, DiskIsCurrent, NoneHalfDone
<1> QED BY <1>3, <1>4, <1>5, <1>6 DEF FSInv

\* Every step keeps the invariant.
LEMMA NextKeeps ==
  ASSUME FSInv, [Next]_vars
  PROVE  FSInv'
<1>1. CASE UNCHANGED vars
  BY <1>1, StutterKeeps
<1>2. CASE Next
  <2>1. PICK n \in Name :
          \/ Mknod(n)
          \/ \E s \in Offset : Truncate(n, s) \/ \E bytes \in Bytes : Write(n, s, bytes)
    BY <1>2 DEF Next
  <2>2. CASE Mknod(n)
    BY <2>2, MknodKeeps
  <2>3. ASSUME NEW s \in Offset, Truncate(n, s) PROVE FSInv'
    BY <2>3, TruncateKeeps
  <2>4. ASSUME NEW s \in Offset, NEW bytes \in Bytes, Write(n, s, bytes) PROVE FSInv'
    BY <2>4, WriteKeeps
  <2> QED BY <2>1, <2>2, <2>3, <2>4
<1> QED BY <1>1, <1>2

\* The inductive invariant holds after every sequence of calls.
THEOREM FSInvariant == Spec => []FSInv
<1>1. FSInv /\ [Next]_vars => FSInv'
  BY NextKeeps
<1> QED BY InitHolds, <1>1, PTL DEF Spec

\* The blocks that the property speaks of are those of the invariant.
LEMMA OwnedIsOf ==
  ASSUME Sound(vol), NEW i \in Inode
  PROVE  Owned(i) = Of(vol, i)
<1>1. CASE vol.node[i] = Null
  BY <1>1 DEF Owned, Of
<1>2. CASE vol.node[i] # Null
  <2>1. PICK nd : nd = vol.node[i] /\ FullNode(nd)
    BY <1>2 DEF Sound
  <2>2. \A j \in 1 .. nd.num : nd.idx[j] \in Nat
    BY <2>1, MiFSAssumption DEF FullNode, Block
  <2>3. Null \notin Nat
    BY NothingAssumption
  <2>4. Owned(i) = {nd.idx[j] : j \in 1 .. nd.num} \ {Null}
    BY <1>2, <2>1 DEF Owned
  <2>5. Null \notin {nd.idx[j] : j \in 1 .. nd.num}
    BY <2>2, <2>3
  <2> QED BY <1>2, <2>1, <2>4, <2>5 DEF Of, Blocks
<1> QED BY <1>1, <1>2

\* In sound tables every block has one owner.
LEMMA SoundOwners ==
  ASSUME Sound(vol)
  PROVE  OneOwner
<1>1. \A i \in Inode : Owned(i) = Of(vol, i)
  BY OwnedIsOf
<1>2. \A i, j \in Inode : i # j => Owned(i) \cap Owned(j) = {}
  BY <1>1 DEF Sound
<1>3. \A i \in Inode \ FreeNodes : Cardinality(Owned(i)) = vol.node[i].num
  <2> TAKE i \in Inode \ FreeNodes
  <2>1. PICK nd : nd = vol.node[i] /\ nd # Null
    BY DEF FreeNodes
  <2>2. FullNode(nd) /\ Owned(i) = Blocks(nd)
    BY <1>1, <2>1 DEF Sound, Of
  <2> QED BY <2>1, <2>2, BlocksFinite
<1>4. vol.used = 0 .. Reserved - 1 \cup UNION {Owned(i) : i \in Inode}
  <2>1. ASSUME NEW b PROVE b \in UNION {Owned(i) : i \in Inode} <=> \E i \in Inode : b \in Of(vol, i)
    BY <1>1
  <2>2. \A b \in Block : b \in vol.used <=> b < Reserved \/ \E i \in Inode : b \in Of(vol, i)
    BY DEF Sound
  <2>3. vol.used \subseteq Block /\ \A i \in Inode : Of(vol, i) \subseteq Block
    BY MiFSAssumption DEF Sound, VolType, Block
  <2>4. \A b \in Block : b < Reserved <=> b \in 0 .. Reserved - 1
    BY MiFSAssumption DEF Block
  <2>5. 0 .. Reserved - 1 \subseteq Block
    BY MiFSAssumption DEF Block
  <2>6. ASSUME NEW b \in vol.used PROVE b \in 0 .. Reserved - 1 \/ \E i \in Inode : b \in Of(vol, i)
    BY <2>2, <2>3, <2>4
  <2>7. ASSUME NEW b, b \in 0 .. Reserved - 1 \/ \E i \in Inode : b \in Of(vol, i) PROVE b \in vol.used
    BY <2>2, <2>3, <2>4, <2>5, <2>7
  <2> QED BY <2>1, <2>6, <2>7
<1>5. \A i \in Inode : Owned(i) \cap 0 .. Reserved - 1 = {}
  <2> SUFFICES ASSUME NEW i \in Inode, NEW b \in Owned(i), b \in 0 .. Reserved - 1 PROVE FALSE
    OBVIOUS
  <2>1. b \in Reserved .. NumBits - 1
    BY <1>1 DEF Sound
  <2> QED BY <2>1, MiFSAssumption
<1> QED BY <1>2, <1>3, <1>4, <1>5 DEF OneOwner

\* The invariant gives the types,
LEMMA InvTypes ==
  ASSUME FSInv
  PROVE  TypeOK
<1>1. DirInv /\ VolInv /\ FaultInv
  BY DEF FSInv
<1>2. \A e \in Entry : dir[e] = Null \/ dir[e] \in [name : Name \ LongName, node : Inode]
  BY <1>1 DEF DirInv, EntryType
<1>3. numFiles \in 0 .. NumEntries
  <2>1. PICK S : S = {e \in Entry : dir[e] # Null}
    OBVIOUS
  <2>2. IsFiniteSet(S) /\ Cardinality(S) <= Cardinality(Entry)
    BY <2>1, EntryFinite, FS_Subset
  <2>3. Cardinality(Entry) = NumEntries
    <3>1. PICK z : z = NumEntries - 1 /\ z \in Int /\ 0 \in Int
      BY MiFSAssumption
    <3>2. Cardinality(0 .. z) = IF 0 > z THEN 0 ELSE z - 0 + 1
      BY <3>1, FS_Interval, Zenon
    <3> QED BY <3>1, <3>2, MiFSAssumption DEF Entry
  <2>4. Cardinality(S) \in Nat
    BY <2>2, FS_CardinalityType
  <2> QED BY <1>1, <2>1, <2>2, <2>3, <2>4, MiFSAssumption DEF DirInv
<1>4. freeNodes \in 0 .. NumNodes
  <2>1. IsFiniteSet(FreeNodes) /\ Cardinality(FreeNodes) <= Cardinality(Inode)
    BY EntryFinite, FS_Subset DEF FreeNodes
  <2>2. Cardinality(Inode) = NumNodes
    <3>1. PICK z : z = NumNodes - 1 /\ z \in Int /\ 0 \in Int
      BY MiFSAssumption
    <3>2. Cardinality(0 .. z) = IF 0 > z THEN 0 ELSE z - 0 + 1
      BY <3>1, FS_Interval, Zenon
    <3> QED BY <3>1, <3>2, MiFSAssumption DEF Inode
  <2>3. Cardinality(FreeNodes) \in Nat
    BY <2>1, FS_CardinalityType
  <2> QED BY <1>1, <2>1, <2>2, <2>3, MiFSAssumption DEF DirInv
<1>5. \A i \in Inode : vol.node[i] # Null => vol.node[i] \in
           [size : Nat, num : 0 .. MaxFileBlocks, idx : [1 .. MaxFileBlocks -> Block \cup {Null}]]
  <2>1. \A i \in Inode : vol.node[i] # Null => vol.node[i] \in NodeType
    BY <1>1 DEF VolInv, Enough, VolType
  <2> QED BY <2>1 DEF NodeType
<1>6. vol.used \subseteq Block /\ vol.free \in Nat
  BY <1>1 DEF VolInv, Enough, VolType
<1>7. faults \subseteq Refusals \cup {"large", "across", "cut"} /\ status \in {"running", "lost"}
  BY <1>1 DEF FaultInv
<1> QED BY <1>2, <1>3, <1>4, <1>5, <1>6, <1>7 DEF TypeOK

\* the counters of the directory,
LEMMA InvExact ==
  ASSUME FSInv
  PROVE  DirectoryIsExact
<1> PICK In : In = {e \in Entry : dir[e] # Null}
  OBVIOUS
<1>1. DirInv
  BY DEF FSInv
<1>2. \A e, f \in In : e # f => dir[e].name # dir[f].name /\ dir[e].node # dir[f].node
  BY <1>1 DEF DirInv
<1>3. {dir[e].node : e \in In} = Inode \ FreeNodes
  <2>1. ASSUME NEW e \in In PROVE dir[e].node \in Inode \ FreeNodes
    <3>1. e \in Entry /\ dir[e] # Null /\ dir[e] \in EntryType
      BY <1>1 DEF DirInv
    <3>2. dir[e].node \in Inode
      BY <3>1, EntryIsNotNull
    <3>3. vol.node[dir[e].node] # Null
      BY <1>1, <3>1, <3>2 DEF DirInv
    <3> QED BY <3>2, <3>3 DEF FreeNodes
  <2>2. ASSUME NEW i \in Inode \ FreeNodes PROVE \E e \in In : dir[e].node = i
    <3>1. vol.node[i] # Null
      BY DEF FreeNodes
    <3> QED BY <1>1, <3>1 DEF DirInv
  <2> QED BY <2>1, <2>2
<1>4. numFiles = Cardinality(In) /\ freeNodes = Cardinality(FreeNodes)
  BY <1>1 DEF DirInv
<1> QED BY <1>2, <1>3, <1>4 DEF DirectoryIsExact

\* and all that the run calls the structures.
LEMMA InvStructures ==
  ASSUME FSInv
  PROVE  Structures
<1>1. OneOwner
  <2>1. CASE status = "running" /\ NoneHalfDone
    BY <2>1, SoundOwners DEF FSInv, VolInv
  <2>2. CASE ~(status = "running" /\ NoneHalfDone)
    BY <2>2 DEF OneOwner
  <2> QED BY <2>1, <2>2
<1> QED BY <1>1, InvTypes, InvExact DEF FSInv, Structures

\* After every call the directory, the nodes, the map and their copies on
\* the disk agree: my_mknod, my_write and my_truncate for every size of the
\* tables and every sequence of calls.
THEOREM StructuresHold == Spec => []Structures
<1>1. FSInv => Structures
  BY InvStructures
<1> QED BY <1>1, FSInvariant, PTL

\* The count of free blocks is the one of the map until a change of size has
\* failed, and after a growth that failed it is not larger, whatever the calls
\* that follow do: the scan finds the blocks that the count allows.
THEOREM CountIsSafe == Spec => []FreeCountIsSafe
<1>1. FSInv => FreeCountIsSafe
  <2> SUFFICES ASSUME FSInv, status = "running"
               PROVE  /\ NoneHalfDone => vol.free = Quota(vol.used)
                      /\ "shrink" \notin faults => vol.free <= Quota(vol.used)
    BY DEF FreeCountIsSafe
  <2>1. NoneHalfDone => vol.free = Quota(vol.used)
    BY DEF FSInv, VolInv, Sound
  <2>2. "shrink" \notin faults => vol.free <= Quota(vol.used)
    BY CountedIsSafe DEF FSInv, VolInv, Enough
  <2> QED BY <2>1, <2>2
<1> QED BY <1>1, FSInvariant, PTL

\* An index that nobody wrote is only followed after a fault.
THEOREM LostOnlyByFault == Spec => []LostOnlyAfterFault
<1>1. FSInv => LostOnlyAfterFault
  BY DEF FSInv, FaultInv, LostOnlyAfterFault
<1> QED BY <1>1, FSInvariant, PTL
-----------------------------------------------------------------------------
\* The bytes of a file
BytesOf(v, nd) == [k \in 1 .. nd.size |-> ByteAt(v, nd, k - 1)]

\* Another file keeps its bytes.
LEMMA KeptBytes ==
  ASSUME NEW v, Sound(v), NEW i \in Inode, NEW w, Others(v, w, i),
         NEW x \in Inode \ {i}, v.node[x] # Null
  PROVE  BytesOf(w, w.node[x]) = BytesOf(v, v.node[x])
<1>1. PICK nd : nd = v.node[x] /\ nd = w.node[x] /\ FullNode(nd)
  BY DEF Sound, Others
<1>2. nd.size \in Nat /\ nd.num \in Nat /\ nd.num = NumBlocksOf(nd.size) /\ Of(v, x) = Blocks(nd)
  BY <1>1, NodeFields DEF FullNode, Of
<1>3. ASSUME NEW k \in 1 .. nd.size PROVE ByteAt(w, nd, k - 1) = ByteAt(v, nd, k - 1)
  <2>1. PICK m : m = k - 1 /\ m \in 0 .. nd.size - 1
    BY <1>2
  <2>2. PICK q : q = m \div BlockSize /\ q \in 0 .. nd.num - 1
    BY <1>2, <2>1, InBlock
  <2>3. q + 1 \in 1 .. nd.num
    BY <1>2, <2>2
  <2>4. nd.idx[q + 1] \in Of(v, x)
    BY <1>2, <2>3 DEF Blocks
  <2>5. w.data[nd.idx[q + 1]] = v.data[nd.idx[q + 1]]
    BY <2>4 DEF Others
  <2>6. /\ ByteAt(w, nd, m) = w.data[nd.idx[q + 1]][m % BlockSize]
        /\ ByteAt(v, nd, m) = v.data[nd.idx[q + 1]][m % BlockSize]
    BY <2>2 DEF ByteAt
  <2> QED BY <2>1, <2>5, <2>6
<1> QED BY <1>1, <1>3 DEF BytesOf

\* A change of size cuts the bytes off or adds zeros.
LEMMA ResizedBytes ==
  ASSUME NEW v, Sound(v), NEW i \in Inode, v.node[i] # Null, NEW size \in Nat,
         NEW w, Resized(v, i, size, w)
  PROVE  BytesOf(w, w.node[i]) = Store!Sized(BytesOf(v, v.node[i]), size)
<1>1. PICK nd : nd = v.node[i] /\ nd.size \in Nat
  BY NodeFields DEF Sound, FullNode
<1>2. PICK nw : nw = w.node[i] /\ nw.size = size
  BY DEF Resized
<1>3. PICK f : f = BytesOf(v, nd)
  OBVIOUS
<1>4. Len(f) = nd.size /\ \A k \in 1 .. nd.size : f[k] = ByteAt(v, nd, k - 1)
  BY <1>1, <1>3 DEF BytesOf
<1>5. ASSUME NEW k \in 1 .. size
      PROVE  ByteAt(w, nw, k - 1) = IF k <= Len(f) THEN f[k] ELSE 0
  <2>1. PICK m : m = k - 1 /\ m \in 0 .. size - 1
    OBVIOUS
  <2>2. ByteAt(w, nw, m) = IF m < nd.size THEN ByteAt(v, nd, m) ELSE 0
    BY <1>1, <1>2, <2>1 DEF Resized
  <2>3. m < nd.size <=> k <= nd.size
    BY <1>1, <2>1
  <2>4. k <= nd.size => f[k] = ByteAt(v, nd, m)
    BY <1>4, <2>1
  <2> QED BY <1>4, <2>1, <2>2, <2>3, <2>4
<1>6. BytesOf(w, nw) = [k \in 1 .. size |-> IF k <= Len(f) THEN f[k] ELSE 0]
  BY <1>2, <1>5 DEF BytesOf
<1> QED BY <1>1, <1>2, <1>3, <1>6 DEF Store!Sized

\* The file of node i in w is the file it was in v, written with bytes at offset.
WroteTo(v, i, offset, bytes, w) ==
  LET end == offset + Len(bytes) IN
  BytesOf(w, w.node[i]) = [k \in 1 .. end |->
      IF k \in offset + 1 .. end THEN bytes[k - offset]
      ELSE Store!Sized(BytesOf(v, v.node[i]), end)[k]]

\* A write leaves the nodes it finds.
KeepsNodes(u, w) == w.node = u.node

\* A write that reaches the end of the file sets its bytes and no others.
LEMMA WrittenBytes ==
  ASSUME NEW v, Sound(v), NEW i \in Inode, v.node[i] # Null,
         NEW offset \in Nat, NEW bytes \in Seq(Nat), NEW size, size = offset + Len(bytes),
         NEW u, Resized(v, i, size, u), NEW w, Changed(u, i, offset, bytes, w), KeepsNodes(u, w)
  PROVE  WroteTo(v, i, offset, bytes, w)
<1>1. PICK nd : nd = v.node[i] /\ nd.size \in Nat
  BY NodeFields DEF Sound, FullNode
<1>2. PICK nw : nw = w.node[i] /\ nw = u.node[i] /\ nw.size = size
  BY DEF Resized, KeepsNodes
<1>3. PICK f : f = BytesOf(v, nd)
  OBVIOUS
<1>4. Len(f) = nd.size /\ \A k \in 1 .. nd.size : f[k] = ByteAt(v, nd, k - 1)
  BY <1>1, <1>3 DEF BytesOf
<1>5. PICK len : len = Len(bytes) /\ len \in Nat
  OBVIOUS
<1>6. PICK h : h = Store!Sized(f, size)
  OBVIOUS
<1>7. h = [k \in 1 .. size |-> IF k <= Len(f) THEN f[k] ELSE 0]
  BY <1>6 DEF Store!Sized
<1>8. ASSUME NEW k \in 1 .. size
      PROVE  ByteAt(w, nw, k - 1) = IF k \in offset + 1 .. size THEN bytes[k - offset] ELSE h[k]
  <2>1. PICK m : m = k - 1 /\ m \in 0 .. offset + Len(bytes) - 1 /\ m \in 0 .. size - 1
    BY <1>5
  <2>2. ByteAt(w, nw, m) = IF m < offset THEN ByteAt(u, nw, m) ELSE bytes[m - offset + 1]
    BY <1>2, <2>1 DEF Changed
  <2>3. CASE m < offset
    <3>1. ByteAt(u, nw, m) = IF m < nd.size THEN ByteAt(v, nd, m) ELSE 0
      BY <1>1, <1>2, <2>1 DEF Resized
    <3>2. k \notin offset + 1 .. size /\ (m < nd.size <=> k <= nd.size)
      BY <1>1, <2>1, <2>3
    <3>3. h[k] = IF k <= nd.size THEN f[k] ELSE 0
      BY <1>4, <1>7, <3>2
    <3>4. k <= nd.size => f[k] = ByteAt(v, nd, m)
      BY <1>4, <2>1
    <3> QED BY <2>1, <2>2, <2>3, <3>1, <3>2, <3>3, <3>4
  <2>4. CASE ~(m < offset)
    <3>1. k \in offset + 1 .. size /\ m - offset + 1 = k - offset
      BY <2>1, <2>4
    <3> QED BY <2>1, <2>2, <2>4, <3>1
  <2> QED BY <2>3, <2>4
<1>9. BytesOf(w, nw) = [k \in 1 .. size |->
                           IF k \in offset + 1 .. size THEN bytes[k - offset] ELSE h[k]]
  BY <1>2, <1>8, SMTT(30) DEF BytesOf
<1> QED BY <1>1, <1>2, <1>3, <1>6, <1>9 DEF WroteTo
-----------------------------------------------------------------------------
\* What the abstract file system has for a name
Held(n) == IF faults # {} THEN Junk
           ELSE IF ~Listed(n) THEN Null
           ELSE Contents(vol.node[dir[Pos(n)].node])

\* Nobody reads a byte that was never written.
BytesInv == faults = {} => \A i \in Inode :
    vol.node[i] # Null => BytesOf(vol, vol.node[i]) \in Seq(Nat)

\* The abstract file of a name is the bytes of its node.
HeldIsBytes == faults = {} => \A m \in Name :
    Held(m) = IF Listed(m) THEN BytesOf(vol, vol.node[dir[Pos(m)].node]) ELSE Null

\* The abstract files are the bytes of the files in use.
LEMMA HeldAre == HeldIsBytes
BY DEF HeldIsBytes, Held, Contents, BytesOf, ByteAt

\* A call on the file n changes at most what it holds.
LEMMA OnlyOne ==
  ASSUME DirInv, NEW n \in Name, Listed(n), NEW i, i = dir[Pos(n)].node,
         dir' = dir, faults = {}, faults' = {},
         \A x \in Inode \ {i} : vol.node[x] # Null =>
            BytesOf(vol', vol'.node[x]) = BytesOf(vol, vol.node[x])
  PROVE  /\ Held(n) = BytesOf(vol, vol.node[i]) /\ Held(n)' = BytesOf(vol', vol'.node[i])
         /\ \A m \in Name \ {n} : Held(m)' = Held(m)
<1>1. \A m \in Name : Held(m) = IF Listed(m) THEN BytesOf(vol, vol.node[dir[Pos(m)].node]) ELSE Null
  BY HeldAre DEF HeldIsBytes
<1>2. HeldIsBytes'
  BY HeldAre, PTL
<1>3. \A m \in Name : Listed(m)' = Listed(m) /\ Pos(m)' = Pos(m)
  BY DEF Listed, Pos
<1>4. \A m \in Name : Held(m)' = IF Listed(m) THEN BytesOf(vol', vol'.node[dir[Pos(m)].node]) ELSE Null
  BY <1>2, <1>3 DEF HeldIsBytes
<1>5. ASSUME NEW m \in Name \ {n} PROVE Held(m)' = Held(m)
  <2>1. CASE Listed(m)
    <3>1. PICK e : e = Pos(m) /\ e \in Entry /\ dir[e] # Null /\ dir[e].name = m
                   /\ dir[e].node \in Inode /\ vol.node[dir[e].node] # Null
      BY <2>1, NodeOfName
    <3>2. PICK d : d = Pos(n) /\ d \in Entry /\ dir[d] # Null /\ dir[d].name = n
      BY NodeOfName
    <3>3. dir[e].node # i
      BY <3>1, <3>2 DEF DirInv
    <3> QED BY <1>1, <1>4, <2>1, <3>1, <3>3
  <2>2. CASE ~Listed(m)
    BY <1>1, <1>4, <2>2
  <2> QED BY <2>1, <2>2
<1> QED BY <1>1, <1>4, <1>5
-----------------------------------------------------------------------------
\* The step that the abstract file system sees of a call on n
FileStep(n) ==
    \/ faults' # {}
    \/ /\ \A m \in Name \ {n} : Held(m)' = Held(m)
       /\ \/ Held(n)' = Held(n)
          \/ Store!Create(Held(n), Held(n)')
          \/ /\ Held(n) \notin {Null, Junk}
             /\ Store!Truncate(Held(n), Held(n)') \/ Store!Write(Held(n), Held(n)')

\* Cutting or filling up a file gives a file.
LEMMA SizedType ==
  ASSUME NEW f \in Seq(Nat), NEW size \in Nat
  PROVE  Store!Sized(f, size) \in Seq(Nat) /\ Store!Sized(f, Len(f)) = f
<1>1. \A k \in 1 .. size : (IF k <= Len(f) THEN f[k] ELSE 0) \in Nat
  OBVIOUS
<1>2. Store!Sized(f, size) \in [1 .. size -> Nat]
  BY <1>1 DEF Store!Sized
<1>3. Store!Sized(f, size) \in Seq(Nat)
  BY <1>2
<1>4. Store!Sized(f, Len(f)) = [k \in 1 .. Len(f) |-> f[k]]
  BY DEF Store!Sized
<1>5. f = [k \in 1 .. Len(f) |-> f[k]]
  OBVIOUS
<1> QED BY <1>3, <1>4, <1>5

\* A file is neither a missing one nor a damaged one.
LEMMA NotNothing == \A f \in Seq(Nat) : f \notin {Null, Junk}
  BY NothingAssumption

\* Two changes of one file leave the others alone.
LEMMA OthersTwice ==
  ASSUME NEW v, NEW u, NEW w, NEW i \in Inode, Others(v, u, i), Others(u, w, i)
  PROVE  Others(v, w, i)
<1>1. ASSUME NEW x \in Inode \ {i}
      PROVE  w.node[x] = v.node[x] /\ \A b \in Of(v, x) : w.data[b] = v.data[b]
  <2>1. u.node[x] = v.node[x] /\ w.node[x] = u.node[x]
    BY DEF Others
  <2>2. Of(u, x) = Of(v, x)
    BY <2>1 DEF Of
  <2> QED BY <2>1, <2>2 DEF Others
<1> QED BY <1>1 DEF Others

\* A call on i that leaves the other files alone
LEMMA BytesKept ==
  ASSUME FSInv, BytesInv, status = "running", NEW i \in Inode, vol.node[i] # Null,
         faults = {}, Others(vol, vol', i), BytesOf(vol', vol'.node[i]) \in Seq(Nat)
  PROVE  /\ BytesInv'
         /\ \A x \in Inode \ {i} : vol.node[x] # Null =>
               BytesOf(vol', vol'.node[x]) = BytesOf(vol, vol.node[x])
<1>1. Sound(vol)
  BY DEF FSInv, VolInv, NoneHalfDone
<1>2. \A x \in Inode \ {i} : vol.node[x] # Null =>
         BytesOf(vol', vol'.node[x]) = BytesOf(vol, vol.node[x])
  BY <1>1, KeptBytes
<1>3. \A x \in Inode \ {i} : vol'.node[x] = vol.node[x]
  BY DEF Others
<1>4. ASSUME NEW x \in Inode, vol'.node[x] # Null PROVE BytesOf(vol', vol'.node[x]) \in Seq(Nat)
  <2>1. CASE x = i
    BY <2>1
  <2>2. CASE x # i
    BY <1>2, <1>3, <1>4, <2>2 DEF BytesInv
  <2> QED BY <2>1, <2>2
<1> QED BY <1>2, <1>4 DEF BytesInv

\* A call that changes a size, or nothing
LEMMA ResizeFiles ==
  ASSUME FSInv, BytesInv, status = "running", NEW n \in Name, Listed(n),
         NEW i, i = dir[Pos(n)].node, dir' = dir, faults = {}, faults' = {},
         NEW size \in Nat, Resized(vol, i, size, vol')
  PROVE  /\ BytesInv' /\ Held(n) \in Seq(Nat) /\ Held(n)' = Store!Sized(Held(n), size)
         /\ Len(Held(n)) = vol.node[i].size
         /\ \A m \in Name \ {n} : Held(m)' = Held(m)
<1>1. DirInv /\ Sound(vol)
  BY DEF FSInv, VolInv, NoneHalfDone
<1>2. i \in Inode /\ vol.node[i] # Null
  BY <1>1, NodeOfName
<1>3. PICK f : f = BytesOf(vol, vol.node[i]) /\ f \in Seq(Nat)
  BY <1>2 DEF BytesInv
<1>4. BytesOf(vol', vol'.node[i]) = Store!Sized(f, size)
  BY <1>1, <1>2, <1>3, ResizedBytes
<1>5. BytesOf(vol', vol'.node[i]) \in Seq(Nat)
  BY <1>3, <1>4, SizedType
<1>6. Others(vol, vol', i)
  BY DEF Resized
<1>7. /\ BytesInv'
      /\ \A x \in Inode \ {i} : vol.node[x] # Null =>
               BytesOf(vol', vol'.node[x]) = BytesOf(vol, vol.node[x])
  BY <1>2, <1>5, <1>6, BytesKept
<1>8. /\ Held(n) = BytesOf(vol, vol.node[i]) /\ Held(n)' = BytesOf(vol', vol'.node[i])
      /\ \A m \in Name \ {n} : Held(m)' = Held(m)
  BY <1>1, <1>7, OnlyOne
<1>9. Len(f) = vol.node[i].size
  <2>1. PICK s : s = vol.node[i].size /\ s \in Nat
    BY <1>1, <1>2, NodeFields DEF Sound, FullNode
  <2> QED BY <1>3, <2>1 DEF BytesOf
<1> QED BY <1>3, <1>4, <1>7, <1>8, <1>9

\* A size that is the one the file has already
LEMMA SameResized ==
  ASSUME NEW v, Sound(v), NEW i \in Inode, v.node[i] # Null
  PROVE  Resized(v, i, v.node[i].size, v)
<1>1. Others(v, v, i)
  BY DEF Others
<1>2. PICK nd : nd = v.node[i] /\ nd.size \in Nat
  BY NodeFields DEF Sound, FullNode
<1>3. \A k \in 0 .. nd.size - 1 : ByteAt(v, nd, k) = IF k < nd.size THEN ByteAt(v, nd, k) ELSE 0
  BY <1>2
<1> QED BY <1>1, <1>2, <1>3 DEF Resized

\* A call that only changes a size, by its result
LEMMA SizeFiles ==
  ASSUME FSInv, BytesInv, status = "running", NEW n \in Name, Listed(n),
         NEW i, i = dir[Pos(n)].node, NEW size \in Nat, NEW o \in Resize(vol, i, size),
         NEW save \in BOOLEAN, Finish(i, o, save, {}), faults' = {},
         o.res = "ok" => size \in Offset
  PROVE  BytesInv' /\ FileStep(n)
<1>1. /\ vol' = o.vol /\ dir' = dir /\ faults = {}
      /\ o.res \notin {"data", "grow", "large", "shrink"}
  BY DEF Finish, Refusals
<1>2. DirInv /\ Sound(vol)
  BY <1>1 DEF FSInv, VolInv, NoneHalfDone
<1>3. i \in Inode /\ vol.node[i] # Null
  BY <1>2, NodeOfName
<1>0. ResizeEnd(vol, i, size, o) /\ o.res \in {"ok", "same", "full"}
  <2>1. ResizeEnd(vol, i, size, o)
    BY <1>2, <1>3, ResizeEnds
  <2> QED BY <1>1, <2>1 DEF ResizeEnd
<1>4. PICK s : s = vol.node[i].size /\ s \in Nat
  BY <1>2, <1>3, NodeFields DEF Sound, FullNode
<1>5. CASE o.res = "ok"
  <2>1. Resized(vol, i, size, vol')
    BY <1>0, <1>1, <1>5 DEF ResizeEnd
  <2>2. /\ BytesInv' /\ Held(n) \in Seq(Nat) /\ Held(n)' = Store!Sized(Held(n), size)
        /\ \A m \in Name \ {n} : Held(m)' = Held(m)
    BY <1>1, <2>1, ResizeFiles
  <2>3. Store!Truncate(Held(n), Held(n)')
    BY <1>5, <2>2 DEF Store!Truncate
  <2> QED BY <2>2, <2>3, NotNothing DEF FileStep
<1>6. CASE o.res # "ok"
  <2>1. Resized(vol, i, s, vol')
    BY <1>0, <1>1, <1>2, <1>3, <1>4, <1>6, SameResized DEF ResizeEnd
  <2>2. /\ BytesInv' /\ Held(n) \in Seq(Nat) /\ Held(n)' = Store!Sized(Held(n), s)
        /\ Len(Held(n)) = s
        /\ \A m \in Name \ {n} : Held(m)' = Held(m)
    BY <1>1, <1>4, <2>1, ResizeFiles
  <2>3. Held(n)' = Held(n)
    BY <1>4, <2>2, SizedType
  <2> QED BY <2>2, <2>3 DEF FileStep
<1> QED BY <1>5, <1>6

\* my_truncate is a step of the abstract file system.
LEMMA TruncateFiles ==
  ASSUME FSInv, BytesInv, NEW n \in Name, NEW size \in Offset, Truncate(n, size)
  PROVE  BytesInv' /\ FileStep(n)
<1>1. status = "running" /\ Listed(n) /\ size \in Nat
  BY MiFSAssumption DEF Truncate
<1>2. PICK i : i = dir[Pos(n)].node /\ i \in Inode /\ vol.node[i] # Null
  BY <1>1, NodeOfName DEF FSInv
<1>3. PICK o \in Resize(vol, i, size) : Finish(i, o, o.res = "ok", {})
  BY <1>2 DEF Truncate
<1>5. PICK save : save = (o.res = "ok") /\ save \in BOOLEAN
  OBVIOUS
<1>6. CASE faults' = {}
  BY <1>1, <1>2, <1>3, <1>5, <1>6, SizeFiles
<1>7. CASE faults' # {}
  BY <1>7 DEF BytesInv, FileStep
<1> QED BY <1>6, <1>7
-----------------------------------------------------------------------------
\* The write that worked
LEMMA PutFiles ==
  ASSUME FSInv, BytesInv, status = "running", NEW n \in Name, Listed(n),
         NEW i, i = dir[Pos(n)].node, NEW offset \in Offset, NEW bytes \in Bytes,
         dir' = dir, faults = {}, faults' = {}, ~CutsOff(i, offset, bytes),
         NEW u, Resized(vol, i, offset + Len(bytes), u), Changed(u, i, offset, bytes, vol'),
         vol'.node = u.node
  PROVE  BytesInv' /\ FileStep(n)
<1>1. DirInv /\ Sound(vol) /\ offset \in Nat /\ bytes \in Seq(Nat)
  BY MiFSAssumption DEF FSInv, VolInv, NoneHalfDone
<1>2. i \in Inode /\ vol.node[i] # Null
  BY <1>1, NodeOfName
<1>3. PICK size : size = offset + Len(bytes) /\ size \in Nat
  BY <1>1
<1>4. PICK f : f = BytesOf(vol, vol.node[i]) /\ f \in Seq(Nat)
  BY <1>2 DEF BytesInv
<1>5. BytesOf(vol', vol'.node[i]) = [k \in 1 .. size |->
         IF k \in offset + 1 .. size THEN bytes[k - offset] ELSE Store!Sized(f, size)[k]]
  <2>1. Resized(vol, i, size, u)
    BY <1>3
  <2>2. Sound(vol) /\ offset \in Nat /\ bytes \in Seq(Nat)
    BY <1>1
  <2>3. PICK w : w = vol'
    OBVIOUS
  <2>4. KeepsNodes(u, w) /\ Changed(u, i, offset, bytes, w)
    BY <2>3 DEF KeepsNodes
  <2>5. PICK v : v = vol
    OBVIOUS
  <2>6. Sound(v) /\ Resized(v, i, size, u) /\ v.node[i] # Null
    BY <1>2, <2>1, <2>2, <2>5
  <2>7. WroteTo(v, i, offset, bytes, w)
    BY <1>2, <1>3, <2>2, <2>4, <2>6, WrittenBytes
  <2> QED BY <1>3, <1>4, <2>3, <2>5, <2>7 DEF WroteTo
<1>6. BytesOf(vol', vol'.node[i]) \in Seq(Nat)
  <2>1. PICK h : h = Store!Sized(f, size) /\ h \in Seq(Nat) /\ Len(h) = size
    <3>1. Store!Sized(f, size) \in Seq(Nat)
      BY <1>3, <1>4, SizedType
    <3> QED BY <1>3, <3>1 DEF Store!Sized
  <2>2. ASSUME NEW k \in 1 .. size
        PROVE  (IF k \in offset + 1 .. size THEN bytes[k - offset] ELSE h[k]) \in Nat
    <3>1. k \in offset + 1 .. size => k - offset \in 1 .. Len(bytes)
      BY <1>1, <1>3
    <3> QED BY <1>1, <1>3, <2>1, <3>1
  <2>3. BytesOf(vol', vol'.node[i]) \in [1 .. size -> Nat]
    BY <1>5, <2>1, <2>2
  <2>4. \A m \in Nat : \A g \in [1 .. m -> Nat] : g \in Seq(Nat)
    OBVIOUS
  <2> QED BY <1>3, <2>3, <2>4, Zenon
<1>7. Others(vol, vol', i)
  BY <1>2, OthersTwice DEF Resized, Changed
<1>8. /\ BytesInv'
      /\ \A x \in Inode \ {i} : vol.node[x] # Null =>
               BytesOf(vol', vol'.node[x]) = BytesOf(vol, vol.node[x])
  BY <1>2, <1>6, <1>7, BytesKept
<1>9. /\ Held(n) = BytesOf(vol, vol.node[i]) /\ Held(n)' = BytesOf(vol', vol'.node[i])
      /\ \A m \in Name \ {n} : Held(m)' = Held(m)
  BY <1>1, <1>8, OnlyOne, SMTT(30)
<1>10. Store!Write(Held(n), Held(n)')
  <2>1. PICK s \in Nat : s = vol.node[i].size
    BY <1>1, <1>2, NodeFields DEF Sound, FullNode
  <2>2. Len(f) = s /\ ~(size < s)
    <3>1. Len(f) = s
      BY <1>4, <2>1 DEF BytesOf
    <3> QED BY <1>3, <2>1, <3>1 DEF CutsOff
  <2>3. (IF size > Len(f) THEN size ELSE Len(f)) = size
    BY <1>3, <2>1, <2>2
  <2> QED BY <1>3, <1>4, <1>5, <1>9, <2>3 DEF Store!Write
<1> QED BY <1>4, <1>8, <1>9, <1>10, NotNothing DEF FileStep

\* my_write is a step of the abstract file system.
LEMMA WriteFiles ==
  ASSUME FSInv, BytesInv, NEW n \in Name, NEW offset \in Offset, NEW bytes \in Bytes,
         Write(n, offset, bytes)
  PROVE  BytesInv' /\ FileStep(n)
<1>1. status = "running" /\ Listed(n) /\ offset \in Nat /\ bytes \in Seq(Nat)
  BY MiFSAssumption DEF Write
<1>2. PICK i : i = dir[Pos(n)].node /\ i \in Inode /\ vol.node[i] # Null
  BY <1>1, NodeOfName DEF FSInv
<1>3. PICK size : size = offset + Len(bytes) /\ size \in Nat
  BY <1>1
<1>4. PICK also : also = (IF Across(offset, bytes) THEN {"across"} ELSE {}) \cup
                         (IF CutsOff(i, offset, bytes) THEN {"cut"} ELSE {})
  OBVIOUS
<1>5. PICK o \in Resize(vol, i, size) :
         IF o.res \notin {"ok", "same"} THEN Finish(i, o, FALSE, {})
         ELSE \E p \in PutAll(o.vol, i, offset, bytes) :
                 Finish(i, p, o.res = "ok" \/ p.res = "ok", also)
  BY <1>2, <1>3, <1>4 DEF Write
<1>8. CASE faults' # {}
  BY <1>8 DEF BytesInv, FileStep
<1>9. CASE faults' = {} /\ o.res \notin {"ok", "same"}
  <2>1. Finish(i, o, FALSE, {}) /\ FALSE \in BOOLEAN /\ o.res # "ok"
    BY <1>5, <1>9
  <2> QED BY <1>1, <1>2, <1>3, <1>9, <2>1, SizeFiles
<1>10. CASE faults' = {} /\ o.res \in {"ok", "same"}
  <2>1. PICK p \in PutAll(o.vol, i, offset, bytes) :
            Finish(i, p, o.res = "ok" \/ p.res = "ok", also)
    BY <1>5, <1>10
  <2>2. /\ vol' = p.vol /\ dir' = dir /\ faults = {} /\ also = {} /\ p.res # "data"
    BY <1>10, <2>1 DEF Finish, Refusals
  <2>3. ~Across(offset, bytes) /\ ~CutsOff(i, offset, bytes)
    BY <1>4, <2>2
  <2>0. Sound(vol) /\ ResizeEnd(vol, i, size, o)
    <3>1. Sound(vol)
      BY <1>1, <2>2 DEF FSInv, VolInv, NoneHalfDone
    <3> QED BY <1>2, <1>3, <1>5, <3>1, ResizeEnds
  <2>4. PICK u : u = o.vol
    OBVIOUS
  <2>5. Resized(vol, i, size, u)
    BY <1>2, <1>10, <2>0, <2>4, SameResized DEF ResizeEnd
  <2>6. PICK nd : nd = u.node[i] /\ nd # Null /\ nd.size = offset + Len(bytes) /\ Sound(u)
    BY <1>3, <2>5 DEF Resized
  <2>7. PutEnd(u, i, offset, bytes, p)
    BY <1>1, <1>2, <2>1, <2>4, <2>6, PutEnds
  <2>8. Written(u, nd, offset, bytes, Len(bytes), vol')
    BY <2>2, <2>3, <2>6, <2>7 DEF PutEnd
  <2>9. Changed(u, i, offset, bytes, vol')
    BY <1>1, <1>2, <2>3, <2>6, <2>8, WriteChanges
  <2>10. vol'.node = u.node
    BY <2>8 DEF Written
  <2>11. Resized(vol, i, offset + Len(bytes), u)
    BY <1>3, <2>5
  <2>12. faults' = {}
    BY <1>10
  <2> QED BY <1>1, <1>2, <2>2, <2>3, <2>9, <2>10, <2>11, <2>12, PutFiles
<1> QED BY <1>8, <1>9, <1>10

\* The new file is empty.
LEMMA MknodFiles ==
  ASSUME FSInv, BytesInv, NEW n \in Name, Mknod(n)
  PROVE  BytesInv' /\ FileStep(n)
<1>1. /\ status = "running" /\ n \notin LongName /\ ~Listed(n)
      /\ FreeNodes # {} /\ FreeEntries # {} /\ faults' = faults
  BY DEF Mknod, MayCreate
<1>2. PICK k : k = Min(FreeEntries) /\ k \in Entry /\ dir[k] = Null
  <2>1. FreeEntries \subseteq Nat
    BY DEF FreeEntries, Entry
  <2>2. Min(FreeEntries) \in FreeEntries
    BY <1>1, <2>1, MinExists
  <2> QED BY <2>2 DEF FreeEntries
<1>3. PICK i : i = Min(FreeNodes) /\ i \in Inode /\ vol.node[i] = Null
  <2>1. FreeNodes \subseteq Nat
    BY DEF FreeNodes, Inode
  <2>2. Min(FreeNodes) \in FreeNodes
    BY <1>1, <2>1, MinExists
  <2> QED BY <2>2 DEF FreeNodes
<1>4. PICK d : d = [name |-> n, node |-> i] /\ d # Null /\ d.name = n /\ d.node = i
  <2> PICK r : r = [name |-> n, node |-> i]
    OBVIOUS
  <2>1. r \in EntryType
    BY <1>1, <1>3 DEF EntryType
  <2>2. r # Null
    BY <2>1, EntryIsNotNull
  <2>3. r.name = n /\ r.node = i
    OBVIOUS
  <2> QED BY <2>2, <2>3
<1>5. dir' = [dir EXCEPT ![k] = d] /\ vol' = WithNew(vol, i)
  BY <1>2, <1>3, <1>4 DEF Mknod, WithNew, NewNode
<1>6. Enough(vol) /\ DirInv
  BY DEF FSInv, VolInv
<1>7. /\ vol'.data = vol.data /\ vol'.node[i] = NewNode
      /\ \A x \in Inode \ {i} : vol'.node[x] = vol.node[x]
  <2>1. Made(vol, i, vol')
    BY <1>3, <1>5, <1>6, NewIsMade
  <2> QED BY <2>1 DEF Made
<1>8. /\ dir' = [e \in Entry |-> dir'[e]] /\ dir'[k] = d /\ \A e \in Entry \ {k} : dir'[e] = dir[e]
  <2>1. dir = [e \in Entry |-> dir[e]]
    BY <1>6 DEF DirInv
  <2> QED BY <1>2, <1>5, <2>1
<1>9. CASE faults # {}
  BY <1>1, <1>9 DEF BytesInv, FileStep
<1>10. CASE faults = {}
  <2>1. \A x \in Inode \ {i} : BytesOf(vol', vol'.node[x]) = BytesOf(vol, vol.node[x])
    BY <1>7 DEF BytesOf, ByteAt
  <2>2. BytesOf(vol', NewNode) = <<>>
    <3>1. NewNode.size = 0
      BY DEF NewNode
    <3>2. 1 .. NewNode.size = {}
      BY <3>1
    <3>3. BytesOf(vol', NewNode) = [k0 \in {} |-> ByteAt(vol', NewNode, k0 - 1)]
      BY <3>2 DEF BytesOf
    <3> QED BY <3>3
  <2>3. BytesInv'
    <3>1. ASSUME NEW x \in Inode, vol'.node[x] # Null PROVE BytesOf(vol', vol'.node[x]) \in Seq(Nat)
      <4>1. CASE x = i
        <5>1. <<>> \in Seq(Nat)
          OBVIOUS
        <5> QED BY <1>7, <2>2, <4>1, <5>1
      <4>2. CASE x # i
        BY <1>7, <1>10, <2>1, <3>1, <4>2 DEF BytesInv
      <4> QED BY <4>1, <4>2
    <3> QED BY <3>1 DEF BytesInv
  <2>4. \A m \in Name : Held(m) = IF Listed(m) THEN BytesOf(vol, vol.node[dir[Pos(m)].node]) ELSE Null
    BY <1>10, HeldAre DEF HeldIsBytes
  <2>5. \A m \in Name : Held(m)' =
           IF Listed(m)' THEN BytesOf(vol', vol'.node[dir'[Pos(m)'].node]) ELSE Null
    <3>1. HeldIsBytes'
      BY HeldAre, PTL
    <3> QED BY <1>1, <1>10, <3>1 DEF HeldIsBytes
  <2>6. ASSUME NEW m \in Name \ {n} PROVE Held(m)' = Held(m)
    <3>1. \A e \in Entry : dir'[e] # Null /\ dir'[e].name = m <=> dir[e] # Null /\ dir[e].name = m
      BY <1>2, <1>4, <1>8
    <3>2. Listed(m)' <=> Listed(m)
      BY <3>1 DEF Listed
    <3>3. {e \in Entry : dir'[e] # Null /\ dir'[e].name = m} = {e \in Entry : dir[e] # Null /\ dir[e].name = m}
      BY <3>1
    <3>4. Pos(m)' = Pos(m)
      BY <3>3, Zenon DEF Pos
    <3>5. CASE Listed(m)
      <4>1. PICK e : e = Pos(m) /\ e \in Entry /\ dir[e] # Null /\ dir[e].node \in Inode
                     /\ vol.node[dir[e].node] # Null
        BY <1>6, <3>5, NodeOfName
      <4>2. dir'[e] = dir[e]
        BY <1>2, <1>8, <4>1
      <4>3. dir[e].node # i
        BY <1>3, <4>1
      <4>4. BytesOf(vol', vol'.node[dir[e].node]) = BytesOf(vol, vol.node[dir[e].node])
        BY <2>1, <4>1, <4>3
      <4> QED BY <2>4, <2>5, <3>2, <3>4, <3>5, <4>1, <4>2, <4>4
    <3>6. CASE ~Listed(m)
      BY <2>4, <2>5, <3>2, <3>6
    <3> QED BY <3>5, <3>6
  <2>7. Held(n) = Null
    BY <1>1, <2>4
  <2>8. Held(n)' = <<>>
    <3>1. \A e \in Entry : dir'[e] # Null /\ dir'[e].name = n <=> e = k
      BY <1>1, <1>2, <1>4, <1>8 DEF Listed
    <3>2. Listed(n)'
      BY <1>2, <3>1 DEF Listed
    <3>3. {e \in Entry : dir'[e] # Null /\ dir'[e].name = n} = {k}
      BY <1>2, <3>1
    <3>4. Min({k}) = k
      BY <1>2 DEF Min, Entry
    <3>5. Pos(n)' = k
      BY <3>3, <3>4 DEF Pos
    <3> QED BY <1>4, <1>7, <1>8, <2>2, <2>5, <3>2, <3>5
  <2>9. Store!Create(Held(n), Held(n)')
    BY <2>7, <2>8 DEF Store!Create
  <2> QED BY <2>3, <2>6, <2>9 DEF FileStep
<1> QED BY <1>9, <1>10
-----------------------------------------------------------------------------
\* There is no file whose bytes were not written at first.
LEMMA BytesInit == Init => BytesInv
<1>1. Init => \A i \in Inode : vol.node[i] = Null
  BY DEF Init
<1> QED BY <1>1 DEF BytesInv

\* Every step keeps the bytes of all the files written.
LEMMA BytesNext ==
  ASSUME FSInv, BytesInv, [Next]_vars
  PROVE  BytesInv'
<1>1. CASE UNCHANGED vars
  BY <1>1 DEF vars, BytesInv, BytesOf, ByteAt
<1>2. CASE Next
  <2>1. PICK n \in Name :
          \/ Mknod(n)
          \/ \E s \in Offset : Truncate(n, s) \/ \E bytes \in Bytes : Write(n, s, bytes)
    BY <1>2 DEF Next
  <2>2. CASE Mknod(n)
    BY <2>2, MknodFiles
  <2>3. ASSUME NEW s \in Offset, Truncate(n, s) PROVE BytesInv'
    BY <2>3, TruncateFiles
  <2>4. ASSUME NEW s \in Offset, NEW bytes \in Bytes, Write(n, s, bytes) PROVE BytesInv'
    BY <2>4, WriteFiles
  <2> QED BY <2>1, <2>2, <2>3, <2>4
<1> QED BY <1>1, <1>2, SMTT(30)

\* Every step is one of the abstract file system, or none.
LEMMA NextFiles ==
  ASSUME FSInv, BytesInv, Next
  PROVE  \E n \in Name : FileStep(n)
<1>1. PICK n \in Name :
          \/ Mknod(n)
          \/ \E s \in Offset : Truncate(n, s) \/ \E bytes \in Bytes : Write(n, s, bytes)
  BY DEF Next
<1>2. CASE Mknod(n)
  BY <1>2, MknodFiles
<1>3. ASSUME NEW s \in Offset, Truncate(n, s) PROVE FileStep(n)
  BY <1>3, TruncateFiles
<1>4. ASSUME NEW s \in Offset, NEW bytes \in Bytes, Write(n, s, bytes) PROVE FileStep(n)
  BY <1>4, WriteFiles
<1> QED BY <1>1, <1>2, <1>3, <1>4

\* Every step, or none, is one of the abstract specification.
LEMMA AbstractStep ==
  ASSUME FSInv, BytesInv, [Next]_vars
  PROVE  [Store!Next]_([n \in Name |-> Held(n)])
<1> PICK fs : fs = [n \in Name |-> Held(n)]
  OBVIOUS
<1>1. CASE UNCHANGED vars
  <2>1. \A n \in Name : Held(n)' = Held(n)
    BY <1>1 DEF vars, Held, Listed, Pos, Contents
  <2> QED BY <2>1
<1>2. CASE Next
  <2>1. PICK n \in Name : FileStep(n)
    BY <1>2, NextFiles
  <2>2. CASE faults' # {}
    <3>1. \A m \in Name : Held(m)' = Junk
      BY <2>2 DEF Held
    <3>2. Store!Damage
      BY <3>1 DEF Store!Damage, Held
    <3> QED BY <3>2 DEF Store!Next
  <2>3. CASE (\A m \in Name \ {n} : Held(m)' = Held(m)) /\ Held(n)' = Held(n)
    BY <2>3
  <2>4. CASE /\ \A m \in Name \ {n} : Held(m)' = Held(m)
             /\ \/ Store!Create(Held(n), Held(n)')
                \/ /\ Held(n) \notin {Null, Junk}
                   /\ Store!Truncate(Held(n), Held(n)') \/ Store!Write(Held(n), Held(n)')
    <3>1. Store!Call(n)
      BY <2>4 DEF Store!Call, Held
    <3> QED BY <3>1 DEF Store!Next
  <2> QED BY <2>1, <2>2, <2>3, <2>4 DEF FileStep
<1> QED BY <1>1, <1>2
-----------------------------------------------------------------------------
\* An empty disk is an empty abstract file system.
LEMMA AbstractInit == Init => Store!Init
<1> SUFFICES ASSUME Init PROVE Store!Init
  OBVIOUS
<1>1. \A n \in Name : ~Listed(n)
  BY DEF Init, Listed
<1>2. faults = {}
  BY DEF Init
<1> QED BY <1>1, <1>2 DEF Store!Init

\* my_mknod, my_write and my_truncate implement the file system of bytes.
THEOREM MiFSRefinement == Spec => Refines
<1>1. FSInv /\ BytesInv /\ [Next]_vars => BytesInv'
  BY BytesNext
<1>2. FSInv /\ BytesInv /\ [Next]_vars => [Store!Next]_([n \in Name |-> Held(n)])
  BY AbstractStep
<1>3. FSInv /\ BytesInv /\ [Next]_vars =>
        [Store!Next]_([n \in Name |-> IF faults # {} THEN Junk
                             ELSE IF ~Listed(n) THEN Null
                             ELSE Contents(vol.node[dir[Pos(n)].node])])
  BY <1>2 DEF Held
<1> QED BY <1>1, <1>3, AbstractInit, BytesInit, FSInvariant, PTL DEF Spec, Refines, Store!Spec
=============================================================================
