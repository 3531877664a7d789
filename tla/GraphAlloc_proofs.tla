------------------------- MODULE GraphAlloc_proofs --------------------------
(* Graphs of any size and shape: the list of free blocks and the live       *)
(* tensors tile the memory, nothing that is still to be read is given away, *)
(* and what is computed on a plan reads what was written for it.            *)
EXTENDS GraphAlloc, FiniteSetTheorems, WellFoundedInduction, TLAPS

(***************************************************************************)
(* Numbers and sequences.                                                  *)
(***************************************************************************)
LEMMA LeastNat ==
  ASSUME NEW S \in SUBSET Nat, S # {}
  PROVE  \E x \in S : \A y \in S : x <= y
<1>1. PICK x \in S : \A y \in S : ~ (<<y, x>> \in OpToRel(<, Nat))
  BY NatLessThanWellFounded, WFMin, Zenon
<1>2. \A y \in S : ~(y < x)
  BY <1>1, Zenon DEF OpToRel
<1>. QED
  BY <1>2

LEMMA GreatestNat ==
  ASSUME NEW S \in SUBSET Nat, S # {}, NEW b \in Nat, \A y \in S : y <= b
  PROVE  \E x \in S : \A y \in S : x >= y
<1>. DEFINE T == {b - y : y \in S}
<1>1. T \in SUBSET Nat /\ T # {}
  <2>1. \A y \in S : b - y \in Nat
    OBVIOUS
  <2>. QED
    BY <2>1
<1>2. PICK m \in T : \A y \in T : m <= y
  BY <1>1, LeastNat
<1>3. PICK x \in S : m = b - x
  OBVIOUS
<1>4. ASSUME NEW y \in S PROVE x >= y
  <2>1. b - y \in T
    OBVIOUS
  <2>2. b - x <= b - y
    BY <1>2, <1>3, <2>1
  <2>. QED
    BY <2>2
<1>. QED
  BY <1>4

LEMMA Removed ==
  ASSUME NEW S, NEW s \in Seq(S), NEW i \in 1..Len(s), NEW d, d = RemoveAt(s, i)
  PROVE  /\ d \in Seq(S) /\ Len(d) = Len(s) - 1
         /\ \A k \in 1..Len(d) : d[k] = IF k < i THEN s[k] ELSE s[k + 1]
<1>. DEFINE x == SubSeq(s, 1, i - 1)
            y == SubSeq(s, i + 1, Len(s))
<1>1. x \in Seq(S) /\ Len(x) = i - 1 /\ \A k \in 1..i - 1 : x[k] = s[k]
  OBVIOUS
<1>2. y \in Seq(S) /\ Len(y) = Len(s) - i /\ \A k \in 1..Len(s) - i : y[k] = s[i + k]
  OBVIOUS
<1>3. d = x \o y
  BY DEF RemoveAt
<1>. HIDE DEF x, y
<1>4. d \in Seq(S) /\ Len(d) = Len(s) - 1
  BY <1>1, <1>2, <1>3, SMTT(30)
<1>5. ASSUME NEW k \in 1..Len(d) PROVE d[k] = IF k < i THEN s[k] ELSE s[k + 1]
  <2>1. CASE k < i
    BY <1>1, <1>2, <1>3, <1>4, <2>1
  <2>2. CASE k >= i
    <3>1. d[k] = y[k - (i - 1)]
      BY <1>1, <1>2, <1>3, <1>4, <2>2
    <3>2. k - (i - 1) \in 1..Len(s) - i
      BY <1>4, <2>2
    <3>3. i + (k - (i - 1)) = k + 1
      OBVIOUS
    <3>. QED
      BY <1>2, <2>2, <3>1, <3>2, <3>3
  <2>. QED
    BY <2>1, <2>2
<1>. QED
  BY <1>4, <1>5

LEMMA Inserted ==
  ASSUME NEW S, NEW s \in Seq(S), NEW i \in 1..Len(s), NEW e \in S, NEW d, d = InsertAt(s, i, e)
  PROVE  /\ d \in Seq(S) /\ Len(d) = Len(s) + 1 /\ d[i] = e
         /\ \A k \in 1..i - 1 : d[k] = s[k]
         /\ \A k \in i + 1..Len(s) + 1 : d[k] = s[k - 1]
<1>. DEFINE x == SubSeq(s, 1, i - 1)
            y == SubSeq(s, i, Len(s))
            z == x \o <<e>>
<1>1. x \in Seq(S) /\ Len(x) = i - 1 /\ \A k \in 1..i - 1 : x[k] = s[k]
  OBVIOUS
<1>2. y \in Seq(S) /\ Len(y) = Len(s) - i + 1 /\ \A k \in 1..Len(s) - i + 1 : y[k] = s[i + k - 1]
  OBVIOUS
<1>3. d = z \o y
  BY DEF InsertAt
<1>4. z \in Seq(S) /\ Len(z) = i /\ z[i] = e /\ \A k \in 1..i - 1 : z[k] = s[k]
  <2>. HIDE DEF x
  <2>1. z \in Seq(S) /\ Len(z) = i
    BY <1>1
  <2>2. z[i] = e
    BY <1>1
  <2>3. \A k \in 1..i - 1 : z[k] = s[k]
    BY <1>1
  <2>. QED
    BY <2>1, <2>2, <2>3
<1>. HIDE DEF y, z
<1>5. d \in Seq(S) /\ Len(d) = Len(s) + 1
  BY <1>2, <1>3, <1>4
<1>6. \A k \in 1..i : d[k] = z[k]
  BY <1>2, <1>3, <1>4, <1>5
<1>7. \A k \in 1..i - 1 : d[k] = s[k]
  BY <1>4, <1>6
<1>8. ASSUME NEW k \in i + 1..Len(s) + 1 PROVE d[k] = s[k - 1]
  <2>1. d[k] = y[k - i]
    BY <1>2, <1>3, <1>4, <1>5
  <2>2. k - i \in 1..Len(s) - i + 1
    OBVIOUS
  <2>3. i + (k - i) - 1 = k - 1
    OBVIOUS
  <2>. QED
    BY <1>2, <2>1, <2>2, <2>3
<1>. QED
  BY <1>4, <1>5, <1>6, <1>7, <1>8

(***************************************************************************)
(* The list of free blocks.                                                *)
(***************************************************************************)
Blocks == [offset : Nat, size : Nat \ {0}]

InBlock(b, u) == b.offset <= u /\ u < b.offset + b.size
InRange(start, size, u) == start <= u /\ u < start + size
FreeIn(blocks, u) == \E i \in DOMAIN blocks : InBlock(blocks[i], u)

Sorted(blocks) ==
  /\ blocks \in Seq(Blocks)
  /\ \A i, j \in 1..Len(blocks) :
       i < j => blocks[i].offset + blocks[i].size < blocks[j].offset

(* The last block reaches to the end of memory and starts no later than m. *)
EndsIn(blocks, m) ==
  /\ Len(blocks) > 0
  /\ blocks[Len(blocks)].offset + blocks[Len(blocks)].size = Limit
  /\ blocks[Len(blocks)].offset <= m

LEMMA BlockFacts ==
  ASSUME NEW blocks, Sorted(blocks)
  PROVE  /\ Len(blocks) \in Nat /\ DOMAIN blocks = 1..Len(blocks)
         /\ \A i \in 1..Len(blocks) :
              /\ blocks[i] \in Blocks
              /\ blocks[i].offset \in Nat /\ blocks[i].size \in Nat /\ blocks[i].size > 0
<1>1. blocks \in Seq(Blocks)
  BY DEF Sorted
<1>2. Len(blocks) \in Nat /\ DOMAIN blocks = 1..Len(blocks)
  BY <1>1
<1>3. \A i \in 1..Len(blocks) : blocks[i] \in Blocks
  BY <1>1
<1>. QED
  BY <1>2, <1>3 DEF Blocks

LEMMA BestFits ==
  ASSUME NEW blocks, Sorted(blocks), NEW size \in Nat \ {0}, Len(blocks) > 0,
         blocks[Len(blocks)].size > size, NEW i, i = BestFit(blocks, size)
  PROVE  /\ i \in 1..Len(blocks) /\ blocks[i].size >= size
         /\ blocks[i].size = size => i < Len(blocks)
<1>0. /\ Len(blocks) \in Nat
      /\ \A k \in 1..Len(blocks) : blocks[k].offset \in Nat /\ blocks[k].size \in Nat
  BY BlockFacts
<1>1. CASE Fits(blocks, size) = {}
  BY <1>0, <1>1 DEF BestFit
<1>2. CASE Fits(blocks, size) # {}
  <2>. DEFINE F == Fits(blocks, size)
              T == {blocks[k].size : k \in F}
  <2>1. F \subseteq 1..Len(blocks) - 1 /\ \A k \in F : k \in 1..Len(blocks) /\ blocks[k].size >= size
    BY <1>0 DEF Fits
  <2>2. T \in SUBSET Nat /\ T # {}
    <3>. HIDE DEF F
    <3>. QED
      BY <1>0, <1>2, <2>1 DEF F
  <2>3. PICK m \in T : \A y \in T : m <= y
    BY <2>2, LeastNat
  <2>. DEFINE E == {k \in F : blocks[k].size = m}
  <2>4. E \in SUBSET Nat /\ E # {} /\ \A k \in E : k <= Len(blocks)
    <3>1. PICK k \in F : blocks[k].size = m
      OBVIOUS
    <3>2. k \in E
      BY <3>1
    <3>. HIDE DEF F
    <3>3. E \subseteq F
      OBVIOUS
    <3>. HIDE DEF E
    <3>4. \A l \in E : l \in 1..Len(blocks) - 1
      BY <2>1, <3>3
    <3>5. E \in SUBSET Nat /\ \A l \in E : l <= Len(blocks)
      BY ONLY <1>0, <3>4
    <3>. QED
      BY <3>2, <3>5
  <2>5. PICK x \in E : \A y \in E : x >= y
    <3>. HIDE DEF E
    <3>. QED
      BY <1>0, <2>4, GreatestNat
  <2>6. \A j \in F : blocks[x].size < blocks[j].size \/ (blocks[x].size = blocks[j].size /\ x >= j)
    <3>. HIDE DEF F
    <3>1. TAKE j \in F
    <3>2. blocks[j].size \in T /\ blocks[x].size = m
      BY <2>5
    <3>3. m <= blocks[j].size
      BY <2>3, <3>2
    <3>4. CASE blocks[j].size = m
      BY <2>5, <3>2, <3>4
    <3>. QED
      BY <3>2, <3>3, <3>4, <2>1, <1>0, SMTT(30)
  <2>7. i \in F
    BY <1>2, <2>5, <2>6 DEF BestFit
  <2>. QED
    BY <1>0, <2>1, <2>7
<1>. QED
  BY <1>1, <1>2

(* Taking memory from the list: the range was free, and is all that goes.   *)
LEMMA AllocFacts ==
  ASSUME NEW blocks, Sorted(blocks), NEW m \in Nat, EndsIn(blocks, m),
         NEW size \in Nat \ {0}, m + size < Limit, Limit \in Nat,
         NEW start, start = blocks[BestFit(blocks, size)].offset,
         NEW d, d = tallocr_alloc(blocks, size)
  PROVE  /\ Sorted(d) /\ EndsIn(d, m + size) /\ start \in Nat
         /\ \A u \in Nat : InRange(start, size, u) => FreeIn(blocks, u)
         /\ \A u \in Nat : FreeIn(d, u) <=> FreeIn(blocks, u) /\ ~InRange(start, size, u)
<1>. DEFINE n == Len(blocks)
            i == BestFit(blocks, size)
<1>0. /\ n \in Nat /\ DOMAIN blocks = 1..n /\ n > 0 /\ n \in 1..n
      /\ \A k \in 1..n : /\ blocks[k] \in Blocks
                         /\ blocks[k].offset \in Nat /\ blocks[k].size \in Nat /\ blocks[k].size > 0
  BY BlockFacts DEF EndsIn
<1>1. \A k, l \in 1..n : k < l => blocks[k].offset + blocks[k].size < blocks[l].offset
  BY DEF Sorted
<1>2. blocks[n].offset + blocks[n].size = Limit /\ blocks[n].offset <= m
  BY DEF EndsIn
<1>3. blocks[n].size > size
  BY <1>0, <1>2
<1>. HIDE DEF n, i
<1>4. /\ i \in 1..n /\ blocks[i].size >= size
      /\ blocks[i].size = size => i < n
  BY <1>0, <1>3, BestFits DEF n, i
<1>5. start = blocks[i].offset /\ start \in Nat
  BY <1>0, <1>4 DEF i
<1>6. ASSUME NEW u \in Nat, InRange(start, size, u) PROVE InBlock(blocks[i], u)
  BY <1>0, <1>4, <1>5, <1>6 DEF InRange, InBlock
<1>7. CASE blocks[i].size = size
  <2>0. blocks \in Seq(Blocks)
    BY DEF Sorted
  <2>1. d = RemoveAt(blocks, i)
    BY <1>7 DEF tallocr_alloc, i
  <2>2. /\ d \in Seq(Blocks) /\ Len(d) = n - 1
        /\ \A k \in 1..Len(d) : d[k] = IF k < i THEN blocks[k] ELSE blocks[k + 1]
    <3>1. i \in 1..Len(blocks)
      BY <1>4 DEF n
    <3>2. /\ d \in Seq(Blocks) /\ Len(d) = Len(blocks) - 1
          /\ \A k \in 1..Len(d) : d[k] = IF k < i THEN blocks[k] ELSE blocks[k + 1]
      BY ONLY <2>0, <2>1, <3>1, Removed
    <3>. QED
      BY <3>2 DEF n
  <2>3. DOMAIN d = 1..n - 1 /\ n - 1 > 0 /\ i < n
    BY <1>0, <1>4, <1>7, <2>2
  <2>4. Sorted(d)
    <3>1. ASSUME NEW k \in 1..n - 1, NEW l \in 1..n - 1, k < l
          PROVE  d[k].offset + d[k].size < d[l].offset
      <4>1. k \in 1..n /\ l \in 1..n /\ k + 1 \in 1..n /\ l + 1 \in 1..n
        BY <1>0
      <4>2. PICK k1 \in {k, k + 1}, l1 \in {l, l + 1} : k1 < l1 /\ d[k] = blocks[k1] /\ d[l] = blocks[l1]
        BY <1>0, <1>4, <2>2, <3>1
      <4>. QED
        BY <1>1, <4>1, <4>2
    <3>. QED
      BY <2>2, <3>1 DEF Sorted
  <2>5. EndsIn(d, m + size)
    <3>1. d[n - 1] = blocks[n]
      <4>1. n - 1 \in 1..Len(d) /\ ~(n - 1 < i) /\ (n - 1) + 1 = n
        BY <1>0, <1>4, <2>2, <2>3
      <4>. QED
        BY <2>2, <4>1
    <3>. QED
      BY <1>0, <1>2, <2>2, <2>3, <3>1 DEF EndsIn
  <2>6. ASSUME NEW u \in Nat PROVE FreeIn(d, u) <=> FreeIn(blocks, u) /\ ~InRange(start, size, u)
    <3>1. InRange(start, size, u) <=> InBlock(blocks[i], u)
      BY <1>5, <1>7 DEF InRange, InBlock
    <3>2. ASSUME NEW k \in 1..n, k # i, InBlock(blocks[k], u) PROVE FreeIn(d, u) /\ ~InBlock(blocks[i], u)
      <4>1. ~InBlock(blocks[i], u)
        BY <1>0, <1>1, <1>4, <3>2, SMTT(30) DEF InBlock
      <4>2. CASE k < i
        <5>1. k \in 1..n - 1 /\ d[k] = blocks[k]
          BY <1>0, <1>4, <2>2, <4>2
        <5>. QED
          BY <2>3, <3>2, <4>1, <5>1 DEF FreeIn
      <4>3. CASE k > i
        <5>1. k - 1 \in 1..n - 1 /\ ~(k - 1 < i) /\ (k - 1) + 1 = k
          BY <1>0, <1>4, <4>3
        <5>2. d[k - 1] = blocks[k]
          BY <2>2, <5>1
        <5>. QED
          BY <2>3, <3>2, <4>1, <5>1, <5>2 DEF FreeIn
      <4>. QED
        BY <1>0, <1>4, <3>2, <4>2, <4>3
    <3>3. ASSUME FreeIn(d, u) PROVE FreeIn(blocks, u) /\ ~InBlock(blocks[i], u)
      <4>1. PICK k \in 1..n - 1 : InBlock(d[k], u)
        BY <2>3, <3>3 DEF FreeIn
      <4>2. PICK l \in 1..n : l # i /\ d[k] = blocks[l]
        <5>1. k \in 1..n /\ k + 1 \in 1..n
          BY <1>0
        <5>2. k < i => k # i /\ d[k] = blocks[k]
          BY <1>0, <2>2, <1>4
        <5>3. ~(k < i) => k + 1 # i /\ d[k] = blocks[k + 1]
          BY <1>0, <2>2, <1>4
        <5>. QED
          BY <5>1, <5>2, <5>3
      <4>3. InBlock(blocks[l], u)
        BY <4>1, <4>2
      <4>. QED
        BY <1>0, <3>2, <4>2, <4>3 DEF FreeIn
    <3>. QED
      BY <1>0, <3>1, <3>2, <3>3 DEF FreeIn
  <2>. QED
    BY <1>0, <1>4, <1>5, <1>6, <2>4, <2>5, <2>6 DEF FreeIn
<1>8. CASE blocks[i].size # size
  <2>. DEFINE e == Block(blocks[i].offset + size, blocks[i].size - size)
  <2>0. blocks \in Seq(Blocks)
    BY DEF Sorted
  <2>1. d = [blocks EXCEPT ![i] = e]
    BY <1>8 DEF tallocr_alloc, i
  <2>2. e.offset = start + size /\ e.size = blocks[i].size - size /\ e \in Blocks
    BY <1>0, <1>4, <1>5, <1>8 DEF Block, Blocks
  <2>. HIDE DEF e
  <2>3. d \in Seq(Blocks) /\ Len(d) = n /\ DOMAIN d = 1..n
    BY <1>4, <2>0, <2>1, <2>2 DEF n
  <2>4. d[i] = e /\ \A k \in 1..n : k # i => d[k] = blocks[k]
    BY <1>0, <1>4, <2>1
  <2>5. Sorted(d)
    <3>1. ASSUME NEW k \in 1..n, NEW l \in 1..n, k < l
          PROVE  d[k].offset + d[k].size < d[l].offset
      <4>1. blocks[k].offset + blocks[k].size < blocks[l].offset
        BY <1>1, <3>1
      <4>2. d[k].offset + d[k].size = blocks[k].offset + blocks[k].size
        <5>1. CASE k = i
          <6>1. d[k] = e /\ blocks[i].size \in Nat
            BY <1>0, <1>4, <2>4, <5>1
          <6>2. e.offset + e.size = start + blocks[i].size
            BY <1>5, <2>2, <6>1
          <6>. QED
            BY <1>5, <5>1, <6>1, <6>2
        <5>2. CASE k # i
          BY <2>4, <5>2
        <5>. QED
          BY <5>1, <5>2
      <4>3. d[l].offset >= blocks[l].offset /\ d[l].offset \in Nat
        BY <1>0, <1>4, <1>5, <2>2, <2>4, SMTT(30)
      <4>. QED
        BY <1>0, <4>1, <4>2, <4>3
    <3>. QED
      BY <2>3, <3>1 DEF Sorted
  <2>6. EndsIn(d, m + size)
    <3>1. d[n].offset + d[n].size = Limit
      BY <1>0, <1>2, <1>4, <1>5, <2>2, <2>4, SMTT(30)
    <3>2. d[n].offset <= m + size
      BY <1>0, <1>2, <1>4, <1>5, <2>2, <2>4
    <3>. QED
      BY <1>0, <2>3, <3>1, <3>2 DEF EndsIn
  <2>7. ASSUME NEW u \in Nat PROVE FreeIn(d, u) <=> FreeIn(blocks, u) /\ ~InRange(start, size, u)
    <3>1. InBlock(d[i], u) <=> InBlock(blocks[i], u) /\ ~InRange(start, size, u)
      BY <1>0, <1>4, <1>5, <2>2, <2>4, SMTT(30) DEF InBlock, InRange
    <3>2. ASSUME NEW k \in 1..n, k # i, InBlock(blocks[k], u) PROVE ~InRange(start, size, u)
      <4>0. /\ blocks[i].offset \in Nat /\ blocks[i].size \in Nat
            /\ blocks[k].offset \in Nat /\ blocks[k].size \in Nat
        BY <1>0, <1>4
      <4>1. CASE k < i
        <5>1. blocks[k].offset + blocks[k].size < blocks[i].offset
          BY <1>1, <1>4, <4>1
        <5>. QED
          BY <1>5, <3>2, <4>0, <5>1 DEF InBlock, InRange
      <4>2. CASE i < k
        <5>1. blocks[i].offset + blocks[i].size < blocks[k].offset
          BY <1>1, <1>4, <4>2
        <5>. QED
          BY <1>4, <1>5, <3>2, <4>0, <5>1 DEF InBlock, InRange
      <4>. QED
        BY <1>0, <1>4, <3>2, <4>1, <4>2
    <3>. QED
      BY <1>0, <1>4, <2>3, <2>4, <3>1, <3>2 DEF FreeIn
  <2>. QED
    BY <1>0, <1>4, <1>5, <1>6, <2>5, <2>6, <2>7 DEF FreeIn
<1>. QED
  BY <1>7, <1>8

(* A range of taken memory lies before or after each block.                 *)
LEMMA Apart ==
  ASSUME NEW a \in Nat, NEW n \in Nat \ {0}, NEW b \in Nat, NEW k \in Nat \ {0},
         \A u \in Nat : ~(a <= u /\ u < a + n /\ b <= u /\ u < b + k)
  PROVE  a + n <= b \/ b + k <= a
<1>1. ~(a <= a /\ a < a + n /\ b <= a /\ a < b + k)
  OBVIOUS
<1>2. ~(a <= b /\ b < a + n /\ b <= b /\ b < b + k)
  OBVIOUS
<1>. QED
  BY <1>1, <1>2

(* Every block ends before the range starts or starts after its end, and    *)
(* the last one is no neighbour in front of it.                             *)
Beside(blocks, start, size) ==
  /\ \A k \in 1..Len(blocks) :
       blocks[k].offset + blocks[k].size <= start \/ start + size <= blocks[k].offset
  /\ blocks[Len(blocks)].offset >= start + size

LEMMA BesideFacts ==
  ASSUME NEW blocks, Sorted(blocks), NEW m \in Nat, EndsIn(blocks, m), Limit \in Nat,
         NEW start \in Nat, NEW size \in Nat \ {0}, start + size <= Limit,
         \A u \in Nat : InRange(start, size, u) => ~FreeIn(blocks, u)
  PROVE  Beside(blocks, start, size)
<1>. DEFINE n == Len(blocks)
<1>0. /\ n \in Nat /\ DOMAIN blocks = 1..n /\ n > 0 /\ n \in 1..n
      /\ \A k \in 1..n : blocks[k].offset \in Nat /\ blocks[k].size \in Nat /\ blocks[k].size > 0
  BY BlockFacts DEF EndsIn
<1>1. ASSUME NEW k \in 1..n
      PROVE  start + size <= blocks[k].offset \/ blocks[k].offset + blocks[k].size <= start
  <2>. DEFINE b == blocks[k].offset
              l == blocks[k].size
  <2>1. b \in Nat /\ l \in Nat \ {0}
    BY <1>0
  <2>2. \A u \in Nat : ~(start <= u /\ u < start + size /\ b <= u /\ u < b + l)
    BY <1>0 DEF InRange, FreeIn, InBlock
  <2>. HIDE DEF b, l
  <2>3. start + size <= b \/ b + l <= start
    BY ONLY <2>1, <2>2, Apart, start \in Nat, size \in Nat \ {0}
  <2>. QED
    BY <2>3 DEF b, l
<1>2. blocks[n].offset + blocks[n].size = Limit
  BY DEF EndsIn
<1>3. blocks[n].offset >= start + size
  BY <1>0, <1>1, <1>2
<1>. QED
  BY <1>1, <1>3 DEF Beside

(* No block touches the range: it becomes a block of its own.               *)
LEMMA NewBlock ==
  ASSUME NEW blocks, Sorted(blocks), NEW m \in Nat, EndsIn(blocks, m), Limit \in Nat,
         NEW start \in Nat, NEW size \in Nat \ {0}, Beside(blocks, start, size),
         \A k \in 1..Len(blocks) : /\ blocks[k].offset + blocks[k].size # start
                                   /\ start + size # blocks[k].offset,
         NEW d, d = InsertAt(blocks, Cardinality({k \in DOMAIN blocks : blocks[k].offset < start}) + 1,
                             Block(start, size))
  PROVE  /\ Sorted(d) /\ EndsIn(d, m)
         /\ \A u \in Nat : FreeIn(d, u) <=> FreeIn(blocks, u) \/ InRange(start, size, u)
<1>. DEFINE n == Len(blocks)
            after == {k \in 1..n : ~(blocks[k].offset < start)}
            before == {k \in DOMAIN blocks : blocks[k].offset < start}
            new == Block(start, size)
<1>0. /\ n \in Nat /\ DOMAIN blocks = 1..n /\ n > 0 /\ n \in 1..n /\ blocks \in Seq(Blocks)
      /\ \A k \in 1..n : blocks[k].offset \in Nat /\ blocks[k].size \in Nat /\ blocks[k].size > 0
  BY BlockFacts DEF EndsIn, Sorted
<1>1. \A k, l \in 1..n : k < l => blocks[k].offset + blocks[k].size < blocks[l].offset
  BY DEF Sorted
<1>2. ASSUME NEW k \in 1..n
      PROVE  blocks[k].offset + blocks[k].size < start \/ start + size < blocks[k].offset
  <2>1. blocks[k].offset + blocks[k].size <= start \/ start + size <= blocks[k].offset
    BY DEF Beside
  <2>2. blocks[k].offset + blocks[k].size # start /\ start + size # blocks[k].offset
    OBVIOUS
  <2>3. /\ blocks[k].offset \in Nat /\ blocks[k].size \in Nat
        /\ start \in Nat /\ size \in Nat
    BY <1>0
  <2>. QED
    BY ONLY <2>1, <2>2, <2>3
<1>3. n \in after /\ after \in SUBSET Nat /\ after # {}
  BY <1>0 DEF Beside
<1>4. PICK q \in after : \A k \in after : q <= k
  <2>. HIDE DEF after
  <2>. QED
    BY <1>3, LeastNat
<1>5. q \in 1..n /\ q - 1 \in Nat
  BY <1>0
<1>6. \A k \in 1..n : IF k < q THEN blocks[k].offset + blocks[k].size < start
                              ELSE start + size < blocks[k].offset
  <2>1. TAKE k \in 1..n
  <2>2. CASE k < q
    <3>1. k \notin after
      BY <1>0, <1>4, <1>5, <2>2
    <3>2. blocks[k].offset < start
      BY <3>1
    <3>. QED
      BY <1>0, <1>2, <2>2, <3>2
  <2>3. CASE k >= q
    <3>1. start + size < blocks[q].offset
      <4>1. ~(blocks[q].offset < start)
        BY <1>4
      <4>2. blocks[q].offset + blocks[q].size < start \/ start + size < blocks[q].offset
        BY <1>2, <1>5
      <4>3. blocks[q].offset \in Nat /\ blocks[q].size \in Nat
        BY <1>0, <1>5
      <4>. QED
        BY <4>1, <4>2, <4>3
    <3>2. CASE k = q
      BY <2>3, <3>1, <3>2
    <3>3. CASE k > q
      <4>1. blocks[q].offset + blocks[q].size < blocks[k].offset
        BY <1>1, <1>5, <3>3
      <4>. QED
        BY <1>0, <1>5, <2>3, <3>1, <4>1
    <3>. QED
      BY <1>5, <2>3, <3>2, <3>3
  <2>. QED
    BY <1>5, <2>2, <2>3
<1>7. before = 1..q - 1
  <2>1. ASSUME NEW k \in 1..n PROVE blocks[k].offset < start <=> k \in 1..q - 1
    <3>0. blocks[k].offset \in Nat /\ blocks[k].size \in Nat
      BY <1>0
    <3>1. CASE k < q
      <4>1. blocks[k].offset + blocks[k].size < start
        BY <1>6, <3>1
      <4>. QED
        BY <1>5, <3>0, <3>1, <4>1
    <3>2. CASE ~(k < q)
      <4>1. start + size < blocks[k].offset
        BY <1>6, <3>2
      <4>. QED
        BY <1>5, <3>0, <3>2, <4>1
    <3>. QED
      BY <3>1, <3>2
  <2>2. 1..q - 1 \subseteq 1..n
    BY <1>0, <1>5
  <2>. QED
    BY <1>0, <2>1, <2>2
<1>8. Cardinality(before) + 1 = q
  <2>1. Cardinality(1..q - 1) = q - 1
    BY <1>5, FS_Interval
  <2>2. Cardinality(before) = q - 1
    BY <1>7, <2>1
  <2>. HIDE DEF before
  <2>. QED
    BY <1>5, <2>2
<1>9. new \in Blocks /\ new.offset = start /\ new.size = size
  BY DEF Block, Blocks
<1>10. d = InsertAt(blocks, q, new)
  BY <1>8
<1>. HIDE DEF n, after, before, new
<1>11. /\ d \in Seq(Blocks) /\ Len(d) = n + 1 /\ d[q] = new
       /\ \A k \in 1..q - 1 : d[k] = blocks[k]
       /\ \A k \in q + 1..n + 1 : d[k] = blocks[k - 1]
  <2>0. q \in 1..Len(blocks) /\ blocks \in Seq(Blocks) /\ new \in Blocks
    BY <1>0, <1>5, <1>9 DEF n
  <2>1. /\ d \in Seq(Blocks) /\ Len(d) = Len(blocks) + 1 /\ d[q] = new
        /\ \A k \in 1..q - 1 : d[k] = blocks[k]
        /\ \A k \in q + 1..Len(blocks) + 1 : d[k] = blocks[k - 1]
    BY ONLY <2>0, <1>10, Inserted, SMTT(30)
  <2>. QED
    BY <2>1 DEF n
<1>12. DOMAIN d = 1..n + 1 /\ d[q] = new /\ q \in 1..n + 1
  BY <1>0, <1>5, <1>11
<1>13. \A k \in 1..n : /\ k < q => k \in 1..n + 1 /\ d[k] = blocks[k]
                       /\ k >= q => k + 1 \in 1..n + 1 /\ d[k + 1] = blocks[k]
  <2>1. TAKE k \in 1..n
  <2>2. k < q => k \in 1..q - 1 /\ k \in 1..n + 1
    BY <1>0, <1>5
  <2>3. k >= q => k + 1 \in q + 1..n + 1 /\ k + 1 \in 1..n + 1 /\ (k + 1) - 1 = k
    BY <1>0, <1>5
  <2>. QED
    BY <1>11, <2>2, <2>3
<1>14. \A k \in 1..n + 1 : \/ k < q /\ k \in 1..n /\ d[k] = blocks[k]
                           \/ k = q
                           \/ k > q /\ k - 1 \in 1..n /\ k - 1 >= q /\ d[k] = blocks[k - 1]
  <2>1. TAKE k \in 1..n + 1
  <2>2. \/ k < q /\ k \in 1..q - 1 /\ k \in 1..n
        \/ k = q
        \/ k > q /\ k - 1 \in 1..n /\ k - 1 >= q /\ k \in q + 1..n + 1
    BY <1>0, <1>5
  <2>. QED
    BY <1>11, <2>2
<1>15. Sorted(d)
  <2>1. ASSUME NEW k \in 1..n + 1, NEW l \in 1..n + 1, k < l
        PROVE  d[k].offset + d[k].size < d[l].offset
    <3>1. CASE l < q
      <4>1. k < q
        BY <1>5, <2>1, <3>1
      <4>. QED
        BY <1>1, <1>5, <1>14, <2>1, <3>1, <4>1
    <3>2. CASE l = q
      BY <1>5, <1>6, <1>9, <1>12, <1>14, <2>1, <3>2
    <3>3. CASE k = q
      <4>1. l - 1 \in 1..n /\ ~(l - 1 < q) /\ d[l] = blocks[l - 1]
        BY <1>5, <1>14, <2>1, <3>3
      <4>2. start + size < blocks[l - 1].offset
        BY <1>6, <4>1
      <4>. QED
        BY <1>9, <1>12, <3>3, <4>1, <4>2
    <3>4. CASE k < q /\ l > q
      <4>1. l - 1 \in 1..n /\ k \in 1..n /\ d[l] = blocks[l - 1] /\ d[k] = blocks[k] /\ k < l - 1
        BY <1>5, <1>14, <3>4
      <4>. QED
        BY <1>1, <4>1
    <3>5. CASE k > q
      <4>1. l - 1 \in 1..n /\ k - 1 \in 1..n /\ d[l] = blocks[l - 1] /\ d[k] = blocks[k - 1] /\ k - 1 < l - 1
        BY <1>5, <1>14, <2>1, <3>5
      <4>. QED
        BY <1>1, <4>1
    <3>. QED
      BY <1>0, <1>5, <2>1, <3>1, <3>2, <3>3, <3>4, <3>5
  <2>. QED
    BY <1>11, <2>1 DEF Sorted
<1>16. EndsIn(d, m)
  <2>1. d[n + 1] = blocks[n] /\ Len(d) = n + 1
    BY <1>0, <1>5, <1>11, <1>13
  <2>. QED
    BY <1>0, <2>1 DEF EndsIn, n
<1>17. ASSUME NEW u \in Nat PROVE FreeIn(d, u) <=> FreeIn(blocks, u) \/ InRange(start, size, u)
  <2>1. InBlock(new, u) <=> InRange(start, size, u)
    BY <1>9 DEF InBlock, InRange
  <2>2. InRange(start, size, u) => FreeIn(d, u)
    BY <1>12, <2>1 DEF FreeIn
  <2>3. FreeIn(blocks, u) => FreeIn(d, u)
    <3>1. ASSUME NEW k \in 1..n, InBlock(blocks[k], u) PROVE FreeIn(d, u)
      <4>1. CASE k < q
        BY <1>12, <1>13, <3>1, <4>1 DEF FreeIn
      <4>2. CASE k >= q
        BY <1>12, <1>13, <3>1, <4>2 DEF FreeIn
      <4>. QED
        BY <1>5, <4>1, <4>2
    <3>. QED
      BY <1>0, <3>1 DEF FreeIn
  <2>4. FreeIn(d, u) => FreeIn(blocks, u) \/ InRange(start, size, u)
    <3>1. ASSUME NEW k \in 1..n + 1, InBlock(d[k], u) PROVE FreeIn(blocks, u) \/ InRange(start, size, u)
      BY <1>0, <1>12, <1>14, <2>1, <3>1 DEF FreeIn
    <3>. QED
      BY <1>12, <3>1 DEF FreeIn
  <2>. QED
    BY <2>2, <2>3, <2>4
<1>. QED
  BY <1>15, <1>16, <1>17

(* The block in front of the range grows, and swallows the one behind it    *)
(* when the gap is closed.                                                  *)
LEMMA GrownBack ==
  ASSUME NEW blocks, Sorted(blocks), NEW m \in Nat, EndsIn(blocks, m), Limit \in Nat,
         NEW start \in Nat, NEW size \in Nat \ {0}, Beside(blocks, start, size),
         NEW i \in 1..Len(blocks), blocks[i].offset + blocks[i].size = start,
         NEW d, d = MergeAfter(Grown(blocks, i, size), i)
  PROVE  /\ Sorted(d) /\ EndsIn(d, m)
         /\ \A u \in Nat : FreeIn(d, u) <=> FreeIn(blocks, u) \/ InRange(start, size, u)
<1>. DEFINE n == Len(blocks)
            g == Grown(blocks, i, size)
            new == Block(blocks[i].offset, blocks[i].size + size)
<1>0. /\ n \in Nat /\ DOMAIN blocks = 1..n /\ n > 0 /\ n \in 1..n /\ blocks \in Seq(Blocks)
      /\ \A k \in 1..n : blocks[k].offset \in Nat /\ blocks[k].size \in Nat /\ blocks[k].size > 0
  BY BlockFacts DEF EndsIn, Sorted
<1>1. \A k, l \in 1..n : k < l => blocks[k].offset + blocks[k].size < blocks[l].offset
  BY DEF Sorted
<1>2. blocks[n].offset >= start + size /\ blocks[n].offset + blocks[n].size = Limit /\ blocks[n].offset <= m
  BY DEF Beside, EndsIn
<1>3. i < n
  BY <1>0, <1>2
<1>4. i + 1 \in 1..n /\ i \in 1..n
  BY <1>0, <1>3
<1>5. start + size <= blocks[i + 1].offset
  <2>1. blocks[i].offset + blocks[i].size < blocks[i + 1].offset
    BY <1>1, <1>4
  <2>2. blocks[i + 1].offset + blocks[i + 1].size <= start \/ start + size <= blocks[i + 1].offset
    BY <1>4 DEF Beside
  <2>. QED
    BY <1>0, <1>4, <2>1, <2>2
<1>6. new \in Blocks /\ new.offset = blocks[i].offset /\ new.size = blocks[i].size + size
  <2>1. blocks[i].offset \in Nat /\ blocks[i].size + size \in Nat \ {0}
    BY <1>0, <1>4
  <2>. QED
    BY <2>1 DEF Block, Blocks
<1>7. g = [blocks EXCEPT ![i] = new]
  BY DEF Grown
<1>. HIDE DEF n, g, new
<1>8. /\ g \in Seq(Blocks) /\ Len(g) = n /\ DOMAIN g = 1..n
      /\ g[i] = new /\ \A k \in 1..n : k # i => g[k] = blocks[k]
  BY <1>0, <1>4, <1>6, <1>7 DEF n
<1>9. new.offset + new.size = start + size
  <2>1. blocks[i].offset \in Nat /\ blocks[i].size \in Nat
    BY <1>0, <1>4
  <2>2. blocks[i].offset + (blocks[i].size + size) = (blocks[i].offset + blocks[i].size) + size
    BY <2>1
  <2>. QED
    BY <1>6, <2>2
<1>10. g[i + 1] = blocks[i + 1]
  BY <1>4, <1>8
<1>11. \A k \in 1..n : k < i => blocks[k].offset + blocks[k].size < new.offset
  BY <1>1, <1>4, <1>6
<1>12. CASE new.offset + new.size # blocks[i + 1].offset
  <2>1. d = g
    BY <1>3, <1>8, <1>10, <1>12 DEF MergeAfter, EndOf, g
  <2>2. start + size < blocks[i + 1].offset
    <3>1. blocks[i + 1].offset \in Nat /\ start + size # blocks[i + 1].offset
      BY <1>0, <1>4, <1>9, <1>12
    <3>. QED
      BY <1>5, <3>1
  <2>3. \A k \in 1..n : k > i => start + size < blocks[k].offset
    <3>1. TAKE k \in 1..n
    <3>2. k > i + 1 => blocks[i + 1].offset + blocks[i + 1].size < blocks[k].offset
      BY <1>1, <1>4
    <3>. QED
      BY <1>0, <1>4, <2>2, <3>2, SMTT(30)
  <2>4. Sorted(d)
    <3>1. ASSUME NEW k \in 1..n, NEW l \in 1..n, k < l
          PROVE  g[k].offset + g[k].size < g[l].offset
      BY <1>1, <1>8, <1>9, <1>11, <2>3, <3>1, SMTT(30)
    <3>. QED
      BY <1>8, <2>1, <3>1 DEF Sorted
  <2>5. EndsIn(d, m)
    BY <1>0, <1>2, <1>3, <1>8, <2>1 DEF EndsIn
  <2>6. ASSUME NEW u \in Nat PROVE FreeIn(d, u) <=> FreeIn(blocks, u) \/ InRange(start, size, u)
    <3>1. InBlock(new, u) <=> InBlock(blocks[i], u) \/ InRange(start, size, u)
      BY <1>0, <1>4, <1>6, <1>9, SMTT(30) DEF InBlock, InRange
    <3>. QED
      BY <1>0, <1>4, <1>8, <2>1, <3>1 DEF FreeIn
  <2>. QED
    BY <2>4, <2>5, <2>6
<1>13. CASE new.offset + new.size = blocks[i + 1].offset
  <2>. DEFINE h == Grown(g, i, g[i + 1].size)
              big == Block(g[i].offset, g[i].size + g[i + 1].size)
  <2>1. d = RemoveAt(h, i + 1)
    BY <1>3, <1>8, <1>10, <1>13 DEF MergeAfter, EndOf, g
  <2>2. big \in Blocks /\ big.offset = blocks[i].offset /\ big.size = new.size + blocks[i + 1].size
    <3>1. g[i].offset = blocks[i].offset /\ g[i].size = new.size /\ g[i + 1].size = blocks[i + 1].size
      BY <1>6, <1>8, <1>10
    <3>2. blocks[i].offset \in Nat /\ new.size \in Nat \ {0} /\ blocks[i + 1].size \in Nat
      BY <1>0, <1>4, <1>6
    <3>3. new.size + blocks[i + 1].size \in Nat \ {0}
      <4>. DEFINE x == new.size
                  y == blocks[i + 1].size
      <4>1. x \in Nat \ {0} /\ y \in Nat
        BY <3>2
      <4>. HIDE DEF x, y
      <4>2. x + y \in Nat \ {0}
        BY <4>1
      <4>. QED
        BY <4>2 DEF x, y
    <3>. QED
      BY <3>1, <3>2, <3>3 DEF Block, Blocks
  <2>3. h = [g EXCEPT ![i] = big]
    BY DEF Grown
  <2>. HIDE DEF h, big
  <2>4. /\ h \in Seq(Blocks) /\ Len(h) = n
        /\ h[i] = big /\ \A k \in 1..n : k # i => h[k] = blocks[k]
    BY <1>4, <1>8, <2>2, <2>3
  <2>5. i + 1 \in 1..Len(h)
    BY <1>4, <2>4
  <2>6. /\ d \in Seq(Blocks) /\ Len(d) = Len(h) - 1
        /\ \A k \in 1..Len(d) : d[k] = IF k < i + 1 THEN h[k] ELSE h[k + 1]
    <3>. DEFINE j == i + 1
    <3>1. j \in 1..Len(h) /\ d = RemoveAt(h, j)
      BY <2>1, <2>5
    <3>. HIDE DEF j
    <3>2. /\ d \in Seq(Blocks) /\ Len(d) = Len(h) - 1
          /\ \A k \in 1..Len(d) : d[k] = IF k < j THEN h[k] ELSE h[k + 1]
      BY ONLY <2>4, <3>1, Removed
    <3>. QED
      BY <3>2 DEF j
  <2>7. DOMAIN d = 1..n - 1 /\ Len(d) = n - 1 /\ i \in 1..n - 1 /\ n - 1 \in Nat
    BY <1>0, <1>3, <2>4, <2>6
  <2>8. d[i] = big
    BY <1>4, <2>4, <2>6, <2>7
  <2>9. \A k \in 1..n - 1 : \/ k < i /\ k \in 1..n /\ d[k] = blocks[k]
                            \/ k = i
                            \/ k > i /\ k + 1 \in 1..n /\ d[k] = blocks[k + 1]
    <3>1. TAKE k \in 1..n - 1
    <3>2. d[k] = IF k < i + 1 THEN h[k] ELSE h[k + 1]
      BY <2>6, <2>7
    <3>3. CASE k < i
      <4>1. k \in 1..n /\ k # i /\ k < i + 1
        BY <1>0, <1>4, <3>3
      <4>. QED
        BY <2>4, <3>2, <3>3, <4>1
    <3>4. CASE k > i
      <4>1. k + 1 \in 1..n /\ k + 1 # i /\ ~(k < i + 1)
        BY <1>0, <1>4, <3>4
      <4>. QED
        BY <2>4, <3>2, <3>4, <4>1
    <3>. QED
      BY <1>4, <3>3, <3>4
  <2>10. big.offset = new.offset /\ big.offset + big.size = blocks[i + 1].offset + blocks[i + 1].size
    BY <1>0, <1>4, <1>6, <1>13, <2>2
  <2>11. Sorted(d)
    <3>1. ASSUME NEW k \in 1..n - 1, NEW l \in 1..n - 1, k < l
          PROVE  d[k].offset + d[k].size < d[l].offset
      <4>1. CASE l < i
        <5>1. k \in 1..n /\ l \in 1..n /\ d[k] = blocks[k] /\ d[l] = blocks[l]
          BY <1>4, <2>9, <3>1, <4>1
        <5>. QED
          BY <1>1, <3>1, <5>1
      <4>2. CASE l = i
        <5>1. k \in 1..n /\ d[k] = blocks[k]
          BY <1>4, <2>9, <3>1, <4>2
        <5>. QED
          BY <1>11, <2>8, <2>10, <3>1, <4>2, <5>1
      <4>3. CASE k = i
        <5>1. l + 1 \in 1..n /\ d[l] = blocks[l + 1] /\ i + 1 < l + 1
          BY <1>4, <2>9, <3>1, <4>3
        <5>2. blocks[i + 1].offset + blocks[i + 1].size < blocks[l + 1].offset
          BY <1>1, <1>4, <5>1
        <5>. QED
          BY <2>8, <2>10, <4>3, <5>1, <5>2
      <4>4. CASE k < i /\ l > i
        <5>1. k \in 1..n /\ l + 1 \in 1..n /\ d[k] = blocks[k] /\ d[l] = blocks[l + 1] /\ k < l + 1
          BY <1>4, <2>9, <4>4
        <5>. QED
          BY <1>1, <5>1
      <4>5. CASE k > i
        <5>1. k + 1 \in 1..n /\ l + 1 \in 1..n /\ d[k] = blocks[k + 1] /\ d[l] = blocks[l + 1] /\ k + 1 < l + 1
          BY <1>4, <2>9, <3>1, <4>5
        <5>. QED
          BY <1>1, <5>1
      <4>. QED
        BY <1>4, <3>1, <4>1, <4>2, <4>3, <4>4, <4>5
    <3>. QED
      BY <2>6, <2>7, <3>1 DEF Sorted
  <2>12. EndsIn(d, m)
    <3>1. CASE n - 1 = i
      <4>1. i + 1 = n /\ blocks[i].offset <= blocks[n].offset
        BY <1>0, <1>1, <1>4, <3>1
      <4>2. d[n - 1].offset + d[n - 1].size = Limit /\ d[n - 1].offset <= m
        BY <1>0, <1>2, <1>4, <1>6, <2>8, <2>10, <3>1, <4>1, SMTT(30)
      <4>. QED
        BY <2>7, <4>2 DEF EndsIn
    <3>2. CASE n - 1 # i
      <4>1. n - 1 \in 1..n - 1 /\ n - 1 > i /\ (n - 1) + 1 = n
        BY <1>0, <1>4, <2>7, <3>2
      <4>2. d[n - 1] = blocks[n]
        BY <1>4, <2>9, <4>1
      <4>. QED
        BY <1>2, <2>7, <4>1, <4>2 DEF EndsIn
    <3>. QED
      BY <3>1, <3>2
  <2>13. ASSUME NEW u \in Nat PROVE FreeIn(d, u) <=> FreeIn(blocks, u) \/ InRange(start, size, u)
    <3>1. InBlock(big, u) <=> InBlock(blocks[i], u) \/ InRange(start, size, u) \/ InBlock(blocks[i + 1], u)
      <4>1. InBlock(big, u) <=> new.offset <= u /\ u < blocks[i + 1].offset + blocks[i + 1].size
        BY <2>10 DEF InBlock
      <4>. QED
        <5>1. /\ blocks[i].offset \in Nat /\ blocks[i].size \in Nat
              /\ blocks[i + 1].offset \in Nat /\ blocks[i + 1].size \in Nat
          BY <1>0, <1>4
        <5>2. start + size = blocks[i + 1].offset /\ new.offset = blocks[i].offset
          BY <1>6, <1>9, <1>13
        <5>. DEFINE x == blocks[i].offset
                    y == blocks[i + 1].offset
                    z == blocks[i + 1].size
        <5>3. InBlock(big, u) <=> x <= u /\ u < y + z
          BY <4>1, <5>2
        <5>4. InBlock(blocks[i], u) <=> x <= u /\ u < start
          BY DEF InBlock
        <5>5. InRange(start, size, u) <=> start <= u /\ u < y
          BY <5>2 DEF InRange
        <5>6. InBlock(blocks[i + 1], u) <=> y <= u /\ u < y + z
          BY DEF InBlock
        <5>7. x <= start /\ start <= y /\ x \in Nat /\ y \in Nat /\ z \in Nat
          BY <5>1, <5>2, SMTT(30)
        <5>. HIDE DEF x, y, z
        <5>. QED
          BY ONLY <5>3, <5>4, <5>5, <5>6, <5>7, start \in Nat, u \in Nat
    <3>2. ASSUME FreeIn(d, u) PROVE FreeIn(blocks, u) \/ InRange(start, size, u)
      <4>1. PICK k \in 1..n - 1 : InBlock(d[k], u)
        BY <2>7, <3>2 DEF FreeIn
      <4>2. CASE k = i
        BY <1>0, <1>4, <2>8, <3>1, <4>1, <4>2 DEF FreeIn
      <4>3. CASE k # i
        BY <1>0, <2>9, <4>1, <4>3 DEF FreeIn
      <4>. QED
        BY <4>2, <4>3
    <3>3. ASSUME NEW k \in 1..n, InBlock(blocks[k], u) PROVE FreeIn(d, u)
      <4>1. CASE k = i \/ k = i + 1
        BY <2>7, <2>8, <3>1, <3>3, <4>1 DEF FreeIn
      <4>2. CASE k < i
        <5>0. k \in 1..n - 1 /\ ~(k = i) /\ ~(k > i)
          BY <1>0, <1>4, <2>7, <4>2
        <5>1. k \in 1..n - 1 /\ d[k] = blocks[k]
          BY <2>9, <5>0
        <5>. QED
          BY <2>7, <3>3, <5>1 DEF FreeIn
      <4>3. CASE k > i + 1
        <5>1. k - 1 \in 1..n - 1 /\ k - 1 > i /\ (k - 1) + 1 = k
          BY <1>0, <1>4, <2>7, <4>3
        <5>2. d[k - 1] = blocks[k]
          BY <1>4, <2>9, <5>1
        <5>. QED
          BY <2>7, <3>3, <5>1, <5>2 DEF FreeIn
      <4>. QED
        BY <1>4, <4>1, <4>2, <4>3
    <3>4. InRange(start, size, u) => FreeIn(d, u)
      BY <2>7, <2>8, <3>1 DEF FreeIn
    <3>. QED
      BY <1>0, <3>2, <3>3, <3>4 DEF FreeIn
  <2>. QED
    BY <2>11, <2>12, <2>13
<1>. QED
  BY <1>12, <1>13

(* The block behind the range grows; none ends where the range starts.      *)
LEMMA GrownFront ==
  ASSUME NEW blocks, Sorted(blocks), NEW m \in Nat, EndsIn(blocks, m), Limit \in Nat,
         NEW start \in Nat, NEW size \in Nat \ {0}, Beside(blocks, start, size),
         NEW i \in 1..Len(blocks), start + size = blocks[i].offset,
         \A k \in 1..Len(blocks) : k < i => blocks[k].offset + blocks[k].size # start,
         NEW d \in Seq(Blocks), Len(d) = Len(blocks),
         d[i].offset = start, d[i].size = blocks[i].size + size,
         \A k \in 1..Len(blocks) : k # i => d[k] = blocks[k]
  PROVE  /\ Sorted(d) /\ EndsIn(d, m)
         /\ \A u \in Nat : FreeIn(d, u) <=> FreeIn(blocks, u) \/ InRange(start, size, u)
<1>. DEFINE n == Len(blocks)
<1>0. /\ n \in Nat /\ DOMAIN blocks = 1..n /\ n > 0 /\ n \in 1..n /\ blocks \in Seq(Blocks)
      /\ \A k \in 1..n : blocks[k].offset \in Nat /\ blocks[k].size \in Nat /\ blocks[k].size > 0
  BY ONLY Sorted(blocks), EndsIn(blocks, m), BlockFacts DEF EndsIn, Sorted
<1>1. \A k, l \in 1..n : k < l => blocks[k].offset + blocks[k].size < blocks[l].offset
  BY DEF Sorted
<1>2. blocks[n].offset + blocks[n].size = Limit /\ blocks[n].offset <= m
  BY DEF EndsIn
<1>3. i \in 1..n
  OBVIOUS
<1>4. ASSUME NEW k \in 1..n, k < i PROVE blocks[k].offset + blocks[k].size < start
  <2>1. blocks[k].offset + blocks[k].size <= start \/ start + size <= blocks[k].offset
    BY DEF Beside
  <2>2. blocks[k].offset + blocks[k].size < blocks[i].offset
    BY <1>1, <1>3, <1>4
  <2>3. blocks[k].offset + blocks[k].size # start
    BY <1>4
  <2>4. /\ blocks[k].offset \in Nat /\ blocks[k].size \in Nat /\ blocks[k].size > 0
        /\ blocks[i].offset \in Nat
    BY <1>0, <1>3
  <2>5. ~(start + size <= blocks[k].offset)
    <3>1. start + size = blocks[i].offset
      OBVIOUS
    <3>. QED
      BY ONLY <2>2, <2>4, <3>1
  <2>. QED
    BY ONLY <2>1, <2>3, <2>4, <2>5, start \in Nat, SMTT(30)
<1>5. DOMAIN d = 1..n /\ \A k \in 1..n : k # i => d[k] = blocks[k]
  OBVIOUS
<1>6. Len(d) = n
  OBVIOUS
<1>. HIDE DEF n
<1>8. d[i].offset + d[i].size = blocks[i].offset + blocks[i].size
  <2>1. blocks[i].size \in Nat
    BY <1>0, <1>3
  <2>2. start + (blocks[i].size + size) = (start + size) + blocks[i].size
    BY <2>1
  <2>. QED
    BY <2>2
<1>10. Sorted(d)
  <2>1. ASSUME NEW k \in 1..n, NEW l \in 1..n, k < l
        PROVE  d[k].offset + d[k].size < d[l].offset
    <3>1. CASE l = i
      BY <1>4, <1>5, <2>1, <3>1
    <3>2. CASE k = i
      BY <1>1, <1>3, <1>5, <1>8, <2>1, <3>2
    <3>3. CASE k # i /\ l # i
      BY <1>1, <1>5, <2>1, <3>3
    <3>. QED
      BY <3>1, <3>2, <3>3
  <2>. QED
    BY <1>6, <2>1 DEF Sorted
<1>11. EndsIn(d, m)
  <2>1. d[n].offset + d[n].size = Limit /\ d[n].offset <= m
    <3>1. CASE n = i
      BY <1>0, <1>2, <1>3, <1>8, <3>1
    <3>2. CASE n # i
      BY <1>0, <1>2, <1>5, <3>2
    <3>. QED
      BY <3>1, <3>2
  <2>. QED
    BY <1>0, <1>6, <2>1 DEF EndsIn
<1>12. ASSUME NEW u \in Nat PROVE FreeIn(d, u) <=> FreeIn(blocks, u) \/ InRange(start, size, u)
  <2>1. InBlock(d[i], u) <=> InBlock(blocks[i], u) \/ InRange(start, size, u)
    <3>1. InBlock(d[i], u) <=> start <= u /\ u < blocks[i].offset + blocks[i].size
      BY <1>8 DEF InBlock
    <3>. QED
      BY <1>0, <1>3, <3>1 DEF InBlock, InRange
  <2>. QED
    BY <1>0, <1>3, <1>5, <2>1 DEF FreeIn
<1>. QED
  BY <1>10, <1>11, <1>12

(* Giving memory back: the range is free afterwards, and is all that comes. *)
LEMMA FreeFacts ==
  ASSUME NEW blocks, Sorted(blocks), NEW m \in Nat, EndsIn(blocks, m), Limit \in Nat,
         NEW start \in Nat, NEW size \in Nat \ {0}, start + size <= Limit,
         \A u \in Nat : InRange(start, size, u) => ~FreeIn(blocks, u),
         NEW d, d = tallocr_free(blocks, start, size)
  PROVE  /\ Sorted(d) /\ EndsIn(d, m)
         /\ \A u \in Nat : FreeIn(d, u) <=> FreeIn(blocks, u) \/ InRange(start, size, u)
<1>. DEFINE touched == {i \in DOMAIN blocks : EndOf(blocks[i]) = start \/ start + size = blocks[i].offset}
            i == CHOOSE k \in touched : \A l \in touched : k <= l
            new == Block(start, blocks[i].size + size)
            g == [blocks EXCEPT ![i] = new]
<1>0. Len(blocks) \in Nat /\ DOMAIN blocks = 1..Len(blocks)
  BY BlockFacts
<1>1. Beside(blocks, start, size)
  BY BesideFacts
<1>2. CASE touched = {}
  <2>1. \A k \in 1..Len(blocks) : /\ blocks[k].offset + blocks[k].size # start
                                  /\ start + size # blocks[k].offset
    BY <1>0, <1>2 DEF EndOf
  <2>2. d = InsertAt(blocks, Cardinality({k \in DOMAIN blocks : blocks[k].offset < start}) + 1,
                     Block(start, size))
    BY <1>2 DEF tallocr_free
  <2>. HIDE DEF touched, i, g, new
  <2>. QED
    BY <1>1, <2>1, <2>2, NewBlock
<1>3. CASE touched # {}
  <2>1. touched \in SUBSET Nat
    BY <1>0
  <2>2. i \in touched /\ \A l \in touched : i <= l
    <3>. HIDE DEF touched
    <3>1. \E k \in touched : \A l \in touched : k <= l
      BY <1>3, <2>1, LeastNat
    <3>. QED
      BY <3>1
  <2>3. i \in 1..Len(blocks) /\ (EndOf(blocks[i]) = start \/ start + size = blocks[i].offset)
    BY <1>0, <2>2
  <2>4. \A k \in 1..Len(blocks) : k < i => blocks[k].offset + blocks[k].size # start
    <3>1. TAKE k \in 1..Len(blocks)
    <3>2. blocks[k].offset + blocks[k].size = start => k \in touched
      BY <1>0 DEF EndOf
    <3>. QED
      BY <2>2, <2>3, <3>2
  <2>5. d = IF EndOf(blocks[i]) = start THEN MergeAfter(Grown(blocks, i, size), i)
            ELSE IF i > 1 THEN MergeAfter(g, i - 1) ELSE g
    BY <1>3 DEF tallocr_free
  <2>6. CASE EndOf(blocks[i]) = start
    <3>1. blocks[i].offset + blocks[i].size = start
      BY <2>6 DEF EndOf
    <3>2. d = MergeAfter(Grown(blocks, i, size), i)
      BY <2>5, <2>6
    <3>. HIDE DEF touched, i, g, new
    <3>. QED
      BY <1>1, <2>3, <3>1, <3>2, GrownBack
  <2>7. CASE EndOf(blocks[i]) # start
    <3>1. start + size = blocks[i].offset
      BY <2>3, <2>7
    <3>2. d = IF i > 1 THEN MergeAfter(g, i - 1) ELSE g
      BY <2>5, <2>7
    <3>3. new.offset = start /\ new.size = blocks[i].size + size /\ new \in Blocks
      <4>1. blocks[i].size + size \in Nat \ {0}
        BY <2>3, BlockFacts
      <4>. QED
        BY <4>1 DEF Block, Blocks
    <3>4. i \in 1..Len(blocks) /\ blocks \in Seq(Blocks)
      BY <2>3 DEF Sorted
    <3>. HIDE DEF touched, i, new
    <3>5. /\ g \in Seq(Blocks) /\ Len(g) = Len(blocks) /\ g[i] = new
          /\ \A k \in 1..Len(blocks) : k # i => g[k] = blocks[k]
      BY <1>0, <3>3, <3>4
    <3>. HIDE DEF g
    <3>6. d = g
      <4>1. CASE i > 1
        <5>. DEFINE j == i - 1
        <5>1. j \in 1..Len(blocks) /\ j < i /\ j + 1 = i /\ j # i
          BY <1>0, <3>4, <4>1
        <5>2. d = MergeAfter(g, j)
          BY <3>2, <4>1
        <5>. HIDE DEF j
        <5>3. g[j] = blocks[j] /\ g[j + 1] = new
          BY <3>5, <5>1
        <5>4. EndOf(g[j]) # g[j + 1].offset
          BY <2>4, <3>3, <5>1, <5>3 DEF EndOf
        <5>. QED
          BY <5>2, <5>4 DEF MergeAfter
      <4>. QED
        BY <3>2, <4>1
    <3>7. /\ d \in Seq(Blocks) /\ Len(d) = Len(blocks) /\ i \in 1..Len(blocks)
          /\ d[i].offset = start /\ d[i].size = blocks[i].size + size
          /\ \A k \in 1..Len(blocks) : k # i => d[k] = blocks[k]
      BY <3>3, <3>4, <3>5, <3>6
    <3>8. /\ Sorted(d) /\ EndsIn(d, m)
          /\ \A u \in Nat : FreeIn(d, u) <=> FreeIn(blocks, u) \/ InRange(start, size, u)
      BY ONLY Sorted(blocks), m \in Nat, EndsIn(blocks, m), Limit \in Nat, start \in Nat, size \in Nat \ {0},
              <1>1, <2>4, <3>1, <3>7, GrownFront
    <3>. QED
      BY <3>8
  <2>. QED
    BY <2>6, <2>7
<1>. QED
  BY <1>2, <1>3

(***************************************************************************)
(* The graph.                                                              *)
(***************************************************************************)
Total == NLeafs + NNodes

(* The tensor whose memory x stands for. *)
Root(x) == IF IsView(x) THEN graph[x].view_src ELSE x

LeafOK(t) ==
  /\ graph[t].op = "none" /\ graph[t].src = <<>> /\ graph[t].view_src = 0
  /\ ~graph[t].output

(* A node reads tensors before it; a view stands for one of its own size    *)
(* that is no view.                                                         *)
NodeOK(t) ==
  /\ graph[t].op # "none"
  /\ Len(graph[t].src) <= MaxSrc
  /\ \A j \in 1..Len(graph[t].src) : graph[t].src[j] \in 1..t - 1
  /\ IF IsView(t)
       THEN /\ graph[t].view_src \in 1..t - 1 /\ ~IsView(graph[t].view_src)
            /\ graph[t].size = graph[graph[t].view_src].size /\ ~graph[t].output
       ELSE graph[t].view_src = 0

GraphOK ==
  /\ graph \in Seq(Tensor) /\ Len(graph) \in NLeafs..Total
  /\ \A t \in 1..NLeafs : LeafOK(t)
  /\ \A t \in NLeafs + 1..Len(graph) : NodeOK(t)

LEMMA IsSeq ==
  ASSUME NEW S, NEW n \in Nat, NEW f, f \in [1..n -> S]
  PROVE  f \in Seq(S) /\ Len(f) = n /\ DOMAIN f = 1..n
OBVIOUS

LEMMA TensorFacts ==
  ASSUME NEW g \in Tensor
  PROVE  /\ DOMAIN g = {"op", "src", "size", "view_src", "output"}
         /\ g.op \in {"none", "inplace", "other", "view"} /\ g.src \in Seq(Nat)
         /\ g.size \in Sizes /\ g.size \in Nat /\ g.size > 0
         /\ g.view_src \in Nat /\ g.output \in BOOLEAN
<1>1. /\ DOMAIN g = {"op", "src", "size", "view_src", "output"}
      /\ g.op \in {"none", "inplace", "other", "view"} /\ g.src \in Seq(Nat)
      /\ g.size \in Sizes /\ g.view_src \in Nat /\ g.output \in BOOLEAN
  BY DEF Tensor
<1>2. Sizes \subseteq Nat \ {0}
  BY AllocAssumption
<1>3. g.size \in Nat \ {0}
  BY ONLY <1>1, <1>2
<1>4. \A n \in Nat \ {0} : n \in Nat /\ n > 0
  OBVIOUS
<1>. QED
  BY <1>1, <1>3, <1>4

LEMMA Dims ==
  GraphOK => /\ NLeafs \in Nat /\ NLeafs > 0 /\ NNodes \in Nat /\ Total \in Nat /\ MaxSrc \in Nat
             /\ Len(graph) \in Nat /\ Len(graph) >= NLeafs /\ Len(graph) <= Total
             /\ Ids = 1..Len(graph) /\ Nodes = NLeafs + 1..Len(graph) /\ Nodes \subseteq Ids
BY AllocAssumption DEF GraphOK, Ids, Nodes, Total

LEMMA GraphFacts ==
  ASSUME GraphOK, NEW t \in Ids
  PROVE  /\ t \in Nat /\ t > 0 /\ graph[t] \in Tensor
         /\ graph[t].size \in Sizes /\ graph[t].size \in Nat /\ graph[t].size > 0
         /\ graph[t].output \in BOOLEAN
         /\ Len(graph[t].src) \in Nat /\ DOMAIN graph[t].src = 1..Len(graph[t].src)
         /\ Len(graph[t].src) <= MaxSrc
         /\ \A j \in DOMAIN graph[t].src : graph[t].src[j] \in 1..t - 1 /\ graph[t].src[j] \in Ids
         /\ t \notin Nodes => graph[t].src = <<>> /\ ~IsView(t) /\ ~graph[t].output
<1>0. /\ NLeafs \in Nat /\ MaxSrc \in Nat
      /\ Len(graph) \in Nat /\ Ids = 1..Len(graph) /\ Nodes = NLeafs + 1..Len(graph)
  BY Dims
<1>1. t \in Nat /\ t > 0 /\ graph[t] \in Tensor
  BY <1>0 DEF GraphOK
<1>2. /\ graph[t].size \in Sizes /\ graph[t].size \in Nat /\ graph[t].size > 0
      /\ graph[t].src \in Seq(Nat) /\ graph[t].output \in BOOLEAN
  BY <1>1, TensorFacts
<1>3. Len(graph[t].src) \in Nat /\ DOMAIN graph[t].src = 1..Len(graph[t].src)
  BY <1>2
<1>4. CASE t \in Nodes
  <2>1. NodeOK(t)
    BY <1>0, <1>4 DEF GraphOK
  <2>2. ASSUME NEW j \in DOMAIN graph[t].src
        PROVE  graph[t].src[j] \in 1..t - 1 /\ graph[t].src[j] \in Ids
    <3>1. graph[t].src[j] \in 1..t - 1
      BY <1>3, <2>1 DEF NodeOK
    <3>. QED
      BY <1>0, <1>1, <3>1
  <2>. QED
    BY <1>1, <1>2, <1>3, <1>4, <2>1, <2>2 DEF NodeOK
<1>5. CASE t \notin Nodes
  <2>1. LeafOK(t)
    BY <1>0, <1>1, <1>5 DEF GraphOK
  <2>2. graph[t].src = <<>> /\ ~IsView(t) /\ ~graph[t].output
    BY <2>1 DEF LeafOK, IsView
  <2>3. Len(graph[t].src) = 0
    BY <2>2
  <2>. QED
    BY <1>0, <1>1, <1>2, <1>3, <2>2, <2>3
<1>. QED
  BY <1>4, <1>5

LEMMA ViewFacts ==
  ASSUME GraphOK, NEW t \in Ids
  PROVE  /\ IsView(t) => /\ t \in Nodes /\ graph[t].view_src \in 1..t - 1 /\ graph[t].view_src \in Ids
                         /\ ~IsView(graph[t].view_src)
                         /\ graph[t].size = graph[graph[t].view_src].size
                         /\ ~graph[t].output
         /\ ~IsView(t) => graph[t].view_src = 0
         /\ Root(t) \in Ids /\ Root(t) <= t /\ ~IsView(Root(t))
         /\ graph[Root(t)].size = graph[t].size
<1>0. /\ NLeafs \in Nat /\ Len(graph) \in Nat /\ Ids = 1..Len(graph) /\ Nodes = NLeafs + 1..Len(graph)
  BY Dims
<1>1. t \in Nat /\ t > 0 /\ (t \notin Nodes => ~IsView(t))
  BY GraphFacts
<1>2. CASE IsView(t)
  <2>1. NodeOK(t)
    BY <1>0, <1>1, <1>2 DEF GraphOK
  <2>2. /\ graph[t].view_src \in 1..t - 1 /\ ~IsView(graph[t].view_src)
        /\ graph[t].size = graph[graph[t].view_src].size /\ ~graph[t].output
    BY <1>2, <2>1 DEF NodeOK
  <2>3. graph[t].view_src \in Ids /\ graph[t].view_src <= t
    BY <1>0, <1>1, <2>2
  <2>. QED
    BY <1>1, <1>2, <2>2, <2>3 DEF Root
<1>3. CASE ~IsView(t)
  <2>1. graph[t].view_src = 0
    BY <1>0, <1>1, <1>3 DEF GraphOK, NodeOK, LeafOK
  <2>. QED
    BY <1>1, <1>3, <2>1 DEF Root
<1>. QED
  BY <1>2, <1>3

LEMMA LeafTensor ==
  ASSUME NEW s \in Sizes
  PROVE  Leaf(s) \in Tensor
<1>1. <<>> \in Seq(Nat)
  OBVIOUS
<1>. QED
  BY <1>1 DEF Leaf, Tensor

LEMMA InitGraph ==
  Init => GraphOK
<1>. SUFFICES ASSUME Init PROVE GraphOK
  OBVIOUS
<1>1. PICK sizes \in [1..NLeafs -> Sizes] : graph = [k \in 1..NLeafs |-> Leaf(sizes[k])]
  BY DEF Init
<1>2. NLeafs \in Nat /\ NNodes \in Nat
  BY AllocAssumption
<1>3. \A k \in 1..NLeafs : graph[k] = Leaf(sizes[k]) /\ sizes[k] \in Sizes
  BY <1>1
<1>4. graph \in [1..NLeafs -> Tensor]
  BY <1>1, LeafTensor
<1>5. graph \in Seq(Tensor) /\ Len(graph) = NLeafs
  BY <1>2, <1>4, IsSeq
<1>6. \A k \in 1..NLeafs : LeafOK(k)
  <2>1. \A s : /\ Leaf(s).op = "none" /\ Leaf(s).src = <<>> /\ Leaf(s).view_src = 0
               /\ Leaf(s).output = FALSE
    BY DEF Leaf
  <2>. QED
    BY <1>3, <2>1 DEF LeafOK
<1>. QED
  BY <1>2, <1>5, <1>6 DEF GraphOK, Total

LEMMA SameGraph ==
  GraphOK /\ UNCHANGED graph => GraphOK'
BY DEF GraphOK, LeafOK, NodeOK, IsView

LEMMA AddNodeKeepsGraph ==
  ASSUME GraphOK, NEW op \in {"inplace", "other", "view"}, NEW size \in Sizes, NEW output \in BOOLEAN,
         NEW n \in 1..MaxSrc, NEW src \in [1..n -> Ids], AddNode(op, src, size, output)
  PROVE  GraphOK'
<1>a. PICK l : l = Len(graph)
  OBVIOUS
<1>b. PICK t : t = l + 1
  OBVIOUS
<1>. DEFINE p == src[1]
<1>c. PICK view : view = IF op = "view" THEN (IF IsView(p) THEN graph[p].view_src ELSE p) ELSE 0
  OBVIOUS
<1>. DEFINE new == [op |-> op, src |-> src, size |-> size, output |-> output, view_src |-> view]
<1>0. /\ NLeafs \in Nat /\ l \in Nat /\ l >= NLeafs /\ l < Total /\ Ids = 1..l /\ MaxSrc \in Nat
      /\ graph \in Seq(Tensor) /\ Total \in Nat
  BY <1>a, Dims DEF GraphOK, AddNode, Total
<1>1. graph' = Append(graph, new)
  BY <1>c DEF AddNode
<1>2. p \in Ids /\ src \in Seq(Ids) /\ Len(src) = n /\ DOMAIN src = 1..n
  <2>1. src \in Seq(Ids) /\ Len(src) = n /\ DOMAIN src = 1..n
    BY IsSeq, <1>0
  <2>2. 1 \in 1..n
    BY <1>0
  <2>. QED
    BY <2>1, <2>2
<1>3. src \in Seq(Nat)
  <2>1. src \in [1..n -> Nat]
    BY <1>0
  <2>. QED
    BY <2>1, <1>0, IsSeq
<1>4. op = "view" => /\ view \in Ids /\ ~IsView(view) /\ graph[view].size = size /\ ~output
  <2>1. op = "view" => view = Root(p) /\ graph[p].size = size /\ ~output
    BY <1>c DEF AddNode, Root
  <2>. QED
    BY <1>2, <2>1, ViewFacts
<1>5. op # "view" => view = 0
  BY <1>c
<1>6. view \in Nat
  BY <1>0, <1>4, <1>5
<1>. HIDE DEF p
<1>7. /\ new.op = op /\ new.src = src /\ new.size = size /\ new.output = output /\ new.view_src = view
      /\ new \in Tensor
  BY <1>3, <1>6 DEF Tensor
<1>. HIDE DEF new
<1>8. /\ graph' \in Seq(Tensor) /\ Len(graph') = l + 1 /\ graph'[t] = new
      /\ \A k \in 1..l : graph'[k] = graph[k]
  BY <1>0, <1>1, <1>7, <1>a, <1>b
<1>9. \A k \in 1..l : IsView(k)' <=> IsView(k)
  BY <1>8 DEF IsView
<1>10. ASSUME NEW k \in 1..NLeafs PROVE LeafOK(k)'
  <2>1. k \in 1..l /\ LeafOK(k)
    BY <1>0 DEF GraphOK
  <2>. QED
    BY <1>8, <2>1 DEF LeafOK
<1>11. ASSUME NEW k \in NLeafs + 1..l PROVE NodeOK(k)'
  <2>1. k \in 1..l /\ NodeOK(k) /\ k \in Ids
    BY <1>0, <1>a DEF GraphOK
  <2>2. graph'[k] = graph[k] /\ (IsView(k)' <=> IsView(k))
    BY <1>8, <1>9, <2>1
  <2>3. IsView(k) => graph[k].view_src \in 1..l
    BY <1>0, <2>1, ViewFacts
  <2>. QED
    BY <1>8, <1>9, <2>1, <2>2, <2>3 DEF NodeOK
<1>12. NodeOK(t)'
  <2>1. IsView(t)' <=> op = "view"
    BY <1>7, <1>8 DEF IsView
  <2>2. /\ graph'[t].op = op /\ graph'[t].src = src /\ graph'[t].size = size
        /\ graph'[t].output = output /\ graph'[t].view_src = view
    BY <1>7, <1>8
  <2>3. \A j \in 1..Len(src) : src[j] \in 1..t - 1
    BY <1>0, <1>2, <1>b
  <2>4. op = "view" => /\ view \in 1..t - 1 /\ ~IsView(view)' /\ size = graph'[view].size /\ ~output
    BY <1>0, <1>4, <1>8, <1>9, <1>b
  <2>5. Len(src) <= MaxSrc
    BY <1>0, <1>2
  <2>. QED
    BY <1>5, <2>1, <2>2, <2>3, <2>4, <2>5 DEF NodeOK
<1>13. \A k \in NLeafs + 1..Len(graph') : NodeOK(k)'
  BY <1>0, <1>8, <1>11, <1>12, <1>b
<1>. QED
  BY <1>0, <1>8, <1>10, <1>13 DEF GraphOK

(* A graph of other sizes, or cut back to its inputs.                       *)
LEMMA ScaledFacts ==
  ASSUME GraphOK, NEW f \in [Sizes -> Sizes], NEW g, g = Scaled(f)
  PROVE  /\ g \in Seq(Tensor) /\ Len(g) = Len(graph)
         /\ \A t \in Ids : /\ g[t].op = graph[t].op /\ g[t].src = graph[t].src
                           /\ g[t].view_src = graph[t].view_src /\ g[t].output = graph[t].output
                           /\ g[t].size = f[graph[t].size]
<1>0. Len(graph) \in Nat /\ Ids = 1..Len(graph)
  BY Dims
<1>1. ASSUME NEW t \in Ids
      PROVE  /\ g[t] \in Tensor /\ g[t].op = graph[t].op /\ g[t].src = graph[t].src
             /\ g[t].view_src = graph[t].view_src /\ g[t].output = graph[t].output
             /\ g[t].size = f[graph[t].size]
  <2>. DEFINE old == graph[t]
  <2>1. old \in Tensor /\ old.size \in Sizes
    BY GraphFacts
  <2>2. g[t] = [old EXCEPT !.size = f[old.size]]
    BY DEF Scaled
  <2>3. f[old.size] \in Sizes
    BY <2>1
  <2>. DEFINE s == f[old.size]
  <2>. HIDE DEF old, s
  <2>4. g[t] = [old EXCEPT !.size = s] /\ s \in Sizes
    BY <2>2, <2>3 DEF s
  <2>5. g[t] \in Tensor
    BY <2>1, <2>4 DEF Tensor
  <2>6. /\ g[t].op = old.op /\ g[t].src = old.src /\ g[t].view_src = old.view_src
        /\ g[t].output = old.output /\ g[t].size = s
    BY <2>1, <2>4 DEF Tensor
  <2>. QED
    BY <2>5, <2>6 DEF old, s
<1>2. g \in [1..Len(graph) -> Tensor]
  BY <1>0, <1>1 DEF Scaled
<1>3. g \in Seq(Tensor) /\ Len(g) = Len(graph)
  BY <1>0, <1>2, IsSeq
<1>. QED
  BY <1>1, <1>3

LEMMA ScaledKeepsGraph ==
  ASSUME GraphOK, NEW f \in [Sizes -> Sizes], graph' = Scaled(f)
  PROVE  GraphOK'
<1>0. /\ NLeafs \in Nat /\ Len(graph) \in Nat /\ Len(graph) >= NLeafs /\ Ids = 1..Len(graph)
      /\ Nodes = NLeafs + 1..Len(graph)
  BY Dims
<1>1. /\ graph' \in Seq(Tensor) /\ Len(graph') = Len(graph)
      /\ \A t \in Ids : /\ graph'[t].op = graph[t].op /\ graph'[t].src = graph[t].src
                        /\ graph'[t].view_src = graph[t].view_src /\ graph'[t].output = graph[t].output
                        /\ graph'[t].size = f[graph[t].size]
  BY ScaledFacts
<1>2. \A t \in Ids : IsView(t)' <=> IsView(t)
  BY <1>1 DEF IsView
<1>3. \A t \in 1..NLeafs : LeafOK(t)'
  BY <1>0, <1>1 DEF GraphOK, LeafOK
<1>4. ASSUME NEW t \in NLeafs + 1..Len(graph) PROVE NodeOK(t)'
  <2>1. t \in Ids /\ NodeOK(t)
    BY <1>0 DEF GraphOK
  <2>2. /\ graph'[t].op = graph[t].op /\ graph'[t].src = graph[t].src
        /\ graph'[t].view_src = graph[t].view_src /\ graph'[t].output = graph[t].output
        /\ graph'[t].size = f[graph[t].size] /\ (IsView(t)' <=> IsView(t))
    BY <1>1, <1>2, <2>1
  <2>3. IsView(t) => /\ ~IsView(graph[t].view_src)'
                     /\ graph'[t].size = graph'[graph[t].view_src].size
    <3>1. IsView(t) => graph[t].view_src \in Ids /\ ~IsView(graph[t].view_src)
                       /\ graph[t].size = graph[graph[t].view_src].size
      BY <2>1, ViewFacts
    <3>. QED
      BY <1>1, <1>2, <2>2, <3>1
  <2>. QED
    BY <2>1, <2>2, <2>3 DEF NodeOK
<1>. QED
  BY <1>1, <1>3, <1>4 DEF GraphOK

LEMMA NextGraphKeepsGraph ==
  ASSUME GraphOK, NextGraph
  PROVE  GraphOK'
<1>1. CASE graph' \in Rescaled
  <2>1. PICK f \in [Sizes -> Sizes] : graph' = Scaled(f)
    BY <1>1 DEF Rescaled
  <2>. QED
    BY <2>1, ScaledKeepsGraph
<1>2. CASE graph' = SubSeq(graph, 1, NLeafs)
  <2>0. /\ NLeafs \in Nat /\ Len(graph) \in Nat /\ Len(graph) >= NLeafs /\ graph \in Seq(Tensor)
        /\ Total \in Nat /\ NLeafs <= Total
    BY Dims DEF GraphOK
  <2>1. graph' \in Seq(Tensor) /\ Len(graph') = NLeafs /\ \A k \in 1..NLeafs : graph'[k] = graph[k]
    BY <1>2, <2>0
  <2>2. \A k \in 1..NLeafs : LeafOK(k)'
    BY <2>1 DEF GraphOK, LeafOK
  <2>. QED
    BY <2>0, <2>1, <2>2 DEF GraphOK
<1>. QED
  BY <1>1, <1>2 DEF NextGraph

(***************************************************************************)
(* Planning: the inductive invariant.                                      *)
(***************************************************************************)

(* The largest size of a tensor. *)
Widest == CHOOSE m \in Nat : (\A s \in Sizes : s <= m) /\ Total * m < Limit

(* The readings of s that are still to come, and the views of s that have   *)
(* some, or never had any.                                                  *)
Rest(s) == {r \in Readings(s) : r[1] > at \/ (r[1] = at /\ r[2] > parents)}
RestViews(s) == {v \in Nodes : graph[v].view_src = s /\ (Rest(v) # {} \/ Readings(v) = {})}

(* Node n reads the memory of s. *)
ReadBy(n, s) == \E j \in DOMAIN graph[n].src : Root(graph[n].src[j]) = s

Placed(t) == t \in 1..at /\ ~IsView(t)
Has(t, u) == InRange(offset[t], graph[t].size, u)

PlanTypes ==
  /\ Len(graph) = Total /\ at \in 0..Total /\ parents \in Nat /\ max_size \in Nat
  /\ at = 0 => parents = 0
  /\ at > 0 => parents <= Len(graph[at].src)
  /\ n_children \in [Ids -> Nat] /\ n_views \in [Ids -> Nat]
  /\ offset \in [Ids -> Nat] /\ allocated \in [Ids -> BOOLEAN]

Counted ==
  \A s \in Ids : n_children[s] = Cardinality(Rest(s)) /\ n_views[s] = Cardinality(RestViews(s))

Tiled ==
  /\ Sorted(free_blocks) /\ EndsIn(free_blocks, at * Widest)
  /\ \A t \in Ids : allocated[t] => Placed(t)
  /\ \A t \in Ids : allocated[t] =>
       \A u \in Nat : Has(t, u) => u < Limit /\ ~FreeIn(free_blocks, u)
  /\ \A t, s \in Ids : allocated[t] /\ allocated[s] /\ t # s =>
       \A u \in Nat : ~(Has(t, u) /\ Has(s, u))
  /\ \A u \in Nat : FreeIn(free_blocks, u) => u < Limit
  /\ \A u \in Nat : u < Limit =>
       FreeIn(free_blocks, u) \/ \E t \in Ids : allocated[t] /\ Has(t, u)

High == \A t \in Ids : Placed(t) => offset[t] + graph[t].size <= max_size

(* What was given away: no output, and nobody after this node reads it.     *)
Dead ==
  \A s \in Ids : Placed(s) /\ ~allocated[s] =>
    /\ at > NLeafs /\ ~graph[s].output
    /\ \A n \in Nodes : ReadBy(n, s) => n <= at

(* Who shares memory with an earlier tensor: nobody reads that one any      *)
(* more, unless it is the node itself, which works in place.                *)
InPlace(s, t) == graph[t].op = "inplace" /\ offset[t] = offset[s] /\ graph[t].size = graph[s].size
Clash ==
  \A s, t \in Ids : s < t /\ Placed(s) /\ Placed(t) /\ (\E u \in Nat : Has(s, u) /\ Has(t, u)) =>
    /\ ~allocated[s] /\ t > NLeafs
    /\ \A n \in Nodes : ReadBy(n, s) => n < t \/ (n = t /\ InPlace(s, t))

(* What is live and was ever read will be read again.                       *)
Leak ==
  \A t \in Ids : allocated[t] /\ ~graph[t].output /\ Readings(t) # {} =>
    n_children[t] > 0 \/ n_views[t] > 0

PlanInv == PlanTypes /\ Counted /\ Tiled /\ High /\ Dead /\ Clash /\ Leak

AllocInv ==
  /\ GraphOK /\ phase \in {"build", "plan", "run"}
  /\ phase = "plan" => PlanInv

(***************************************************************************)
(* Counting.                                                               *)
(***************************************************************************)
LEMMA Times ==
  ASSUME NEW a \in Nat, NEW b \in Nat, NEW c \in Nat, a <= b
  PROVE  a * c \in Nat /\ (a + 1) * c = a * c + c /\ a * c <= b * c
<1>1. a * c \in Nat /\ (a + 1) * c = a * c + c
  OBVIOUS
<1>2. PICK d \in Nat : b = a + d
  <2>1. b - a \in Nat /\ b = a + (b - a)
    OBVIOUS
  <2>. QED
    BY <2>1
<1>3. b * c = a * c + d * c /\ d * c \in Nat
  BY <1>2
<1>. QED
  BY <1>1, <1>3

LEMMA WidestFacts ==
  /\ Widest \in Nat /\ \A s \in Sizes : s <= Widest
  /\ Total * Widest < Limit /\ Limit \in Nat /\ Total \in Nat
<1>0. /\ Limit \in Nat /\ Limit > 0 /\ Total \in Nat /\ Total > 0 /\ Sizes \subseteq Nat
      /\ \A s \in Sizes : Total * s < Limit
  BY AllocAssumption DEF Total
<1>. DEFINE S == {m \in Nat : \A s \in Sizes : s <= m}
<1>1. Limit \in S
  <2>1. ASSUME NEW s \in Sizes PROVE s <= Limit
    <3>1. s \in Nat /\ Total * s < Limit /\ 1 * s <= Total * s /\ 1 * s = s
      BY <1>0, Times
    <3>. QED
      BY <1>0, <3>1
  <2>. QED
    BY <1>0, <2>1
<1>2. PICK m \in S : \A y \in S : m <= y
  <2>1. S \in SUBSET Nat /\ S # {}
    BY <1>1
  <2>. HIDE DEF S
  <2>. QED
    BY <2>1, LeastNat
<1>3. Total * m < Limit
  <2>1. CASE m = 0
    <3>1. Total * 0 = 0
      BY <1>0
    <3>. QED
      BY <1>0, <2>1, <3>1
  <2>2. CASE m # 0
    <3>1. m - 1 \in Nat /\ m - 1 \notin S
      BY <1>2, <2>2
    <3>2. PICK s \in Sizes : ~(s <= m - 1)
      BY <3>1
    <3>3. s = m
      BY <1>0, <1>2, <3>1, <3>2
    <3>. QED
      BY <1>0, <3>3
  <2>. QED
    BY <2>1, <2>2
<1>4. m \in Nat /\ (\A s \in Sizes : s <= m) /\ Total * m < Limit
  BY <1>2, <1>3
<1>. QED
  BY <1>0, <1>4 DEF Widest

LEMMA Sub ==
  ASSUME NEW S, IsFiniteSet(S), NEW T, T \subseteq S
  PROVE  /\ IsFiniteSet(T) /\ Cardinality(T) \in Nat
         /\ Cardinality(T) = 0 <=> T = {}
         /\ \A x \in T : Cardinality(T) = 1 => T = {x}
         /\ \A x \in T : Cardinality(T \ {x}) = Cardinality(T) - 1
<1>1. IsFiniteSet(T) /\ Cardinality(T) \in Nat
  BY FS_Subset, FS_CardinalityType
<1>2. Cardinality(T) = 0 <=> T = {}
  BY <1>1, FS_EmptySet
<1>3. ASSUME NEW x \in T, Cardinality(T) = 1 PROVE T = {x}
  <2>1. PICK y : T = {y}
    BY <1>1, <1>3, FS_Singleton
  <2>. QED
    BY <2>1
<1>4. \A x \in T : Cardinality(T \ {x}) = Cardinality(T) - 1
  BY <1>1, FS_RemoveElement
<1>. QED
  BY <1>1, <1>2, <1>3, <1>4

LEMMA FiniteReadings ==
  ASSUME GraphOK, NEW s
  PROVE  /\ IsFiniteSet(Readings(s)) /\ IsFiniteSet(Nodes)
         /\ Rest(s) \subseteq Readings(s) /\ RestViews(s) \subseteq Nodes
<1>0. NLeafs \in Nat /\ Len(graph) \in Nat /\ MaxSrc \in Nat /\ Nodes = NLeafs + 1..Len(graph)
  BY Dims
<1>1. IsFiniteSet(Nodes)
  BY <1>0, FS_Interval
<1>2. IsFiniteSet(1..MaxSrc)
  BY <1>0, FS_Interval
<1>3. IsFiniteSet(Nodes \X (1..MaxSrc))
  BY <1>1, <1>2, FS_Product
<1>4. Readings(s) \subseteq Nodes \X (1..MaxSrc)
  BY DEF Readings
<1>5. IsFiniteSet(Readings(s))
  BY <1>3, <1>4, FS_Subset
<1>. QED
  BY <1>1, <1>5 DEF Rest, RestViews

(* A reading is a source of a node.                                         *)
LEMMA ReadingFacts ==
  ASSUME GraphOK, NEW s
  PROVE  /\ \A t \in Nodes : \A j \in DOMAIN graph[t].src : graph[t].src[j] = s => <<t, j>> \in Readings(s)
         /\ \A r \in Readings(s) : /\ r[1] \in Nodes /\ r[1] \in Nat /\ r[2] \in Nat /\ r[2] > 0
                                   /\ r[2] \in DOMAIN graph[r[1]].src /\ graph[r[1]].src[r[2]] = s
                                   /\ r[2] <= Len(graph[r[1]].src) /\ r[1] > NLeafs
                                   /\ r = <<r[1], r[2]>>
                                   /\ s \in 1..r[1] - 1
<1>0. NLeafs \in Nat /\ Len(graph) \in Nat /\ MaxSrc \in Nat /\ Nodes = NLeafs + 1..Len(graph) /\ Nodes \subseteq Ids
  BY Dims
<1>1. ASSUME NEW t \in Nodes, NEW j \in DOMAIN graph[t].src, graph[t].src[j] = s
      PROVE  <<t, j>> \in Readings(s)
  <2>1. j \in 1..MaxSrc
    <3>1. DOMAIN graph[t].src = 1..Len(graph[t].src) /\ Len(graph[t].src) <= MaxSrc /\ Len(graph[t].src) \in Nat
      BY <1>0, GraphFacts
    <3>. QED
      BY <1>0, <3>1
  <2>. QED
    BY <1>1, <2>1 DEF Readings
<1>2. ASSUME NEW r \in Readings(s)
      PROVE  /\ r[1] \in Nodes /\ r[1] \in Nat /\ r[2] \in Nat /\ r[2] > 0
             /\ r[2] \in DOMAIN graph[r[1]].src /\ graph[r[1]].src[r[2]] = s
             /\ r[2] <= Len(graph[r[1]].src) /\ r[1] > NLeafs
             /\ r = <<r[1], r[2]>> /\ s \in 1..r[1] - 1
  <2>1. r \in Nodes \X (1..MaxSrc) /\ r[2] \in DOMAIN graph[r[1]].src /\ graph[r[1]].src[r[2]] = s
    BY DEF Readings
  <2>2. r[1] \in Nodes /\ r[2] \in 1..MaxSrc /\ r = <<r[1], r[2]>>
    BY <2>1
  <2>3. r[1] \in Nat /\ r[2] \in Nat /\ r[2] > 0 /\ r[1] > NLeafs /\ r[1] \in Ids
    BY <1>0, <2>2
  <2>4. /\ DOMAIN graph[r[1]].src = 1..Len(graph[r[1]].src) /\ Len(graph[r[1]].src) \in Nat
        /\ \A j \in DOMAIN graph[r[1]].src : graph[r[1]].src[j] \in 1..r[1] - 1
    BY <2>3, GraphFacts
  <2>5. r[2] <= Len(graph[r[1]].src) /\ s \in 1..r[1] - 1
    BY <2>1, <2>3, <2>4
  <2>. QED
    BY <2>1, <2>2, <2>3, <2>5
<1>. QED
  BY <1>1, <1>2

(* All readings of a tensor and of its views are over.                      *)
LEMMA NoReaders ==
  ASSUME GraphOK, PlanTypes, NEW s \in Ids, NEW b \in Nat, at <= b, ~IsView(s),
         \A r \in Rest(s) : r[1] <= b,
         \A v \in RestViews(s) : \A r \in Rest(v) : r[1] <= b,
         NEW n \in Nodes, ReadBy(n, s)
  PROVE  n <= b
<1>0. n \in Ids /\ n \in Nat /\ at \in Nat /\ parents \in Nat
  BY Dims, GraphFacts DEF PlanTypes
<1>1. PICK j \in DOMAIN graph[n].src : Root(graph[n].src[j]) = s
  BY DEF ReadBy
<1>2. PICK x : x = graph[n].src[j]
  OBVIOUS
<1>3. x \in Ids /\ Root(x) = s
  BY <1>0, <1>1, <1>2, GraphFacts
<1>. DEFINE r == <<n, j>>
<1>4. r \in Readings(x) /\ r[1] = n
  BY <1>1, <1>2, ReadingFacts
<1>. HIDE DEF r
<1>5. r \in Rest(x) \/ n <= at
  BY <1>0, <1>4 DEF Rest
<1>6. CASE ~IsView(x)
  <2>1. x = s
    BY <1>3, <1>6 DEF Root
  <2>. QED
    BY <1>0, <1>4, <1>5, <2>1
<1>7. CASE IsView(x)
  <2>1. x \in Nodes /\ graph[x].view_src = s
    BY <1>3, <1>7, ViewFacts DEF Root
  <2>2. r \in Rest(x) => x \in RestViews(s)
    BY <2>1 DEF RestViews
  <2>. QED
    BY <1>0, <1>4, <1>5, <2>2
<1>. QED
  BY <1>6, <1>7

(* On to the next tensor: no reading ends.                                  *)
LEMMA NextTensorCounts ==
  ASSUME GraphOK, PlanTypes, Counted, UNCHANGED <<graph, n_children, n_views>>,
         at' = at + 1, parents' = 0, AllUpdated
  PROVE  Counted'
<1>0. at \in Nat /\ parents \in Nat /\ NLeafs \in Nat
  BY Dims DEF PlanTypes
<1>1. ASSUME NEW s PROVE Readings(s)' = Readings(s) /\ Rest(s)' = Rest(s)
  <2>1. Readings(s)' = Readings(s)
    BY DEF Readings, Nodes
  <2>2. ASSUME NEW r \in Readings(s)
        PROVE  (r[1] > at \/ (r[1] = at /\ r[2] > parents)) <=> (r[1] > at + 1 \/ (r[1] = at + 1 /\ r[2] > 0))
    <3>1. r[1] \in Nat /\ r[2] \in Nat /\ r[2] > 0 /\ r[1] > NLeafs /\ r[2] <= Len(graph[r[1]].src)
      BY ReadingFacts
    <3>2. r[1] = at => ~(r[2] > parents)
      BY <1>0, <3>1 DEF AllUpdated
    <3>. QED
      BY <1>0, <3>1, <3>2
  <2>. QED
    BY <2>1, <2>2 DEF Rest
<1>2. ASSUME NEW s PROVE RestViews(s)' = RestViews(s)
  <2>1. \A v \in Nodes : Rest(v)' = Rest(v) /\ Readings(v)' = Readings(v)
    BY <1>1
  <2>2. Nodes' = Nodes
    BY DEF Nodes
  <2>. QED
    BY <2>1, <2>2 DEF RestViews
<1>. QED
  BY <1>1, <1>2 DEF Counted, Ids

(* One reading of parent p is over.                                         *)
LEMMA UpdateCounts ==
  ASSUME GraphOK, PlanTypes, Counted, UNCHANGED <<graph, at>>, at > 0, ~AllUpdated,
         parents' = parents + 1, NEW p, p = graph[at].src[parents + 1], update_parent(p)
  PROVE  /\ Counted' /\ p \in Ids /\ p < at /\ at \in Nodes
         /\ n_children[p] > 0 /\ n_children' = [n_children EXCEPT ![p] = n_children[p] - 1]
         /\ n_children' \in [Ids -> Nat] /\ n_views' \in [Ids -> Nat]
         /\ IsView(p) => n_views[p] = 0 /\ n_views[graph[p].view_src] > 0
         /\ n_views' = IF n_children[p] = 1 /\ IsView(p)
                         THEN [n_views EXCEPT ![graph[p].view_src] = n_views[graph[p].view_src] - 1]
                         ELSE n_views
         /\ \A r \in Rest(p) : n_children[p] = 1 => r[1] <= at
         /\ IsView(p) /\ n_children[p] = 1 => p \in RestViews(graph[p].view_src)
<1>0. /\ at \in Ids /\ at \in Nat /\ parents \in Nat /\ NLeafs \in Nat /\ Ids = 1..Len(graph) /\ Len(graph) \in Nat
      /\ parents <= Len(graph[at].src) /\ parents # Len(graph[at].src)
  BY Dims DEF PlanTypes, AllUpdated
<1>1. /\ DOMAIN graph[at].src = 1..Len(graph[at].src) /\ Len(graph[at].src) \in Nat
      /\ \A j \in DOMAIN graph[at].src : graph[at].src[j] \in 1..at - 1 /\ graph[at].src[j] \in Ids
      /\ at \notin Nodes => graph[at].src = <<>>
  BY <1>0, GraphFacts
<1>2. parents + 1 \in DOMAIN graph[at].src
  BY <1>0, <1>1
<1>3. at \in Nodes
  <2>1. graph[at].src # <<>>
    BY <1>1, <1>2
  <2>. QED
    BY <1>1, <2>1
<1>4. p \in Ids /\ p < at
  BY <1>0, <1>1, <1>2
<1>5. PICK r0 : r0 = <<at, parents + 1>>
  OBVIOUS
<1>6. r0 \in Readings(p) /\ r0[1] = at /\ r0[2] = parents + 1
  BY <1>2, <1>3, <1>5, ReadingFacts
<1>7. r0 \in Rest(p)
  BY <1>0, <1>6 DEF Rest
<1>8. /\ Readings(p) # {} /\ n_children[p] = Cardinality(Rest(p)) /\ n_children[p] > 0
      /\ Cardinality(Rest(p) \ {r0}) = n_children[p] - 1
      /\ n_children[p] = 1 <=> Rest(p) = {r0}
      /\ Rest(p) \ {r0} = {} <=> n_children[p] = 1
      /\ n_children[p] \in Nat
  <2>1. /\ Cardinality(Rest(p)) \in Nat
        /\ Cardinality(Rest(p)) = 0 <=> Rest(p) = {}
        /\ \A x \in Rest(p) : Cardinality(Rest(p)) = 1 => Rest(p) = {x}
        /\ \A x \in Rest(p) : Cardinality(Rest(p) \ {x}) = Cardinality(Rest(p)) - 1
    BY FiniteReadings, Sub
  <2>2. Cardinality({r0}) = 1
    BY FS_Singleton
  <2>3. n_children[p] = Cardinality(Rest(p))
    BY <1>4 DEF Counted
  <2>4. Rest(p) \ {r0} = {} <=> Rest(p) = {r0}
    BY <1>7
  <2>5. n_children[p] = 1 <=> Rest(p) = {r0}
    BY <1>7, <2>1, <2>2, <2>3
  <2>. QED
    BY <1>6, <1>7, <2>1, <2>3, <2>4, <2>5
<1>9. ASSUME NEW s
      PROVE  Readings(s)' = Readings(s) /\ Rest(s)' = Rest(s) \ {r0}
  <2>1. Readings(s)' = Readings(s)
    BY DEF Readings, Nodes
  <2>2. ASSUME NEW r \in Readings(s)
        PROVE  (r[1] > at \/ (r[1] = at /\ r[2] > parents + 1))
                 <=> (r[1] > at \/ (r[1] = at /\ r[2] > parents)) /\ r # r0
    <3>1. r[1] \in Nat /\ r[2] \in Nat /\ r = <<r[1], r[2]>>
      BY ReadingFacts
    <3>2. r = r0 <=> r[1] = at /\ r[2] = parents + 1
      BY <1>5, <1>6, <3>1
    <3>. QED
      BY <1>0, <3>1, <3>2
  <2>. QED
    BY <2>1, <2>2 DEF Rest
<1>10. ASSUME NEW s, s # p PROVE Rest(s)' = Rest(s)
  <2>1. r0 \notin Rest(s)
    <3>1. ASSUME r0 \in Readings(s) PROVE FALSE
      <4>1. graph[at].src[parents + 1] = s
        BY <1>6, <3>1, ReadingFacts
      <4>. QED
        BY <1>10, <4>1
    <3>. QED
      BY <3>1 DEF Rest
  <2>. QED
    BY <1>9, <2>1
<1>11. n_children' = [n_children EXCEPT ![p] = n_children[p] - 1] /\ n_children' \in [Ids -> Nat]
  <2>1. n_children' = [n_children EXCEPT ![p] = n_children[p] - 1]
    BY DEF update_parent
  <2>2. n_children[p] - 1 \in Nat /\ n_children \in [Ids -> Nat]
    BY <1>8 DEF PlanTypes
  <2>. DEFINE c == n_children[p] - 1
  <2>3. n_children' = [n_children EXCEPT ![p] = c] /\ c \in Nat
    BY <2>1, <2>2
  <2>. HIDE DEF c
  <2>4. n_children' \in [Ids -> Nat]
    BY <2>2, <2>3
  <2>. QED
    BY <2>1, <2>4
<1>12. ASSUME NEW s \in Ids PROVE n_children'[s] = Cardinality(Rest(s)')
  <2>1. CASE s = p
    BY <1>4, <1>8, <1>9, <1>11, <2>1 DEF PlanTypes
  <2>2. CASE s # p
    BY <1>10, <1>11, <2>2 DEF PlanTypes, Counted
  <2>. QED
    BY <2>1, <2>2
<1>13. ASSUME IsView(p)
       PROVE  /\ n_views[p] = 0 /\ graph[p].view_src \in Ids
              /\ p \in RestViews(graph[p].view_src) /\ n_views[graph[p].view_src] > 0
              /\ Cardinality(RestViews(graph[p].view_src) \ {p}) = n_views[graph[p].view_src] - 1
  <2>1. RestViews(p) = {}
    <3>1. ASSUME NEW v \in Nodes, graph[v].view_src = p PROVE FALSE
      <4>1. v \in Ids
        BY Dims
      <4>2. IsView(v) => ~IsView(graph[v].view_src)
        BY <4>1, ViewFacts
      <4>3. ~IsView(v) => graph[v].view_src = 0
        BY <4>1, ViewFacts
      <4>. QED
        BY <1>0, <1>4, <1>13, <3>1, <4>2, <4>3
    <3>. QED
      BY <3>1 DEF RestViews
  <2>2. n_views[p] = 0
    BY <1>4, <2>1, FS_EmptySet DEF Counted
  <2>3. graph[p].view_src \in Ids /\ p \in Nodes
    BY <1>4, <1>13, ViewFacts
  <2>4. p \in RestViews(graph[p].view_src)
    BY <1>7, <2>3 DEF RestViews
  <2>. DEFINE R == RestViews(graph[p].view_src)
  <2>5. R \subseteq Nodes /\ IsFiniteSet(Nodes)
    BY FiniteReadings
  <2>6. n_views[graph[p].view_src] = Cardinality(R)
    BY <2>3 DEF Counted
  <2>. HIDE DEF R
  <2>7. /\ Cardinality(R) \in Nat
        /\ Cardinality(R) = 0 <=> R = {}
        /\ \A x \in R : Cardinality(R \ {x}) = Cardinality(R) - 1
    BY <2>5, Sub
  <2>8. p \in R
    BY <2>4 DEF R
  <2>9. Cardinality(R) > 0 /\ Cardinality(R \ {p}) = Cardinality(R) - 1
    BY <2>7, <2>8
  <2>. QED
    BY <2>2, <2>3, <2>4, <2>6, <2>9 DEF R
<1>14. n_views' = IF n_children[p] = 1 /\ IsView(p)
                    THEN [n_views EXCEPT ![graph[p].view_src] = n_views[graph[p].view_src] - 1]
                    ELSE n_views
  BY <1>13 DEF update_parent
<1>15. ASSUME NEW s \in Ids
       PROVE  RestViews(s)' = IF n_children[p] = 1 /\ IsView(p) /\ s = graph[p].view_src
                                THEN RestViews(s) \ {p} ELSE RestViews(s)
  <2>0. Nodes' = Nodes
    BY DEF Nodes
  <2>1. ASSUME NEW v \in Nodes, v # p
        PROVE  v \in RestViews(s)' <=> v \in RestViews(s)
    <3>1. Rest(v)' = Rest(v) /\ Readings(v)' = Readings(v)
      BY <1>9, <1>10, <2>1
    <3>. QED
      BY <2>0, <3>1 DEF RestViews
  <2>2. ASSUME p \in Nodes
        PROVE  /\ p \in RestViews(s)' <=> graph[p].view_src = s /\ n_children[p] # 1
               /\ p \in RestViews(s) <=> graph[p].view_src = s
    <3>1. Rest(p)' = Rest(p) \ {r0} /\ Readings(p)' = Readings(p)
      BY <1>9
    <3>. QED
      BY <1>7, <1>8, <2>0, <2>2, <3>1 DEF RestViews
  <2>3. RestViews(s) \subseteq Nodes /\ RestViews(s)' \subseteq Nodes
    BY <2>0 DEF RestViews
  <2>4. s # 0
    BY <1>0
  <2>5. CASE n_children[p] = 1 /\ IsView(p) /\ s = graph[p].view_src
    BY <2>1, <2>2, <2>3, <2>5
  <2>6. CASE ~(n_children[p] = 1 /\ IsView(p) /\ s = graph[p].view_src)
    <3>1. p \in RestViews(s)' <=> p \in RestViews(s)
      <4>1. CASE IsView(p)
        BY <2>2, <2>3, <2>6, <4>1
      <4>2. CASE ~IsView(p)
        <5>1. graph[p].view_src = 0
          BY <1>4, <4>2, ViewFacts
        <5>. QED
          BY <2>2, <2>3, <2>4, <4>2, <5>1
      <4>. QED
        BY <4>1, <4>2
    <3>. QED
      BY <2>1, <2>3, <2>6, <3>1
  <2>. QED
    BY <2>5, <2>6
<1>16. ASSUME NEW s \in Ids PROVE n_views'[s] = Cardinality(RestViews(s)') /\ n_views'[s] \in Nat
  <2>0. n_views[s] = Cardinality(RestViews(s)) /\ n_views[s] \in Nat
    BY DEF Counted, PlanTypes
  <2>1. CASE n_children[p] = 1 /\ IsView(p) /\ s = graph[p].view_src
    <3>1. n_views' = [n_views EXCEPT ![s] = n_views[s] - 1] /\ n_views \in [Ids -> Nat]
      BY <1>14, <2>1 DEF PlanTypes
    <3>2. n_views'[s] = n_views[s] - 1
      BY <3>1
    <3>3. n_views[s] > 0 /\ Cardinality(RestViews(s) \ {p}) = n_views[s] - 1
      BY <1>13, <2>1
    <3>4. RestViews(s)' = RestViews(s) \ {p}
      BY <1>15, <2>1
    <3>. QED
      BY <2>0, <3>2, <3>3, <3>4
  <2>2. CASE ~(n_children[p] = 1 /\ IsView(p) /\ s = graph[p].view_src)
    <3>1. n_views'[s] = n_views[s]
      BY <1>14, <2>2 DEF PlanTypes
    <3>. QED
      BY <1>15, <2>0, <2>2, <3>1
  <2>. QED
    BY <2>1, <2>2
<1>17. n_views' \in [Ids -> Nat]
  <2>1. DOMAIN n_views' = Ids
    BY <1>14 DEF PlanTypes
  <2>. QED
    BY <1>14, <1>16, <2>1 DEF PlanTypes
<1>18. Counted'
  BY <1>12, <1>16 DEF Counted, Ids
<1>19. \A r \in Rest(p) : n_children[p] = 1 => r[1] <= at
  BY <1>0, <1>6, <1>8
<1>. QED
  BY <1>3, <1>4, <1>8, <1>11, <1>13, <1>14, <1>17, <1>18, <1>19

(***************************************************************************)
(* Memory.                                                                 *)
(***************************************************************************)
MemInv == Tiled /\ High /\ Dead /\ Clash

LEMMA PlanNumbers ==
  ASSUME GraphOK, PlanTypes
  PROVE  /\ at \in Nat /\ at <= Total /\ Total \in Nat /\ NLeafs \in Nat /\ Ids = 1..Total
         /\ at * Widest \in Nat /\ (at + 1) * Widest = at * Widest + Widest
         /\ \A t \in Ids : /\ graph[t].size \in Nat /\ graph[t].size > 0 /\ graph[t].size <= Widest
                           /\ offset[t] \in Nat /\ allocated[t] \in BOOLEAN
         /\ at < Total => at * Widest + Widest < Limit
<1>0. at \in Nat /\ at <= Total /\ Total \in Nat /\ NLeafs \in Nat /\ Ids = 1..Total
  BY Dims DEF PlanTypes
<1>1. Widest \in Nat /\ Total * Widest < Limit /\ Limit \in Nat /\ \A s \in Sizes : s <= Widest
  BY WidestFacts
<1>2. at * Widest \in Nat /\ (at + 1) * Widest = at * Widest + Widest
  BY <1>0, <1>1, Times
<1>3. at < Total => at * Widest + Widest < Limit
  <2>1. ASSUME at < Total PROVE at * Widest + Widest < Limit
    <3>. DEFINE a == at + 1
    <3>1. a \in Nat /\ a <= Total
      BY <1>0, <2>1
    <3>. HIDE DEF a
    <3>2. a * Widest <= Total * Widest /\ a * Widest \in Nat
      BY <1>0, <1>1, <3>1, Times
    <3>3. Total * Widest \in Nat
      BY <1>0, <1>1, Times
    <3>4. a * Widest = at * Widest + Widest
      BY <1>2 DEF a
    <3>. QED
      BY <1>1, <3>2, <3>3, <3>4
  <2>. QED
    BY <2>1
<1>4. ASSUME NEW t \in Ids
      PROVE  /\ graph[t].size \in Nat /\ graph[t].size > 0 /\ graph[t].size <= Widest
             /\ offset[t] \in Nat /\ allocated[t] \in BOOLEAN
  <2>1. graph[t].size \in Sizes /\ graph[t].size \in Nat /\ graph[t].size > 0
    BY GraphFacts
  <2>. QED
    BY <1>1, <2>1 DEF PlanTypes
<1>. QED
  BY <1>0, <1>2, <1>3, <1>4

LEMMA Later ==
  ASSUME NEW blocks, NEW m \in Nat, NEW k \in Nat, m <= k, EndsIn(blocks, m), Sorted(blocks)
  PROVE  EndsIn(blocks, k)
<1>1. /\ Len(blocks) > 0
      /\ blocks[Len(blocks)].offset + blocks[Len(blocks)].size = Limit
      /\ blocks[Len(blocks)].offset <= m
  BY DEF EndsIn
<1>2. Len(blocks) \in 1..Len(blocks) /\ blocks[Len(blocks)].offset \in Nat
  BY <1>1, BlockFacts
<1>. QED
  BY <1>1, <1>2 DEF EndsIn

LEMMA StayMem ==
  ASSUME MemInv, UNCHANGED <<graph, at, tallocVars>>
  PROVE  MemInv'
BY DEF MemInv, Tiled, High, Dead, Clash, Placed, Has, ReadBy, InPlace, Root, IsView, Ids, Nodes, tallocVars

LEMMA SkipMem ==
  ASSUME GraphOK, PlanTypes, MemInv, UNCHANGED <<graph, tallocVars>>,
         at < Total, at' = at + 1, IsView(at + 1)
  PROVE  MemInv'
<1>0. /\ at \in Nat /\ Total \in Nat /\ NLeafs \in Nat /\ Ids = 1..Total
      /\ at * Widest \in Nat /\ (at + 1) * Widest = at * Widest + Widest
  BY PlanNumbers
<1>1. /\ graph' = graph /\ offset' = offset /\ allocated' = allocated /\ free_blocks' = free_blocks
      /\ max_size' = max_size /\ Ids' = Ids /\ Nodes' = Nodes
  BY DEF tallocVars, Ids, Nodes
<1>2. \A t \in Ids : Placed(t)' <=> Placed(t)
  BY <1>0, <1>1 DEF Placed, IsView
<1>3. /\ \A t, u : Has(t, u)' <=> Has(t, u)
      /\ \A n, s : ReadBy(n, s)' <=> ReadBy(n, s)
      /\ \A s, t : InPlace(s, t)' <=> InPlace(s, t)
  BY <1>1 DEF Has, ReadBy, InPlace, Root, IsView
<1>4. EndsIn(free_blocks, (at + 1) * Widest)
  <2>1. Widest \in Nat
    BY WidestFacts
  <2>2. at * Widest <= at * Widest + Widest /\ at * Widest + Widest \in Nat
    BY <1>0, <2>1
  <2>3. EndsIn(free_blocks, at * Widest + Widest)
    BY <1>0, <2>2, Later DEF MemInv, Tiled
  <2>. QED
    BY <1>0, <2>3
<1>5. Tiled'
  BY <1>1, <1>2, <1>3, <1>4 DEF MemInv, Tiled
<1>6. High'
  BY <1>1, <1>2 DEF MemInv, High
<1>7. Dead'
  BY <1>0, <1>1, <1>2, <1>3 DEF MemInv, Dead, Nodes
<1>8. Clash'
  BY <1>1, <1>2, <1>3 DEF MemInv, Clash
<1>. QED
  BY <1>5, <1>6, <1>7, <1>8 DEF MemInv

LEMMA PlaceMem ==
  ASSUME GraphOK, PlanTypes, MemInv, UNCHANGED graph,
         at < Total, at' = at + 1, ~IsView(at + 1), NEW t, t = at + 1, Place(t)
  PROVE  MemInv' /\ offset' \in [Ids -> Nat] /\ allocated' \in [Ids -> BOOLEAN] /\ max_size' \in Nat
<1>0. /\ at \in Nat /\ Total \in Nat /\ NLeafs \in Nat /\ Ids = 1..Total
      /\ at * Widest \in Nat /\ (at + 1) * Widest = at * Widest + Widest
      /\ \A k \in Ids : /\ graph[k].size \in Nat /\ graph[k].size > 0 /\ graph[k].size <= Widest
                        /\ offset[k] \in Nat
      /\ at * Widest + Widest < Limit
  BY PlanNumbers
<1>1. t \in Ids /\ t \in Nat /\ Widest \in Nat /\ Limit \in Nat /\ max_size \in Nat
  <2>1. Widest \in Nat /\ Limit \in Nat
    BY WidestFacts
  <2>2. max_size \in Nat
    BY DEF PlanTypes
  <2>3. t \in Ids /\ t \in Nat
    BY <1>0
  <2>. QED
    BY <2>1, <2>2, <2>3
<1>2. PICK size : size = graph[t].size
  OBVIOUS
<1>3. PICK start : start = free_blocks[BestFit(free_blocks, size)].offset
  OBVIOUS
<1>4. PICK m : m = at * Widest
  OBVIOUS
<1>5. size \in Nat \ {0} /\ m \in Nat /\ m + size < Limit /\ size <= Widest
  BY <1>0, <1>1, <1>2, <1>4
<1>6. free_blocks' = tallocr_alloc(free_blocks, size)
  BY <1>2 DEF Place
<1>7. Sorted(free_blocks) /\ EndsIn(free_blocks, m)
  BY <1>4 DEF MemInv, Tiled
<1>8. /\ Sorted(free_blocks') /\ EndsIn(free_blocks', m + size) /\ start \in Nat
      /\ \A u \in Nat : InRange(start, size, u) => FreeIn(free_blocks, u)
      /\ \A u \in Nat : FreeIn(free_blocks', u) <=> FreeIn(free_blocks, u) /\ ~InRange(start, size, u)
  BY ONLY <1>1, <1>3, <1>5, <1>6, <1>7, AllocFacts
<1>9. /\ allocated' = [allocated EXCEPT ![t] = TRUE] /\ offset' = [offset EXCEPT ![t] = start]
      /\ max_size' = HighWater(max_size, start, size)
  BY <1>2, <1>3 DEF Place
<1>10. /\ offset' \in [Ids -> Nat] /\ allocated' \in [Ids -> BOOLEAN]
       /\ offset'[t] = start /\ allocated'[t]
       /\ \A k \in Ids : k # t => offset'[k] = offset[k] /\ (allocated'[k] <=> allocated[k])
  BY <1>1, <1>8, <1>9 DEF PlanTypes
<1>11. max_size' \in Nat /\ max_size' >= max_size /\ max_size' >= start + size
  BY <1>1, <1>5, <1>8, <1>9 DEF HighWater
<1>12. Ids' = Ids /\ Nodes' = Nodes
  BY DEF Ids, Nodes
<1>13. /\ \A k \in Ids : k # t => \A u \in Nat : Has(k, u)' <=> Has(k, u)
       /\ \A u \in Nat : Has(t, u)' <=> InRange(start, size, u)
  BY <1>1, <1>2, <1>10 DEF Has
<1>14. \A k \in Ids : k # t => (Placed(k)' <=> Placed(k))
  BY <1>0 DEF Placed, IsView
<1>15. Placed(t)' /\ ~Placed(t) /\ ~allocated[t]
  BY <1>0, <1>1 DEF Placed, IsView, MemInv, Tiled
<1>16. \A n, s : ReadBy(n, s)' <=> ReadBy(n, s)
  BY DEF ReadBy, Root, IsView
<1>17. Tiled'
  <2>1. EndsIn(free_blocks', (at + 1) * Widest)
    <3>1. m + size \in Nat /\ m + Widest \in Nat /\ m + size <= m + Widest
      BY <1>1, <1>5
    <3>. DEFINE a == m + size
                b == m + Widest
    <3>. HIDE DEF a, b
    <3>2. a \in Nat /\ b \in Nat /\ a <= b /\ EndsIn(free_blocks', a) /\ Sorted(free_blocks')
      BY <1>8, <3>1 DEF a, b
    <3>3. EndsIn(free_blocks', b)
      BY ONLY <3>2, Later
    <3>. QED
      BY <1>0, <1>4, <3>3 DEF b
  <2>2. \A k \in Ids : allocated'[k] => Placed(k)'
    BY <1>10, <1>14, <1>15 DEF MemInv, Tiled
  <2>3. ASSUME NEW k \in Ids, allocated'[k], NEW u \in Nat, Has(k, u)'
        PROVE  u < Limit /\ ~FreeIn(free_blocks', u)
    <3>1. CASE k = t
      BY <1>8, <1>13, <2>3, <3>1 DEF MemInv, Tiled
    <3>2. CASE k # t
      BY <1>8, <1>10, <1>13, <2>3, <3>2 DEF MemInv, Tiled
    <3>. QED
      BY <3>1, <3>2
  <2>4. ASSUME NEW k \in Ids, NEW l \in Ids, allocated'[k], allocated'[l], k # l, NEW u \in Nat
        PROVE  ~(Has(k, u)' /\ Has(l, u)')
    <3>1. CASE k = t
      BY <1>8, <1>10, <1>13, <2>4, <3>1 DEF MemInv, Tiled
    <3>2. CASE l = t
      BY <1>8, <1>10, <1>13, <2>4, <3>2 DEF MemInv, Tiled
    <3>3. CASE k # t /\ l # t
      BY <1>10, <1>13, <2>4, <3>3 DEF MemInv, Tiled
    <3>. QED
      BY <3>1, <3>2, <3>3
  <2>5. \A u \in Nat : FreeIn(free_blocks', u) => u < Limit
    BY <1>8 DEF MemInv, Tiled
  <2>6. ASSUME NEW u \in Nat, u < Limit
        PROVE  FreeIn(free_blocks', u) \/ \E k \in Ids : allocated'[k] /\ Has(k, u)'
    <3>1. CASE InRange(start, size, u)
      BY <1>1, <1>10, <1>13, <3>1
    <3>2. CASE ~InRange(start, size, u) /\ FreeIn(free_blocks, u)
      BY <1>8, <3>2
    <3>3. CASE ~FreeIn(free_blocks, u)
      <4>1. PICK k \in Ids : allocated[k] /\ Has(k, u)
        BY <2>6, <3>3 DEF MemInv, Tiled
      <4>2. k # t
        BY <1>15, <4>1
      <4>. QED
        BY <1>10, <1>13, <4>1, <4>2
    <3>. QED
      BY <3>1, <3>2, <3>3
  <2>. QED
    BY <1>8, <1>12, <2>1, <2>2, <2>3, <2>4, <2>5, <2>6 DEF Tiled
<1>18. High'
  <2>1. ASSUME NEW k \in Ids, Placed(k)' PROVE offset'[k] + graph[k].size <= max_size'
    <3>1. CASE k = t
      BY <1>2, <1>10, <1>11, <3>1
    <3>2. CASE k # t
      <4>1. offset[k] + graph[k].size <= max_size
        BY <1>14, <2>1, <3>2 DEF MemInv, High
      <4>2. offset'[k] = offset[k] /\ offset[k] \in Nat /\ graph[k].size \in Nat
        BY <1>0, <1>10, <3>2
      <4>. QED
        BY <1>1, <1>11, <4>1, <4>2
    <3>. QED
      BY <3>1, <3>2
  <2>. QED
    BY <1>12, <2>1 DEF High
<1>19. Dead'
  <2>1. ASSUME NEW s \in Ids, Placed(s)', ~allocated'[s]
        PROVE  at' > NLeafs /\ ~graph[s].output /\ \A n \in Nodes : ReadBy(n, s) => n <= at'
    <3>1. s # t
      BY <1>10, <2>1
    <3>2. Placed(s) /\ ~allocated[s]
      BY <1>10, <1>14, <2>1, <3>1
    <3>3. at > NLeafs /\ ~graph[s].output /\ \A n \in Nodes : ReadBy(n, s) => n <= at
      BY <3>2 DEF MemInv, Dead
    <3>4. \A n \in Nodes : n \in Nat
      BY <1>0 DEF Nodes
    <3>. QED
      BY <1>0, <3>3, <3>4
  <2>. QED
    BY <1>12, <1>16, <2>1 DEF Dead
<1>20. Clash'
  <2>1. ASSUME NEW s \in Ids, NEW k \in Ids, s < k, Placed(s)', Placed(k)',
               NEW u \in Nat, Has(s, u)', Has(k, u)'
        PROVE  /\ ~allocated'[s] /\ k > NLeafs
               /\ \A n \in Nodes : ReadBy(n, s) => n < k \/ (n = k /\ InPlace(s, k)')
    <3>1. s # t /\ Placed(s)
      BY <1>0, <1>1, <1>14, <2>1 DEF Placed
    <3>2. CASE k = t
      <4>1. FreeIn(free_blocks, u) /\ Has(s, u)
        BY <1>8, <1>13, <2>1, <3>1, <3>2
      <4>2. ~allocated[s]
        BY <4>1 DEF MemInv, Tiled
      <4>3. at > NLeafs /\ \A n \in Nodes : ReadBy(n, s) => n <= at
        BY <3>1, <4>2 DEF MemInv, Dead
      <4>4. \A n \in Nodes : n \in Nat
        BY <1>0 DEF Nodes
      <4>. QED
        BY <1>0, <1>10, <3>1, <3>2, <4>2, <4>3, <4>4
    <3>3. CASE k # t
      <4>1. Placed(k) /\ Has(s, u) /\ Has(k, u)
        BY <1>13, <1>14, <2>1, <3>1, <3>3
      <4>2. /\ ~allocated[s] /\ k > NLeafs
            /\ \A n \in Nodes : ReadBy(n, s) => n < k \/ (n = k /\ InPlace(s, k))
        BY <2>1, <3>1, <4>1 DEF MemInv, Clash
      <4>3. InPlace(s, k) => InPlace(s, k)'
        BY <1>10, <3>1, <3>3 DEF InPlace
      <4>. QED
        BY <1>10, <3>1, <4>2, <4>3
    <3>. QED
      BY <3>2, <3>3
  <2>. QED
    BY <1>12, <1>16, <2>1 DEF Clash
<1>. QED
  BY <1>10, <1>11, <1>17, <1>18, <1>19, <1>20 DEF MemInv

LEMMA TakeMem ==
  ASSUME GraphOK, PlanTypes, MemInv, UNCHANGED graph,
         at < Total, at' = at + 1, ~IsView(at + 1), NEW t, t = at + 1, t > NLeafs,
         NEW p \in Ids, p < t, TakeOver(t, p), allocated[p], ~graph[p].output,
         graph[t].size = graph[p].size, graph[t].op = "inplace",
         \A n \in Nodes : ReadBy(n, p) => n <= t
  PROVE  MemInv' /\ offset' \in [Ids -> Nat] /\ allocated' \in [Ids -> BOOLEAN]
<1>0. /\ at \in Nat /\ Total \in Nat /\ NLeafs \in Nat /\ Ids = 1..Total
      /\ at * Widest \in Nat /\ (at + 1) * Widest = at * Widest + Widest
      /\ \A k \in Ids : graph[k].size \in Nat /\ offset[k] \in Nat
  BY PlanNumbers
<1>1. t \in Ids /\ t \in Nat /\ p # t /\ p \in Nat
  BY <1>0
<1>2. Placed(p)
  BY DEF MemInv, Tiled
<1>3. /\ allocated' = [allocated EXCEPT ![t] = TRUE, ![p] = FALSE]
      /\ offset' = [offset EXCEPT ![t] = offset[p]]
      /\ free_blocks' = free_blocks /\ max_size' = max_size
  BY DEF TakeOver
<1>4. /\ offset' \in [Ids -> Nat] /\ allocated' \in [Ids -> BOOLEAN]
      /\ offset'[t] = offset[p] /\ allocated'[t] /\ ~allocated'[p]
      /\ \A k \in Ids : k # t => offset'[k] = offset[k]
      /\ \A k \in Ids : k # t /\ k # p => (allocated'[k] <=> allocated[k])
  BY <1>0, <1>1, <1>3 DEF PlanTypes
<1>5. Ids' = Ids /\ Nodes' = Nodes
  BY DEF Ids, Nodes
<1>6. /\ \A k \in Ids : k # t => \A u \in Nat : Has(k, u)' <=> Has(k, u)
      /\ \A u \in Nat : Has(t, u)' <=> Has(p, u)
  BY <1>1, <1>4 DEF Has
<1>7. \A k \in Ids : k # t => (Placed(k)' <=> Placed(k))
  BY <1>0 DEF Placed, IsView
<1>8. Placed(t)' /\ ~Placed(t) /\ ~allocated[t]
  BY <1>0, <1>1 DEF Placed, IsView, MemInv, Tiled
<1>9. \A n, s : ReadBy(n, s)' <=> ReadBy(n, s)
  BY DEF ReadBy, Root, IsView
<1>10. \A n \in Nodes : n \in Nat
  BY <1>0 DEF Nodes
<1>11. Tiled'
  <2>1. EndsIn(free_blocks', (at + 1) * Widest) /\ Sorted(free_blocks')
    <3>1. Widest \in Nat
      BY WidestFacts
    <3>2. at * Widest <= at * Widest + Widest /\ at * Widest + Widest \in Nat
      BY <1>0, <3>1
    <3>3. EndsIn(free_blocks, at * Widest + Widest)
      BY <1>0, <3>2, Later DEF MemInv, Tiled
    <3>. QED
      BY <1>0, <1>3, <3>3 DEF MemInv, Tiled
  <2>2. \A k \in Ids : allocated'[k] => Placed(k)'
    BY <1>4, <1>7, <1>8 DEF MemInv, Tiled
  <2>3. ASSUME NEW k \in Ids, allocated'[k], NEW u \in Nat, Has(k, u)'
        PROVE  u < Limit /\ ~FreeIn(free_blocks', u)
    <3>1. CASE k = t
      BY <1>3, <1>6, <2>3, <3>1 DEF MemInv, Tiled
    <3>2. CASE k # t
      <4>1. k # p
        BY <1>4, <2>3
      <4>. QED
        BY <1>3, <1>4, <1>6, <2>3, <3>2, <4>1 DEF MemInv, Tiled
    <3>. QED
      BY <3>1, <3>2
  <2>4. ASSUME NEW k \in Ids, NEW l \in Ids, allocated'[k], allocated'[l], k # l, NEW u \in Nat
        PROVE  ~(Has(k, u)' /\ Has(l, u)')
    <3>0. k # p /\ l # p
      BY <1>4, <2>4
    <3>1. CASE k = t
      <4>1. allocated[l] /\ (Has(l, u)' <=> Has(l, u))
        BY <1>4, <1>6, <2>4, <3>0, <3>1
      <4>. QED
        BY <1>6, <2>4, <3>0, <3>1, <4>1 DEF MemInv, Tiled
    <3>2. CASE l = t
      <4>1. allocated[k] /\ (Has(k, u)' <=> Has(k, u))
        BY <1>4, <1>6, <2>4, <3>0, <3>2
      <4>. QED
        BY <1>6, <2>4, <3>0, <3>2, <4>1 DEF MemInv, Tiled
    <3>3. CASE k # t /\ l # t
      BY <1>4, <1>6, <2>4, <3>0, <3>3 DEF MemInv, Tiled
    <3>. QED
      BY <3>1, <3>2, <3>3
  <2>5. \A u \in Nat : FreeIn(free_blocks', u) => u < Limit
    BY <1>3 DEF MemInv, Tiled
  <2>6. ASSUME NEW u \in Nat, u < Limit
        PROVE  FreeIn(free_blocks', u) \/ \E k \in Ids : allocated'[k] /\ Has(k, u)'
    <3>1. CASE FreeIn(free_blocks, u)
      BY <1>3, <3>1
    <3>2. CASE ~FreeIn(free_blocks, u)
      <4>1. PICK k \in Ids : allocated[k] /\ Has(k, u)
        BY <2>6, <3>2 DEF MemInv, Tiled
      <4>2. k # t
        BY <1>8, <4>1
      <4>3. CASE k = p
        BY <1>1, <1>4, <1>6, <4>1, <4>3
      <4>4. CASE k # p
        BY <1>4, <1>6, <4>1, <4>2, <4>4
      <4>. QED
        BY <4>3, <4>4
    <3>. QED
      BY <3>1, <3>2
  <2>. QED
    BY <1>5, <2>1, <2>2, <2>3, <2>4, <2>5, <2>6 DEF Tiled
<1>12. High'
  <2>1. ASSUME NEW k \in Ids, Placed(k)' PROVE offset'[k] + graph[k].size <= max_size'
    <3>1. CASE k = t
      BY <1>2, <1>3, <1>4, <3>1 DEF MemInv, High
    <3>2. CASE k # t
      BY <1>3, <1>4, <1>7, <2>1, <3>2 DEF MemInv, High
    <3>. QED
      BY <3>1, <3>2
  <2>. QED
    BY <1>5, <2>1 DEF High
<1>13. Dead'
  <2>1. ASSUME NEW s \in Ids, Placed(s)', ~allocated'[s]
        PROVE  at' > NLeafs /\ ~graph[s].output /\ \A n \in Nodes : ReadBy(n, s) => n <= at'
    <3>1. s # t
      BY <1>4, <2>1
    <3>2. CASE s = p
      BY <3>2
    <3>3. CASE s # p
      <4>1. Placed(s) /\ ~allocated[s]
        BY <1>4, <1>7, <2>1, <3>1, <3>3
      <4>2. at > NLeafs /\ ~graph[s].output /\ \A n \in Nodes : ReadBy(n, s) => n <= at
        BY <4>1 DEF MemInv, Dead
      <4>. QED
        BY <1>0, <1>10, <4>2
    <3>. QED
      BY <3>2, <3>3
  <2>. QED
    BY <1>5, <1>9, <2>1 DEF Dead
<1>14. Clash'
  <2>1. ASSUME NEW s \in Ids, NEW k \in Ids, s < k, Placed(s)', Placed(k)',
               NEW u \in Nat, Has(s, u)', Has(k, u)'
        PROVE  /\ ~allocated'[s] /\ k > NLeafs
               /\ \A n \in Nodes : ReadBy(n, s) => n < k \/ (n = k /\ InPlace(s, k)')
    <3>1. s # t /\ Placed(s)
      BY <1>0, <1>1, <1>7, <2>1 DEF Placed
    <3>2. CASE k = t
      <4>1. Has(p, u) /\ Has(s, u)
        BY <1>6, <2>1, <3>1, <3>2
      <4>2. CASE s = p
        <5>1. InPlace(s, k)'
          BY <1>4, <3>2, <4>2 DEF InPlace
        <5>2. \A n \in Nodes : ReadBy(n, s) => n < k \/ n = k
          BY <1>1, <1>10, <3>2, <4>2
        <5>. QED
          BY <1>4, <3>2, <4>2, <5>1, <5>2
      <4>3. CASE s < p
        <5>1. /\ ~allocated[s]
              /\ \A n \in Nodes : ReadBy(n, s) => n < p \/ (n = p /\ InPlace(s, p))
          BY <1>2, <3>1, <4>1, <4>3 DEF MemInv, Clash
        <5>2. s # p
          BY <1>0, <1>1, <4>3
        <5>. QED
          BY <1>1, <1>4, <1>10, <3>1, <3>2, <5>1, <5>2
      <4>4. CASE s > p
        <5>1. ~allocated[p]
          BY <1>2, <3>1, <4>1, <4>4 DEF MemInv, Clash
        <5>. QED
          BY <5>1
      <4>. QED
        BY <1>0, <1>1, <4>2, <4>3, <4>4
    <3>3. CASE k # t
      <4>1. Placed(k) /\ Has(s, u) /\ Has(k, u)
        BY <1>6, <1>7, <2>1, <3>1, <3>3
      <4>2. /\ ~allocated[s] /\ k > NLeafs
            /\ \A n \in Nodes : ReadBy(n, s) => n < k \/ (n = k /\ InPlace(s, k))
        BY <2>1, <3>1, <4>1 DEF MemInv, Clash
      <4>3. InPlace(s, k) => InPlace(s, k)'
        BY <1>4, <3>1, <3>3 DEF InPlace
      <4>4. ~allocated'[s]
        BY <1>4, <3>1, <4>2
      <4>. QED
        BY <4>2, <4>3, <4>4
    <3>. QED
      BY <3>2, <3>3
  <2>. QED
    BY <1>5, <1>9, <2>1 DEF Clash
<1>. QED
  BY <1>4, <1>11, <1>12, <1>13, <1>14 DEF MemInv

LEMMA FreeMem ==
  ASSUME GraphOK, PlanTypes, MemInv, UNCHANGED <<graph, at, offset, max_size>>,
         NEW s \in Ids, allocated[s], ~graph[s].output, at > NLeafs,
         \A n \in Nodes : ReadBy(n, s) => n <= at,
         allocated' = [allocated EXCEPT ![s] = FALSE],
         free_blocks' = tallocr_free(free_blocks, offset[s], graph[s].size)
  PROVE  MemInv' /\ allocated' \in [Ids -> BOOLEAN]
<1>0. /\ at \in Nat /\ Total \in Nat /\ NLeafs \in Nat /\ Ids = 1..Total /\ at * Widest \in Nat
      /\ \A k \in Ids : graph[k].size \in Nat /\ graph[k].size > 0 /\ offset[k] \in Nat
  BY PlanNumbers
<1>1. PICK size : size = graph[s].size
  OBVIOUS
<1>2. PICK start : start = offset[s]
  OBVIOUS
<1>3. PICK m : m = at * Widest
  OBVIOUS
<1>4. size \in Nat \ {0} /\ start \in Nat /\ m \in Nat /\ size \in Nat /\ size > 0
  BY <1>0, <1>1, <1>2, <1>3
<1>5. Limit \in Nat
  BY WidestFacts
<1>6. \A u \in Nat : Has(s, u) <=> InRange(start, size, u)
  BY <1>1, <1>2 DEF Has
<1>7. \A u \in Nat : InRange(start, size, u) => u < Limit /\ ~FreeIn(free_blocks, u)
  BY <1>6 DEF MemInv, Tiled
<1>8. start + size <= Limit
  <2>1. start + size - 1 \in Nat /\ InRange(start, size, start + size - 1)
    BY <1>4 DEF InRange
  <2>2. start + size - 1 < Limit
    BY <1>7, <2>1
  <2>. QED
    BY <1>4, <1>5, <2>2
<1>9. Sorted(free_blocks) /\ EndsIn(free_blocks, m) /\ free_blocks' = tallocr_free(free_blocks, start, size)
  BY <1>1, <1>2, <1>3 DEF MemInv, Tiled
<1>10. \A u \in Nat : InRange(start, size, u) => ~FreeIn(free_blocks, u)
  BY <1>7
<1>11. /\ Sorted(free_blocks') /\ EndsIn(free_blocks', m)
       /\ \A u \in Nat : FreeIn(free_blocks', u) <=> FreeIn(free_blocks, u) \/ InRange(start, size, u)
  BY ONLY <1>4, <1>5, <1>8, <1>9, <1>10, FreeFacts
<1>12. /\ allocated' \in [Ids -> BOOLEAN] /\ ~allocated'[s]
       /\ \A k \in Ids : k # s => (allocated'[k] <=> allocated[k])
  BY DEF PlanTypes
<1>13. Ids' = Ids /\ Nodes' = Nodes
  BY DEF Ids, Nodes
<1>14. /\ \A t, u : Has(t, u)' <=> Has(t, u)
       /\ \A n, k : ReadBy(n, k)' <=> ReadBy(n, k)
       /\ \A k, t : InPlace(k, t)' <=> InPlace(k, t)
       /\ \A k : Placed(k)' <=> Placed(k)
  BY DEF Has, ReadBy, InPlace, Placed, Root, IsView
<1>15. Tiled'
  <2>1. \A k \in Ids : allocated'[k] => Placed(k)
    BY <1>12 DEF MemInv, Tiled
  <2>2. ASSUME NEW k \in Ids, allocated'[k], NEW u \in Nat, Has(k, u)
        PROVE  u < Limit /\ ~FreeIn(free_blocks', u)
    <3>1. k # s /\ allocated[k]
      BY <1>12, <2>2
    <3>2. u < Limit /\ ~FreeIn(free_blocks, u) /\ ~Has(s, u)
      BY <2>2, <3>1 DEF MemInv, Tiled
    <3>. QED
      BY <1>6, <1>11, <3>2
  <2>3. ASSUME NEW k \in Ids, NEW l \in Ids, allocated'[k], allocated'[l], k # l, NEW u \in Nat
        PROVE  ~(Has(k, u) /\ Has(l, u))
    <3>1. allocated[k] /\ allocated[l]
      BY <1>12, <2>3
    <3>. QED
      BY <2>3, <3>1 DEF MemInv, Tiled
  <2>4. \A u \in Nat : FreeIn(free_blocks', u) => u < Limit
    BY <1>7, <1>11 DEF MemInv, Tiled
  <2>5. ASSUME NEW u \in Nat, u < Limit
        PROVE  FreeIn(free_blocks', u) \/ \E k \in Ids : allocated'[k] /\ Has(k, u)
    <3>1. CASE FreeIn(free_blocks, u)
      BY <1>11, <3>1
    <3>2. CASE ~FreeIn(free_blocks, u)
      <4>1. PICK k \in Ids : allocated[k] /\ Has(k, u)
        BY <2>5, <3>2 DEF MemInv, Tiled
      <4>. QED
        BY <1>6, <1>11, <1>12, <4>1
    <3>. QED
      BY <3>1, <3>2
  <2>. QED
    BY <1>3, <1>11, <1>13, <1>14, <2>1, <2>2, <2>3, <2>4, <2>5 DEF Tiled
<1>16. High'
  BY <1>13, <1>14 DEF MemInv, High
<1>17. Dead'
  <2>1. ASSUME NEW k \in Ids, Placed(k), ~allocated'[k]
        PROVE  at > NLeafs /\ ~graph[k].output /\ \A n \in Nodes : ReadBy(n, k) => n <= at
    BY <1>12, <2>1 DEF MemInv, Dead
  <2>. QED
    BY <1>13, <1>14, <2>1 DEF Dead
<1>18. Clash'
  <2>1. ASSUME NEW k \in Ids, ~allocated[k] PROVE ~allocated'[k]
    BY <1>12, <2>1
  <2>. QED
    BY <1>13, <1>14, <2>1 DEF MemInv, Clash
<1>. QED
  BY <1>12, <1>15, <1>16, <1>17, <1>18 DEF MemInv

(***************************************************************************)
(* The steps of a plan.                                                    *)
(***************************************************************************)
LEMMA BeginPlans ==
  ASSUME GraphOK, alloc_graph, needs_realloc
  PROVE  PlanInv' /\ phase' = "plan"
<1>0. /\ Len(graph) = Total /\ at' = 0 /\ graph' = graph /\ phase' = "plan" /\ Begin
  BY DEF alloc_graph, Total
<1>1. /\ Ids = 1..Total /\ Total \in Nat /\ NLeafs \in Nat /\ Ids' = Ids /\ Nodes' = Nodes
  BY <1>0, Dims DEF Ids, Nodes
<1>2. /\ n_children' = [t \in Ids |-> Children(t)] /\ n_views' = [t \in Ids |-> Views(t)]
      /\ offset' = [t \in Ids |-> 0] /\ allocated' = [t \in Ids |-> FALSE]
      /\ parents' = 0 /\ max_size' = 0
  BY <1>0 DEF Begin
<1>3. \A s : Readings(s)' = Readings(s)
  BY <1>0, <1>1 DEF Readings
<1>4. ASSUME NEW s PROVE Rest(s)' = Readings(s)
  <2>1. \A r \in Readings(s) : r[1] \in Nat /\ r[1] > NLeafs
    BY ReadingFacts
  <2>2. \A r \in Readings(s) : r[1] > 0
    BY <1>1, <2>1
  <2>. QED
    BY <1>0, <1>2, <1>3, <2>2 DEF Rest
<1>5. ASSUME NEW s PROVE RestViews(s)' = {t \in Nodes : graph[t].view_src = s}
  BY <1>0, <1>1, <1>3, <1>4 DEF RestViews
<1>6. Counted'
  BY <1>1, <1>2, <1>4, <1>5 DEF Counted, Children, Views
<1>7. PlanTypes'
  <2>1. \A t \in Ids : Children(t) \in Nat
    BY FiniteReadings, FS_CardinalityType DEF Children
  <2>2. \A t \in Ids : Views(t) \in Nat
    <3>1. TAKE t \in Ids
    <3>2. {v \in Nodes : graph[v].view_src = t} \subseteq Nodes /\ IsFiniteSet(Nodes)
      BY FiniteReadings
    <3>. QED
      BY <3>2, FS_Subset, FS_CardinalityType DEF Views
  <2>. QED
    BY <1>0, <1>1, <1>2, <2>1, <2>2 DEF PlanTypes
<1>8. \A t \in Ids : ~allocated'[t] /\ ~Placed(t)'
  BY <1>0, <1>1, <1>2 DEF Placed
<1>9. Limit \in Nat /\ Limit > 0 /\ Widest \in Nat
  BY WidestFacts, AllocAssumption
<1>10. PICK b : b = [offset |-> 0, size |-> Limit]
  OBVIOUS
<1>11. b \in Blocks /\ b.offset = 0 /\ b.size = Limit
  BY <1>9, <1>10 DEF Blocks
<1>12. /\ free_blocks' \in Seq(Blocks) /\ Len(free_blocks') = 1 /\ free_blocks'[1] = b
       /\ DOMAIN free_blocks' = 1..1
  BY <1>0, <1>10, <1>11 DEF Begin
<1>13. Sorted(free_blocks') /\ EndsIn(free_blocks', 0)
  <2>1. \A i, j \in 1..1 : ~(i < j)
    OBVIOUS
  <2>. QED
    BY <1>9, <1>11, <1>12, <2>1 DEF Sorted, EndsIn
<1>14. 0 * Widest = 0
  BY <1>9
<1>15. \A u \in Nat : FreeIn(free_blocks', u) <=> u < Limit
  BY <1>9, <1>11, <1>12 DEF FreeIn, InBlock
<1>16. Tiled'
  BY <1>0, <1>1, <1>8, <1>13, <1>14, <1>15 DEF Tiled
<1>17. High' /\ Dead' /\ Clash' /\ Leak'
  BY <1>1, <1>8 DEF High, Dead, Clash, Leak
<1>. QED
  BY <1>0, <1>6, <1>7, <1>16, <1>17 DEF PlanInv

LEMMA NextLeak ==
  ASSUME GraphOK, PlanTypes, Counted, Leak, UNCHANGED <<graph, n_children, n_views>>,
         NEW t, t = at + 1, \A k \in Ids : k # t /\ allocated'[k] => allocated[k]
  PROVE  Leak'
<1>0. Ids' = Ids /\ (\A s : Readings(s)' = Readings(s)) /\ at \in Nat
  BY DEF Ids, Readings, Nodes, PlanTypes
<1>1. ASSUME t \in Ids, Readings(t) # {} PROVE n_children[t] > 0
  <2>1. Rest(t) = Readings(t)
    <3>1. \A r \in Readings(t) : r[1] \in Nat /\ t \in 1..r[1] - 1
      BY ReadingFacts
    <3>2. \A r \in Readings(t) : r[1] > at
      BY <1>0, <3>1
    <3>. QED
      BY <3>2 DEF Rest
  <2>2. Cardinality(Rest(t)) \in Nat /\ (Cardinality(Rest(t)) = 0 <=> Rest(t) = {})
    BY FiniteReadings, Sub
  <2>3. n_children[t] = Cardinality(Rest(t))
    BY <1>1 DEF Counted
  <2>. QED
    BY <1>1, <2>1, <2>2, <2>3
<1>. QED
  BY <1>0, <1>1 DEF Leak

LEMMA PlanLeafPlans ==
  ASSUME GraphOK, PlanInv, PlanLeaf
  PROVE  PlanInv'
<1>0. /\ PlanTypes /\ Counted /\ MemInv /\ Leak
      /\ at < NLeafs /\ at' = at + 1 /\ Place(at + 1)
      /\ UNCHANGED <<graph, parents, n_children, n_views>>
  BY DEF PlanInv, MemInv, PlanLeaf
<1>1. /\ NLeafs \in Nat /\ Total \in Nat /\ NLeafs <= Total /\ at \in Nat /\ Ids = 1..Total
      /\ Nodes = NLeafs + 1..Total /\ Ids' = Ids
  BY <1>0, Dims DEF PlanTypes, Ids
<1>2. at + 1 \in Ids /\ at + 1 \notin Nodes /\ at < Total
  BY <1>0, <1>1
<1>3. ~IsView(at + 1) /\ graph[at + 1].src = <<>>
  BY <1>2, GraphFacts
<1>4. AllUpdated /\ parents = 0
  <2>1. CASE at = 0
    BY <1>0, <2>1 DEF AllUpdated, PlanTypes
  <2>2. CASE at # 0
    <3>1. at \in Ids /\ at \notin Nodes
      BY <1>0, <1>1, <2>2
    <3>2. graph[at].src = <<>>
      BY <3>1, GraphFacts
    <3>3. Len(graph[at].src) = 0
      BY <3>2
    <3>. QED
      BY <1>0, <1>1, <2>2, <3>3 DEF AllUpdated, PlanTypes
  <2>. QED
    BY <2>1, <2>2
<1>5. Counted'
  BY <1>0, <1>4, NextTensorCounts
<1>6. PICK t : t = at + 1
  OBVIOUS
<1>7. MemInv' /\ offset' \in [Ids -> Nat] /\ allocated' \in [Ids -> BOOLEAN] /\ max_size' \in Nat
  BY <1>0, <1>2, <1>3, <1>6, PlaceMem
<1>8. Leak'
  <2>1. allocated' = [allocated EXCEPT ![t] = TRUE] /\ allocated \in [Ids -> BOOLEAN]
    BY <1>0, <1>6 DEF Place, PlanTypes
  <2>2. \A k \in Ids : k # t /\ allocated'[k] => allocated[k]
    BY <2>1
  <2>. QED
    BY <1>0, <1>6, <2>2, NextLeak
<1>9. PlanTypes'
  <2>1. Len(graph[at + 1].src) = 0
    BY <1>3
  <2>2. /\ Len(graph') = Total /\ at' \in 0..Total /\ parents' \in Nat /\ at' # 0 /\ at' = at + 1
        /\ graph' = graph /\ parents' = 0
    BY <1>0, <1>1, <1>2, <1>4 DEF PlanTypes
  <2>3. parents' <= Len(graph'[at'].src)
    BY <2>1, <2>2
  <2>4. n_children' \in [Ids' -> Nat] /\ n_views' \in [Ids' -> Nat]
    BY <1>0, <1>1 DEF PlanTypes
  <2>. QED
    BY <1>1, <1>7, <2>2, <2>3, <2>4 DEF PlanTypes
<1>. QED
  BY <1>5, <1>7, <1>8, <1>9 DEF PlanInv, MemInv

(* A parent that lets a node take its memory has no other reader.           *)
LEMMA ReusableFacts ==
  ASSUME GraphOK, PlanInv, NEW t \in Nodes, t = at + 1,
         NEW j \in DOMAIN graph[t].src, NEW p, p = graph[t].src[j], Reusable(t, p)
  PROVE  /\ p \in Ids /\ p < t /\ allocated[p] /\ ~graph[p].output /\ graph[t].size = graph[p].size
         /\ \A n \in Nodes : ReadBy(n, p) => n <= t
<1>0. t \in Ids /\ t \in Nat /\ at \in Nat
  BY Dims, GraphFacts DEF PlanInv, PlanTypes
<1>1. p \in 1..t - 1 /\ p \in Ids
  BY <1>0, GraphFacts
<1>2. allocated[p] /\ ~graph[p].output /\ graph[t].size = graph[p].size /\ n_children[p] = 1 /\ n_views[p] = 0
  BY DEF Reusable
<1>3. ~IsView(p)
  BY <1>1, <1>2 DEF PlanInv, Tiled, Placed
<1>4. PICK r0 : r0 = <<t, j>>
  OBVIOUS
<1>5. r0 \in Readings(p) /\ r0[1] = t
  BY <1>4, ReadingFacts
<1>6. r0 \in Rest(p)
  BY <1>0, <1>5 DEF Rest
<1>7. Rest(p) = {r0}
  <2>1. Cardinality(Rest(p)) = 1
    BY <1>1, <1>2 DEF PlanInv, Counted
  <2>. QED
    BY <1>6, <2>1, FiniteReadings, Sub
<1>8. RestViews(p) = {}
  <2>1. Cardinality(RestViews(p)) = 0
    BY <1>1, <1>2 DEF PlanInv, Counted
  <2>. QED
    BY <2>1, FiniteReadings, Sub
<1>9. ASSUME NEW n \in Nodes, ReadBy(n, p) PROVE n <= t
  <2>1. \A r \in Rest(p) : r[1] <= t
    BY <1>0, <1>5, <1>7
  <2>2. \A v \in RestViews(p) : \A r \in Rest(v) : r[1] <= t
    BY <1>8
  <2>3. PlanTypes /\ at <= t
    BY <1>0 DEF PlanInv
  <2>. QED
    BY <1>0, <1>1, <1>3, <1>9, <2>1, <2>2, <2>3, NoReaders
<1>10. p < t
  BY ONLY <1>0, <1>1
<1>. QED
  BY <1>1, <1>2, <1>9, <1>10

LEMMA PlanNodePlans ==
  ASSUME GraphOK, PlanInv, PlanNode
  PROVE  PlanInv'
<1>0. /\ PlanTypes /\ Counted /\ MemInv /\ Leak
      /\ at \in NLeafs..Len(graph) - 1 /\ AllUpdated /\ at' = at + 1 /\ parents' = 0
      /\ allocate_node(at + 1) /\ UNCHANGED <<graph, n_children, n_views>>
  BY DEF PlanInv, MemInv, PlanNode
<1>1. /\ NLeafs \in Nat /\ Total \in Nat /\ NLeafs <= Total /\ at \in Nat /\ Ids = 1..Total
      /\ Nodes = NLeafs + 1..Total /\ Ids' = Ids /\ Len(graph) = Total
  BY <1>0, Dims DEF PlanTypes, Ids
<1>2. PICK t : t = at + 1
  OBVIOUS
<1>3. t \in Ids /\ t \in Nodes /\ at < Total /\ t > NLeafs /\ t \in Nat
  BY <1>0, <1>1, <1>2
<1>4. Counted'
  BY <1>0, NextTensorCounts
<1>5. ~allocated[t]
  BY <1>1, <1>2, <1>3 DEF PlanInv, Tiled, Placed
<1>6. \/ IsView(t) /\ UNCHANGED tallocVars
      \/ ~IsView(t) /\ Place(t)
      \/ ~IsView(t) /\ graph[t].op = "inplace"
         /\ \E j \in DOMAIN graph[t].src : Reusable(t, graph[t].src[j]) /\ TakeOver(t, graph[t].src[j])
  <2>. DEFINE reusable == {j \in DOMAIN graph[t].src : Reusable(t, graph[t].src[j])}
              first == CHOOSE j \in reusable : \A k \in reusable : j <= k
  <2>1. reusable # {} => first \in reusable
    <3>1. reusable \in SUBSET Nat
      BY <1>3, GraphFacts
    <3>. HIDE DEF reusable
    <3>2. reusable # {} => \E j \in reusable : \A k \in reusable : j <= k
      BY <3>1, LeastNat
    <3>. QED
      BY <3>2
  <2>2. allocate_node(t)
    BY <1>0, <1>2
  <2>3. \/ IsView(t) /\ UNCHANGED tallocVars
        \/ ~IsView(t) /\ Place(t)
        \/ ~IsView(t) /\ graph[t].op = "inplace" /\ reusable # {} /\ TakeOver(t, graph[t].src[first])
    BY <1>5, <2>2 DEF allocate_node
  <2>. QED
    BY <2>1, <2>3
<1>7. ASSUME IsView(t), UNCHANGED tallocVars
      PROVE  MemInv' /\ offset' \in [Ids -> Nat] /\ allocated' \in [Ids -> BOOLEAN] /\ max_size' \in Nat
             /\ \A k \in Ids : k # t /\ allocated'[k] => allocated[k]
  <2>1. MemInv'
    BY <1>0, <1>2, <1>3, <1>7, SkipMem
  <2>2. offset' = offset /\ allocated' = allocated /\ max_size' = max_size
    BY <1>7 DEF tallocVars
  <2>. QED
    BY <1>0, <2>1, <2>2 DEF PlanTypes
<1>8. ASSUME ~IsView(t), Place(t)
      PROVE  MemInv' /\ offset' \in [Ids -> Nat] /\ allocated' \in [Ids -> BOOLEAN] /\ max_size' \in Nat
             /\ \A k \in Ids : k # t /\ allocated'[k] => allocated[k]
  <2>1. MemInv' /\ offset' \in [Ids -> Nat] /\ allocated' \in [Ids -> BOOLEAN] /\ max_size' \in Nat
    BY <1>0, <1>2, <1>3, <1>8, PlaceMem
  <2>2. allocated' = [allocated EXCEPT ![t] = TRUE] /\ allocated \in [Ids -> BOOLEAN]
    BY <1>0, <1>8 DEF Place, PlanTypes
  <2>. QED
    BY <2>1, <2>2
<1>9. ASSUME ~IsView(t), graph[t].op = "inplace", NEW j \in DOMAIN graph[t].src,
             Reusable(t, graph[t].src[j]), TakeOver(t, graph[t].src[j])
      PROVE  MemInv' /\ offset' \in [Ids -> Nat] /\ allocated' \in [Ids -> BOOLEAN] /\ max_size' \in Nat
             /\ \A k \in Ids : k # t /\ allocated'[k] => allocated[k]
  <2>1. PICK p : p = graph[t].src[j]
    OBVIOUS
  <2>2. Reusable(t, p) /\ TakeOver(t, p)
    BY <1>9, <2>1
  <2>3. /\ p \in Ids /\ p < t /\ allocated[p] /\ ~graph[p].output /\ graph[t].size = graph[p].size
        /\ \A n \in Nodes : ReadBy(n, p) => n <= t
    BY <1>2, <1>3, <2>1, <2>2, ReusableFacts
  <2>4. MemInv' /\ offset' \in [Ids -> Nat] /\ allocated' \in [Ids -> BOOLEAN]
    BY <1>0, <1>2, <1>3, <1>9, <2>2, <2>3, TakeMem
  <2>5. /\ allocated' = [allocated EXCEPT ![t] = TRUE, ![p] = FALSE] /\ allocated \in [Ids -> BOOLEAN]
        /\ max_size' = max_size /\ max_size \in Nat
    BY <1>0, <2>2 DEF TakeOver, PlanTypes
  <2>. QED
    BY <2>4, <2>5
<1>10. MemInv' /\ offset' \in [Ids -> Nat] /\ allocated' \in [Ids -> BOOLEAN] /\ max_size' \in Nat
       /\ \A k \in Ids : k # t /\ allocated'[k] => allocated[k]
  BY <1>6, <1>7, <1>8, <1>9
<1>11. Leak'
  BY <1>0, <1>2, <1>10, NextLeak
<1>12. PlanTypes'
  <2>1. Len(graph[t].src) \in Nat
    BY <1>3, GraphFacts
  <2>2. Len(graph') = Total /\ at' \in 0..Total /\ parents' \in Nat /\ at' # 0 /\ at' = t /\ graph' = graph
    BY <1>0, <1>1, <1>2, <1>3
  <2>3. parents' <= Len(graph'[at'].src)
    BY <1>0, <2>1, <2>2
  <2>4. n_children' \in [Ids' -> Nat] /\ n_views' \in [Ids' -> Nat]
    BY <1>0, <1>1 DEF PlanTypes
  <2>. QED
    BY <1>1, <1>10, <2>2, <2>3, <2>4 DEF PlanTypes
<1>. QED
  BY <1>4, <1>10, <1>11, <1>12 DEF PlanInv, MemInv

(* What FreeIfOwn does to a tensor that nobody will read.                   *)
LEMMA FreeIfOwnMem ==
  ASSUME GraphOK, PlanTypes, MemInv, UNCHANGED <<graph, at>>, at > NLeafs,
         NEW s \in Ids, FreeIfOwn(s), \A n \in Nodes : ReadBy(n, s) => n <= at
  PROVE  /\ MemInv' /\ offset' \in [Ids -> Nat] /\ allocated' \in [Ids -> BOOLEAN] /\ max_size' \in Nat
         /\ \A k \in Ids : k # s => (allocated'[k] <=> allocated[k])
         /\ graph[s].output \/ ~allocated'[s]
<1>0. offset \in [Ids -> Nat] /\ allocated \in [Ids -> BOOLEAN] /\ max_size \in Nat
  BY DEF PlanTypes
<1>1. CASE UNCHANGED tallocVars /\ (graph[s].output \/ ~allocated[s])
  <2>1. MemInv'
    BY <1>1, StayMem
  <2>2. offset' = offset /\ allocated' = allocated /\ max_size' = max_size
    BY <1>1 DEF tallocVars
  <2>. QED
    BY <1>0, <1>1, <2>1, <2>2
<1>2. CASE /\ allocated[s] /\ ~graph[s].output /\ UNCHANGED <<offset, max_size>>
           /\ allocated' = [allocated EXCEPT ![s] = FALSE]
           /\ free_blocks' = tallocr_free(free_blocks, offset[s], graph[s].size)
  <2>1. MemInv' /\ allocated' \in [Ids -> BOOLEAN]
    BY <1>2, FreeMem
  <2>. QED
    BY <1>0, <1>2, <2>1
<1>. QED
  BY <1>1, <1>2 DEF FreeIfOwn, free_node

LEMMA UpdateParentsPlans ==
  ASSUME GraphOK, PlanInv, UpdateParents
  PROVE  PlanInv'
<1>0. /\ PlanTypes /\ Counted /\ MemInv /\ Leak /\ ~AllUpdated
      /\ parents' = parents + 1 /\ UNCHANGED <<graph, at>>
      /\ update_parent(graph[at].src[parents + 1])
  BY DEF PlanInv, MemInv, UpdateParents
<1>1. /\ NLeafs \in Nat /\ Total \in Nat /\ at \in Nat /\ Ids = 1..Total /\ parents \in Nat
      /\ Nodes = NLeafs + 1..Total /\ Ids' = Ids /\ Len(graph) = Total /\ at > 0
      /\ parents <= Len(graph[at].src) /\ parents # Len(graph[at].src)
  BY <1>0, Dims DEF PlanTypes, Ids, AllUpdated
<1>2. PICK p : p = graph[at].src[parents + 1]
  OBVIOUS
<1>3. update_parent(p)
  BY <1>0, <1>2
<1>4. /\ Counted' /\ p \in Ids /\ p < at /\ at \in Nodes
      /\ n_children[p] > 0 /\ n_children' = [n_children EXCEPT ![p] = n_children[p] - 1]
      /\ n_children' \in [Ids -> Nat] /\ n_views' \in [Ids -> Nat]
      /\ IsView(p) => n_views[p] = 0 /\ n_views[graph[p].view_src] > 0
      /\ n_views' = IF n_children[p] = 1 /\ IsView(p)
                      THEN [n_views EXCEPT ![graph[p].view_src] = n_views[graph[p].view_src] - 1]
                      ELSE n_views
      /\ \A r \in Rest(p) : n_children[p] = 1 => r[1] <= at
      /\ IsView(p) /\ n_children[p] = 1 => p \in RestViews(graph[p].view_src)
  BY <1>0, <1>1, <1>2, <1>3, UpdateCounts
<1>5. at > NLeafs
  BY <1>1, <1>4
<1>6. /\ \A k \in Ids : n_children[k] \in Nat /\ n_views[k] \in Nat
      /\ \A k \in Ids : k # p => n_children'[k] = n_children[k]
      /\ n_children'[p] = n_children[p] - 1
  BY <1>0, <1>4 DEF PlanTypes
<1>7. \A s : Readings(s)' = Readings(s)
  BY <1>0 DEF Readings, Nodes
<1>8. \A k \in Ids : allocated[k] => ~IsView(k)
  BY <1>0 DEF MemInv, Tiled, Placed
<1>. DEFINE Types == /\ offset' \in [Ids -> Nat] /\ allocated' \in [Ids -> BOOLEAN] /\ max_size' \in Nat
<1>9. ASSUME UNCHANGED tallocVars PROVE MemInv' /\ Types /\ allocated' = allocated
  <2>1. MemInv'
    BY <1>0, <1>9, StayMem
  <2>2. offset' = offset /\ allocated' = allocated /\ max_size' = max_size
    BY <1>9 DEF tallocVars
  <2>. QED
    BY <1>0, <2>1, <2>2 DEF PlanTypes
<1>10. ASSUME ~(n_children[p] = 1 /\ n_views[p] = 0) PROVE MemInv' /\ Types /\ Leak'
  <2>1. UNCHANGED tallocVars
    BY <1>3, <1>10 DEF update_parent
  <2>2. n_views' = n_views
    BY <1>4, <1>10
  <2>3. Leak'
    <3>1. ASSUME NEW k \in Ids, allocated[k], ~graph[k].output, Readings(k) # {}
          PROVE  n_children'[k] > 0 \/ n_views'[k] > 0
      <4>1. n_children[k] > 0 \/ n_views[k] > 0
        BY <1>0, <3>1 DEF Leak
      <4>2. CASE k = p
        BY <1>4, <1>6, <1>10, <2>2, <4>2
      <4>3. CASE k # p
        BY <1>6, <2>2, <4>1, <4>3
      <4>. QED
        BY <4>2, <4>3
    <3>. QED
      BY <1>0, <1>1, <1>7, <1>9, <2>1, <3>1 DEF Leak
  <2>. QED
    BY <1>9, <2>1, <2>3
<1>11. ASSUME n_children[p] = 1 /\ n_views[p] = 0 /\ ~IsView(p) PROVE MemInv' /\ Types /\ Leak'
  <2>1. FreeIfOwn(p) /\ n_views' = n_views
    BY <1>3, <1>4, <1>11 DEF update_parent
  <2>2. RestViews(p) = {}
    <3>1. Cardinality(RestViews(p)) = 0
      BY <1>0, <1>4, <1>11 DEF Counted
    <3>. QED
      BY <3>1, FiniteReadings, Sub
  <2>3. \A n \in Nodes : ReadBy(n, p) => n <= at
    <3>1. \A r \in Rest(p) : r[1] <= at
      BY <1>4, <1>11
    <3>2. \A v \in RestViews(p) : \A r \in Rest(v) : r[1] <= at
      BY <2>2
    <3>3. at <= at
      BY <1>1
    <3>4. ASSUME NEW n \in Nodes, ReadBy(n, p) PROVE n <= at
      BY ONLY GraphOK, <1>0, <1>1, <1>4, <1>11, <3>1, <3>2, <3>3, <3>4, NoReaders
    <3>. QED
      BY <3>4
  <2>4. /\ MemInv' /\ Types
        /\ \A k \in Ids : k # p => (allocated'[k] <=> allocated[k])
        /\ graph[p].output \/ ~allocated'[p]
    BY <1>0, <1>4, <1>5, <2>1, <2>3, FreeIfOwnMem
  <2>5. Leak'
    <3>1. ASSUME NEW k \in Ids, allocated'[k], ~graph[k].output, Readings(k) # {}
          PROVE  n_children'[k] > 0 \/ n_views'[k] > 0
      <4>1. k # p /\ allocated[k]
        BY <2>4, <3>1
      <4>2. n_children[k] > 0 \/ n_views[k] > 0
        BY <1>0, <3>1, <4>1 DEF Leak
      <4>. QED
        BY <1>6, <2>1, <4>1, <4>2
    <3>. QED
      BY <1>0, <1>1, <1>7, <3>1 DEF Leak
  <2>. QED
    BY <2>4, <2>5
<1>12. ASSUME n_children[p] = 1 /\ n_views[p] = 0 /\ IsView(p) PROVE MemInv' /\ Types /\ Leak'
  <2>1. PICK s : s = graph[p].view_src
    OBVIOUS
  <2>2. s \in Ids /\ ~IsView(s) /\ s < p
    BY <1>1, <1>4, <1>12, <2>1, ViewFacts
  <2>3. n_views' = [n_views EXCEPT ![s] = n_views[s] - 1] /\ p \in RestViews(s) /\ n_views[s] > 0 /\ p # s
    BY <1>1, <1>4, <1>12, <2>1, <2>2
  <2>4. n_views'[s] = n_views[s] - 1 /\ \A k \in Ids : k # s => n_views'[k] = n_views[k]
    BY <1>0, <2>2, <2>3 DEF PlanTypes
  <2>5. CASE n_views[s] = 1 /\ n_children[s] = 0
    <3>1. FreeIfOwn(s)
      BY <1>3, <1>12, <2>1, <2>5 DEF update_parent
    <3>2. RestViews(s) = {p}
      <4>1. Cardinality(RestViews(s)) = 1
        BY <1>0, <2>2, <2>5 DEF Counted
      <4>. QED
        BY <2>3, <4>1, FiniteReadings, Sub
    <3>3. Rest(s) = {}
      <4>1. Cardinality(Rest(s)) = 0
        BY <1>0, <2>2, <2>5 DEF Counted
      <4>. QED
        BY <4>1, FiniteReadings, Sub
    <3>4. \A n \in Nodes : ReadBy(n, s) => n <= at
      <4>1. \A r \in Rest(s) : r[1] <= at
        BY <3>3
      <4>2. \A v \in RestViews(s) : \A r \in Rest(v) : r[1] <= at
        BY <1>4, <1>12, <3>2
      <4>3. at <= at
        BY <1>1
      <4>4. ASSUME NEW n \in Nodes, ReadBy(n, s) PROVE n <= at
        BY ONLY GraphOK, <1>0, <1>1, <2>2, <4>1, <4>2, <4>3, <4>4, NoReaders
      <4>. QED
        BY <4>4
    <3>5. /\ MemInv' /\ Types
          /\ \A k \in Ids : k # s => (allocated'[k] <=> allocated[k])
          /\ graph[s].output \/ ~allocated'[s]
      BY <1>0, <1>5, <2>2, <3>1, <3>4, FreeIfOwnMem
    <3>6. Leak'
      <4>1. ASSUME NEW k \in Ids, allocated'[k], ~graph[k].output, Readings(k) # {}
            PROVE  n_children'[k] > 0 \/ n_views'[k] > 0
        <5>1. k # s /\ allocated[k]
          BY <3>5, <4>1
        <5>2. k # p
          BY <1>8, <1>12, <5>1
        <5>3. n_children[k] > 0 \/ n_views[k] > 0
          BY <1>0, <4>1, <5>1 DEF Leak
        <5>. QED
          BY <1>6, <2>4, <5>1, <5>2, <5>3
      <4>. QED
        BY <1>0, <1>1, <1>7, <4>1 DEF Leak
    <3>. QED
      BY <3>5, <3>6
  <2>6. CASE ~(n_views[s] = 1 /\ n_children[s] = 0)
    <3>1. UNCHANGED tallocVars
      BY <1>3, <1>12, <2>1, <2>6 DEF update_parent
    <3>2. Leak'
      <4>1. ASSUME NEW k \in Ids, allocated[k], ~graph[k].output, Readings(k) # {}
            PROVE  n_children'[k] > 0 \/ n_views'[k] > 0
        <5>1. k # p
          BY <1>8, <1>12, <4>1
        <5>2. n_children[k] > 0 \/ n_views[k] > 0
          BY <1>0, <4>1 DEF Leak
        <5>3. CASE k = s
          BY <1>6, <2>2, <2>3, <2>4, <2>6, <5>1, <5>3
        <5>4. CASE k # s
          BY <1>6, <2>4, <5>1, <5>2, <5>4
        <5>. QED
          BY <5>3, <5>4
      <4>. QED
        BY <1>0, <1>1, <1>7, <1>9, <3>1, <4>1 DEF Leak
    <3>. QED
      BY <1>9, <3>1, <3>2
  <2>. QED
    BY <2>5, <2>6
<1>13. MemInv' /\ Types /\ Leak'
  BY <1>10, <1>11, <1>12
<1>14. PlanTypes'
  <2>1. Len(graph[at].src) \in Nat
    BY <1>1, <1>4, GraphFacts
  <2>2. /\ Len(graph') = Total /\ at' \in 0..Total /\ parents' \in Nat /\ at' # 0 /\ at' = at
        /\ graph' = graph
    BY <1>0, <1>1 DEF PlanTypes
  <2>3. parents' <= Len(graph'[at'].src)
    BY <1>0, <1>1, <2>1, <2>2
  <2>. QED
    BY <1>1, <1>4, <1>13, <2>2, <2>3 DEF PlanTypes
<1>. QED
  BY <1>4, <1>13, <1>14 DEF PlanInv, MemInv

LEMMA InitAlloc ==
  Init => AllocInv
BY InitGraph DEF Init, AllocInv

LEMMA StepAlloc ==
  AllocInv /\ [Next]_vars => AllocInv'
<1>. SUFFICES ASSUME AllocInv, [Next]_vars PROVE AllocInv'
  OBVIOUS
<1>0. GraphOK /\ phase \in {"build", "plan", "run"} /\ (phase = "plan" => PlanInv)
  BY DEF AllocInv
<1>1. ASSUME NEW op \in {"inplace", "other", "view"}, NEW size \in Sizes, NEW output \in BOOLEAN,
             NEW src \in UNION {[1..n -> Ids] : n \in 1..MaxSrc}, AddNode(op, src, size, output)
      PROVE  AllocInv'
  <2>1. PICK n \in 1..MaxSrc : src \in [1..n -> Ids]
    OBVIOUS
  <2>2. GraphOK'
    BY <1>0, <1>1, <2>1, AddNodeKeepsGraph
  <2>3. phase' = "build"
    BY <1>1 DEF AddNode
  <2>. QED
    BY <2>2, <2>3 DEF AllocInv
<1>2. CASE alloc_graph
  <2>1. GraphOK'
    BY <1>0, <1>2, SameGraph DEF alloc_graph
  <2>2. CASE needs_realloc
    BY <1>0, <1>2, <2>1, <2>2, BeginPlans DEF AllocInv
  <2>3. CASE ~needs_realloc
    <3>1. phase' = "run"
      BY <1>2, <2>3 DEF alloc_graph
    <3>. QED
      BY <2>1, <3>1 DEF AllocInv
  <2>. QED
    BY <2>2, <2>3
<1>3. CASE PlanLeaf
  <2>1. GraphOK' /\ phase = "plan" /\ phase' = "plan"
    BY <1>0, <1>3, SameGraph DEF PlanLeaf
  <2>. QED
    BY <1>0, <1>3, <2>1, PlanLeafPlans DEF AllocInv
<1>4. CASE PlanNode
  <2>1. GraphOK' /\ phase = "plan" /\ phase' = "plan"
    BY <1>0, <1>4, SameGraph DEF PlanNode
  <2>. QED
    BY <1>0, <1>4, <2>1, PlanNodePlans DEF AllocInv
<1>5. CASE UpdateParents
  <2>1. GraphOK' /\ phase = "plan" /\ phase' = "plan"
    BY <1>0, <1>5, SameGraph DEF UpdateParents
  <2>. QED
    BY <1>0, <1>5, <2>1, UpdateParentsPlans DEF AllocInv
<1>6. CASE EndPlan
  <2>1. GraphOK' /\ phase' = "build"
    BY <1>0, <1>6, SameGraph DEF EndPlan
  <2>. QED
    BY <2>1 DEF AllocInv
<1>7. CASE Compute
  <2>1. GraphOK' /\ phase' = "run"
    BY <1>0, <1>7, SameGraph DEF Compute
  <2>. QED
    BY <2>1 DEF AllocInv
<1>8. CASE NextGraph
  <2>1. GraphOK' /\ phase' = "build"
    BY <1>0, <1>8, NextGraphKeepsGraph DEF NextGraph
  <2>. QED
    BY <2>1 DEF AllocInv
<1>9. CASE UNCHANGED vars
  <2>1. UNCHANGED <<graph, phase, at, parents, n_children, n_views, offset, allocated, free_blocks, max_size>>
    BY <1>9 DEF vars, gallocVars
  <2>2. GraphOK' /\ phase' = phase
    BY <1>0, <2>1, SameGraph
  <2>3. ASSUME PlanInv PROVE PlanInv'
    <3>1. MemInv'
      BY <2>1, <2>3, StayMem DEF PlanInv, MemInv, tallocVars
    <3>2. PlanTypes'
      BY <2>1, <2>3 DEF PlanInv, PlanTypes, Ids
    <3>3. \A s : Readings(s)' = Readings(s)
      BY <2>1 DEF Readings, Nodes
    <3>4. \A s : Rest(s)' = Rest(s)
      BY <2>1, <3>3 DEF Rest
    <3>5. \A s : RestViews(s)' = RestViews(s)
      BY <2>1, <3>3, <3>4 DEF RestViews, Nodes
    <3>6. Counted'
      BY <2>1, <2>3, <3>4, <3>5 DEF PlanInv, Counted, Ids
    <3>7. Leak'
      BY <2>1, <2>3, <3>3 DEF PlanInv, Leak, Ids
    <3>. QED
      BY <3>1, <3>2, <3>6, <3>7 DEF PlanInv, MemInv
  <2>. QED
    BY <1>0, <2>1, <2>2, <2>3 DEF AllocInv
<1>. QED
  BY <1>1, <1>2, <1>3, <1>4, <1>5, <1>6, <1>7, <1>8, <1>9 DEF Next

THEOREM PlansSound == Spec => []AllocInv
BY InitAlloc, StepAlloc, PTL DEF Spec

(* While any graph is planned, the free list and the live tensors tile the  *)
(* address space (ggml_dyn_tallocr_alloc, ggml_dyn_tallocr_free_tensor).    *)
THEOREM Tiles == Spec => []MemoryTiled
<1>1. AllocInv => MemoryTiled
  <2>. SUFFICES ASSUME AllocInv, phase = "plan"
       PROVE  /\ \A i \in 1..Len(free_blocks) - 1 : EndOf(free_blocks[i]) < free_blocks[i+1].offset
              /\ \A t \in Live : \A i \in DOMAIN free_blocks :
                   TensorSpan(t) \cap Span(free_blocks[i]) = {}
              /\ \A t, s \in Live : t # s => TensorSpan(t) \cap TensorSpan(s) = {}
              /\ (UNION {TensorSpan(t) : t \in Live})
                   \cup (UNION {Span(free_blocks[i]) : i \in DOMAIN free_blocks}) = 0..Limit-1
    BY DEF MemoryTiled
  <2>0. GraphOK /\ PlanTypes /\ Tiled /\ Limit \in Nat
    BY WidestFacts DEF AllocInv, PlanInv
  <2>1. /\ Len(free_blocks) \in Nat /\ DOMAIN free_blocks = 1..Len(free_blocks)
        /\ \A i \in 1..Len(free_blocks) : free_blocks[i].offset \in Nat /\ free_blocks[i].size \in Nat
    BY <2>0, BlockFacts DEF Tiled
  <2>2. ASSUME NEW i \in 1..Len(free_blocks) - 1 PROVE EndOf(free_blocks[i]) < free_blocks[i+1].offset
    <3>1. i \in 1..Len(free_blocks) /\ i + 1 \in 1..Len(free_blocks) /\ i < i + 1
      BY <2>1
    <3>. QED
      BY <2>0, <3>1 DEF Tiled, Sorted, EndOf
  <2>3. ASSUME NEW t \in Live, NEW u
        PROVE  u \in TensorSpan(t) <=> u \in Nat /\ Has(t, u)
    <3>1. t \in Ids
      BY DEF Live
    <3>2. offset[t] \in Nat /\ graph[t].size \in Nat
      BY <2>0, <3>1, PlanNumbers
    <3>3. TensorSpan(t) = offset[t] .. offset[t] + graph[t].size - 1
      BY DEF TensorSpan, Span
    <3>. QED
      BY <3>2, <3>3 DEF Has, InRange
  <2>4. ASSUME NEW i \in DOMAIN free_blocks, NEW u
        PROVE  u \in Span(free_blocks[i]) <=> u \in Nat /\ InBlock(free_blocks[i], u)
    <3>1. free_blocks[i].offset \in Nat /\ free_blocks[i].size \in Nat
      BY <2>1
    <3>. QED
      BY <3>1 DEF Span, InBlock
  <2>5. \A t \in Live : t \in Ids /\ allocated[t]
    BY DEF Live
  <2>6. ASSUME NEW t \in Live, NEW i \in DOMAIN free_blocks, NEW u \in TensorSpan(t), u \in Span(free_blocks[i])
        PROVE  FALSE
    BY <2>0, <2>3, <2>4, <2>5, <2>6 DEF Tiled, FreeIn
  <2>7. ASSUME NEW t \in Live, NEW s \in Live, t # s, NEW u \in TensorSpan(t), u \in TensorSpan(s)
        PROVE  FALSE
    BY <2>0, <2>3, <2>5, <2>7 DEF Tiled
  <2>8. ASSUME NEW u
        PROVE  u \in 0..Limit-1 <=> \/ \E t \in Live : u \in TensorSpan(t)
                                    \/ \E i \in DOMAIN free_blocks : u \in Span(free_blocks[i])
    <3>1. u \in 0..Limit-1 <=> u \in Nat /\ u < Limit
      BY <2>0
    <3>2. ASSUME u \in Nat
          PROVE  u < Limit <=> FreeIn(free_blocks, u) \/ \E t \in Ids : allocated[t] /\ Has(t, u)
      BY <2>0, <3>2 DEF Tiled
    <3>. QED
      BY <2>3, <2>4, <3>1, <3>2 DEF FreeIn, Live
  <2>. QED
    BY <2>2, <2>6, <2>7, <2>8
<1>. QED
  BY <1>1, PlansSound, PTL

(* Nothing leaks: a tensor whose readers and whose views' readers are all   *)
(* done has been freed, unless it is an output.                             *)
THEOREM LeakFree == Spec => []NothingLeaks
<1>1. AllocInv => NothingLeaks
  <2>. SUFFICES ASSUME AllocInv, phase = "plan", at = Len(graph), AllUpdated, NEW t \in Live,
                       ~graph[t].output, Children(t) # 0
       PROVE  \E v \in Nodes : graph[v].view_src = t /\ Children(v) = 0
    BY DEF NothingLeaks
  <2>0. GraphOK /\ PlanTypes /\ Counted /\ Leak /\ t \in Ids /\ allocated[t]
    BY DEF AllocInv, PlanInv, Live
  <2>1. ASSUME NEW s PROVE Rest(s) = {}
    <3>1. ASSUME NEW r \in Rest(s) PROVE FALSE
      <4>1. r \in Readings(s) /\ (r[1] > at \/ (r[1] = at /\ r[2] > parents))
        BY DEF Rest
      <4>2. /\ r[1] \in Nodes /\ r[1] \in Nat /\ r[2] \in Nat /\ r[2] <= Len(graph[r[1]].src) /\ r[1] > NLeafs
        BY <2>0, <4>1, ReadingFacts
      <4>3. r[1] <= Len(graph) /\ at \in Nat /\ parents \in Nat /\ NLeafs \in Nat
        BY <2>0, <4>2, Dims DEF PlanTypes
      <4>4. r[1] = at /\ at # 0
        BY <4>1, <4>2, <4>3
      <4>5. parents = Len(graph[at].src)
        BY <4>4 DEF AllUpdated
      <4>. QED
        BY <4>1, <4>2, <4>3, <4>4, <4>5
    <3>. QED
      BY <3>1
  <2>2. n_children[t] = 0
    BY <2>0, <2>1, FS_EmptySet DEF Counted
  <2>3. Readings(t) # {}
    BY FS_EmptySet DEF Children
  <2>4. n_views[t] > 0
    BY <2>0, <2>2, <2>3 DEF Leak
  <2>5. RestViews(t) # {}
    <3>1. n_views[t] = Cardinality(RestViews(t))
      BY <2>0 DEF Counted
    <3>2. ASSUME RestViews(t) = {} PROVE n_views[t] = 0
      BY <3>1, <3>2, FS_EmptySet
    <3>. QED
      BY <2>4, <3>2
  <2>6. PICK v \in RestViews(t) : TRUE
    BY <2>5
  <2>7. v \in Nodes /\ graph[v].view_src = t /\ Readings(v) = {}
    BY <2>1, <2>6 DEF RestViews
  <2>8. Children(v) = 0
    BY <2>7, FS_EmptySet DEF Children
  <2>. QED
    BY <2>7, <2>8
<1>. QED
  BY <1>1, PlansSound, PTL

(***************************************************************************)
(* The computation on a plan, its own or a remembered one.                  *)
(***************************************************************************)

(* What the plan set aside for a tensor, and what the graph of now uses.    *)
Reserved(t, u) == InRange(plan[t].dst.offset, plan[t].dst.size, u)
Uses(t, u) == InRange(plan[t].dst.offset, graph[t].size, u)

Own(t) == t \in Ids /\ ~IsView(t)

PlanPlaces ==
  /\ Len(graph) = Total
  /\ \A t \in Ids : Own(t) =>
       /\ plan[t].dst.offset \in Nat /\ plan[t].dst.size \in Nat
       /\ plan[t].dst.offset + plan[t].dst.size <= buffer
  /\ \A t \in Ids : \A j \in DOMAIN graph[t].src :
       Own(graph[t].src[j]) => j \in DOMAIN plan[t].src /\ plan[t].src[j] = plan[graph[t].src[j]].dst

Over(s, t) ==
  graph[t].op = "inplace" /\ plan[t].dst.offset = plan[s].dst.offset /\ graph[t].size = graph[s].size

(* Two tensors share memory only when the readers of the first are done.    *)
PlanShares ==
  \A s, t \in Ids : s < t /\ Own(s) /\ Own(t) /\ (\E u \in Nat : Reserved(s, u) /\ Reserved(t, u)) =>
    /\ ~graph[s].output /\ t > NLeafs
    /\ \A n \in Nodes : ReadBy(n, s) => n < t \/ (n = t /\ Over(s, t))

(* A unit of a computed tensor holds it, or a later tensor lies there.      *)
Holds ==
  \A s \in Ids : Own(s) /\ s <= at => \A u \in Nat : Uses(s, u) =>
    mem[u] = s \/ \E t \in Ids : Own(t) /\ s < t /\ t <= at /\ Uses(t, u)

Running ==
  /\ plan # <<>> /\ at \in NLeafs..Total /\ DOMAIN mem = 0..buffer - 1
  /\ \A t \in Ids : Own(t) => graph[t].size <= plan[t].dst.size
  /\ Holds

RunInv ==
  /\ AllocInv /\ buffer \in Nat
  /\ plan # <<>> => PlanPlaces /\ PlanShares
  /\ phase = "run" => Running

LEMMA PlanStays ==
  ASSUME PlanPlaces, PlanShares, UNCHANGED <<graph, plan, buffer>>
  PROVE  PlanPlaces' /\ PlanShares'
<1>1. Ids' = Ids /\ Nodes' = Nodes
  BY DEF Ids, Nodes
<1>2. (\A t : IsView(t)' <=> IsView(t)) /\ (\A t : Own(t)' <=> Own(t)) /\ (\A t : Root(t)' = Root(t))
  BY <1>1 DEF IsView, Own, Root
<1>3. /\ \A n, s : ReadBy(n, s)' <=> ReadBy(n, s)
      /\ \A s, u : Reserved(s, u)' <=> Reserved(s, u)
      /\ \A s, t : Over(s, t)' <=> Over(s, t)
  <2>1. \A n, s : ReadBy(n, s)' <=> ReadBy(n, s)
    BY DEF ReadBy, Root, IsView
  <2>. QED
    BY <2>1 DEF Reserved, Over
<1>4. PlanPlaces'
  <2>1. \A t \in Ids : \A j \in DOMAIN graph[t].src : Own(graph[t].src[j])' <=> Own(graph[t].src[j])
    BY DEF Own, Ids, IsView
  <2>. QED
    BY <1>1, <1>2, <2>1 DEF PlanPlaces
<1>5. PlanShares'
  BY <1>1, <1>2, <1>3 DEF PlanShares
<1>. QED
  BY <1>4, <1>5

LEMMA PlanMade ==
  ASSUME GraphOK, PlanInv, EndPlan, buffer \in Nat
  PROVE  PlanPlaces' /\ PlanShares' /\ buffer' \in Nat
<1>0. /\ PlanTypes /\ High /\ Dead /\ Clash /\ at = Len(graph) /\ UNCHANGED graph
      /\ plan' = [t \in Ids |-> [dst |-> Where(t),
                 src |-> [j \in DOMAIN graph[t].src |-> Where(graph[t].src[j])]]]
      /\ buffer' = IF max_size > buffer THEN max_size ELSE buffer
  BY DEF PlanInv, EndPlan
<1>1. /\ Len(graph) = Total /\ Total \in Nat /\ Ids = 1..Total /\ max_size \in Nat /\ Ids' = Ids
      /\ NLeafs \in Nat
  BY <1>0, Dims DEF PlanTypes, Ids
<1>2. buffer' \in Nat /\ buffer' >= max_size
  BY <1>0, <1>1
<1>3. ASSUME NEW t PROVE Own(t)' <=> Own(t)
  BY <1>0 DEF Own, Ids, IsView
<1>4. ASSUME NEW t \in Ids, Own(t)
      PROVE  /\ plan'[t].dst.offset = offset[t] /\ plan'[t].dst.size = graph[t].size
             /\ offset[t] \in Nat /\ graph[t].size \in Nat /\ offset[t] + graph[t].size <= max_size
             /\ Placed(t)
  <2>1. plan'[t].dst = [offset |-> offset[t], size |-> graph[t].size]
    BY <1>0, <1>4 DEF Where, Own
  <2>2. Placed(t) /\ offset[t] \in Nat /\ graph[t].size \in Nat
    BY <1>0, <1>1, <1>4, GraphFacts DEF Placed, PlanTypes, Own
  <2>. QED
    BY <1>0, <2>1, <2>2 DEF High
<1>5. ASSUME NEW t \in Ids, NEW j \in DOMAIN graph[t].src, Own(graph[t].src[j])
      PROVE  j \in DOMAIN plan'[t].src /\ plan'[t].src[j] = plan'[graph[t].src[j]].dst
  <2>1. PICK x : x = graph[t].src[j]
    OBVIOUS
  <2>2. x \in Ids
    BY <1>5, <2>1 DEF Own
  <2>3. plan'[t].src = [i \in DOMAIN graph[t].src |-> Where(graph[t].src[i])] /\ plan'[x].dst = Where(x)
    BY <1>0, <2>2
  <2>. QED
    BY <2>1, <2>3
<1>6. PlanPlaces'
  <2>1. \A t \in Ids : Own(t) =>
       /\ plan'[t].dst.offset \in Nat /\ plan'[t].dst.size \in Nat
       /\ plan'[t].dst.offset + plan'[t].dst.size <= buffer'
    BY <1>1, <1>2, <1>4
  <2>2. ASSUME NEW t \in Ids, NEW j \in DOMAIN graph'[t].src, Own(graph[t].src[j])'
        PROVE  j \in DOMAIN plan'[t].src /\ plan'[t].src[j] = plan'[graph'[t].src[j]].dst
    <3>1. graph' = graph /\ Own(graph[t].src[j])
      BY <1>0, <2>2 DEF Own, Ids, IsView
    <3>. QED
      BY <1>5, <2>2, <3>1
  <2>. QED
    BY <1>0, <1>1, <1>3, <2>1, <2>2 DEF PlanPlaces
<1>7. PlanShares'
  <2>1. ASSUME NEW s \in Ids, NEW t \in Ids, s < t, Own(s), Own(t), NEW u \in Nat,
               Reserved(s, u)', Reserved(t, u)'
        PROVE  /\ ~graph[s].output /\ t > NLeafs
               /\ \A n \in Nodes : ReadBy(n, s) => n < t \/ (n = t /\ Over(s, t)')
    <3>1. Has(s, u) /\ Has(t, u) /\ Placed(s) /\ Placed(t)
      BY <1>4, <2>1 DEF Reserved, Has
    <3>2. /\ ~allocated[s] /\ t > NLeafs
          /\ \A n \in Nodes : ReadBy(n, s) => n < t \/ (n = t /\ InPlace(s, t))
      BY <1>0, <2>1, <3>1 DEF Clash
    <3>3. ~graph[s].output
      BY <1>0, <3>1, <3>2 DEF Dead
    <3>4. InPlace(s, t) => Over(s, t)'
      BY <1>0, <1>4, <2>1 DEF InPlace, Over
    <3>. QED
      BY <3>2, <3>3, <3>4
  <2>2. \A n, s : ReadBy(n, s)' <=> ReadBy(n, s)
    BY <1>0 DEF ReadBy, Root, IsView
  <2>3. Nodes' = Nodes
    BY <1>0 DEF Nodes
  <2>. QED
    BY <1>0, <1>1, <1>3, <2>1, <2>2, <2>3 DEF PlanShares
<1>. QED
  BY <1>2, <1>6, <1>7

LEMMA PlanScaled ==
  ASSUME GraphOK, PlanPlaces, PlanShares, NEW f \in [Sizes -> Sizes], graph' = Scaled(f),
         UNCHANGED <<plan, buffer>>
  PROVE  PlanPlaces' /\ PlanShares'
<1>1. /\ Len(graph') = Len(graph)
      /\ \A t \in Ids : /\ graph'[t].op = graph[t].op /\ graph'[t].src = graph[t].src
                        /\ graph'[t].view_src = graph[t].view_src /\ graph'[t].output = graph[t].output
                        /\ graph'[t].size = f[graph[t].size]
  BY ScaledFacts
<1>2. Ids' = Ids /\ Nodes' = Nodes /\ Nodes \subseteq Ids
  <2>1. graph' \in Seq(Tensor) /\ graph \in Seq(Tensor)
    BY ScaledFacts DEF GraphOK
  <2>. QED
    BY <1>1, <2>1, Dims DEF Ids, Nodes
<1>3. ASSUME NEW t \in Ids PROVE (IsView(t)' <=> IsView(t)) /\ Root(t)' = Root(t)
  BY <1>1 DEF IsView, Root
<1>4. ASSUME NEW t PROVE Own(t)' <=> Own(t)
  BY <1>2, <1>3 DEF Own
<1>5. ASSUME NEW n \in Nodes, NEW s PROVE ReadBy(n, s)' <=> ReadBy(n, s)
  <2>1. n \in Ids /\ graph'[n].src = graph[n].src
    BY <1>1, <1>2
  <2>2. \A j \in DOMAIN graph[n].src : graph[n].src[j] \in Ids
    BY <2>1, GraphFacts
  <2>3. \A j \in DOMAIN graph[n].src : Root(graph[n].src[j])' = Root(graph[n].src[j])
    <3>1. ASSUME NEW j \in DOMAIN graph[n].src PROVE Root(graph[n].src[j])' = Root(graph[n].src[j])
      <4>1. graph'[n].src[j] = graph[n].src[j] /\ graph[n].src[j] \in Ids
        BY <2>1, <2>2
      <4>2. graph'[graph[n].src[j]].op = graph[graph[n].src[j]].op
            /\ graph'[graph[n].src[j]].view_src = graph[graph[n].src[j]].view_src
        BY <1>1, <4>1
      <4>. QED
        BY <4>1, <4>2 DEF Root, IsView
    <3>. QED
      BY <3>1
  <2>. QED
    BY <2>1, <2>3 DEF ReadBy
<1>6. ASSUME NEW s, NEW u PROVE Reserved(s, u)' <=> Reserved(s, u)
  BY DEF Reserved
<1>7. ASSUME NEW s \in Ids, NEW t \in Ids, Over(s, t) PROVE Over(s, t)'
  BY <1>1, <1>7 DEF Over
<1>8. PlanPlaces'
  BY <1>1, <1>2, <1>4 DEF PlanPlaces
<1>9. PlanShares'
  <2>1. ASSUME NEW s \in Ids, NEW t \in Ids, s < t, Own(s)', Own(t)', \E u \in Nat : (Reserved(s, u) /\ Reserved(t, u))'
        PROVE  /\ ~graph'[s].output /\ t > NLeafs
               /\ \A n \in Nodes : ReadBy(n, s)' => n < t \/ (n = t /\ Over(s, t)')
    <3>1. Own(s) /\ Own(t) /\ \E u \in Nat : Reserved(s, u) /\ Reserved(t, u)
      BY <1>4, <1>6, <2>1
    <3>2. /\ ~graph[s].output /\ t > NLeafs
          /\ \A n \in Nodes : ReadBy(n, s) => n < t \/ (n = t /\ Over(s, t))
      BY <2>1, <3>1 DEF PlanShares
    <3>3. ASSUME NEW n \in Nodes, ReadBy(n, s)' PROVE n < t \/ (n = t /\ Over(s, t)')
      <4>1. ReadBy(n, s)
        BY <1>5, <3>3
      <4>. QED
        BY <1>7, <3>2, <4>1
    <3>. QED
      BY <1>1, <3>2, <3>3
  <2>. QED
    BY <1>2, <2>1 DEF PlanShares
<1>. QED
  BY <1>8, <1>9

(* needs_realloc has looked at every node and at every source of a node.    *)
LEMMA RunBegins ==
  ASSUME GraphOK, plan # <<>> => PlanPlaces /\ PlanShares, buffer \in Nat, ~UnreadLeafs,
         alloc_graph, ~needs_realloc
  PROVE  Running'
<1>0. /\ UNCHANGED <<graph, plan, buffer>> /\ at' = NLeafs /\ Assign /\ Len(graph) = Total
      /\ \A k \in 1..NLeafs : Readings(k) # {}
  BY DEF alloc_graph, Total
<1>1. /\ NLeafs \in Nat /\ Total \in Nat /\ Ids = 1..Total /\ Total > 0 /\ NLeafs <= Total
      /\ Nodes = NLeafs + 1..Total /\ Ids' = Ids /\ NLeafs > 0
  BY <1>0, Dims DEF Ids
<1>2. plan # <<>>
  <2>1. Len(plan) = Total
    BY <1>0 DEF needs_realloc
  <2>. QED
    BY <1>1, <2>1
<1>3. PlanPlaces /\ PlanShares
  BY <1>2
<1>4. ASSUME NEW t \in Ids, Own(t) PROVE graph[t].size <= plan[t].dst.size
  <2>1. CASE t \in Nodes
    <3>1. Fit(t, plan[t].dst)
      BY <2>1 DEF needs_realloc
    <3>2. plan[t].dst.size >= graph[t].size
      BY <1>4, <3>1 DEF Fit, Own
    <3>3. plan[t].dst.size \in Nat /\ graph[t].size \in Nat
      BY <1>3, <1>4, GraphFacts DEF PlanPlaces
    <3>. QED
      BY <3>2, <3>3
  <2>2. CASE t \notin Nodes
    <3>1. t \in 1..NLeafs
      BY <1>1, <2>2
    <3>2. PICK r \in Readings(t) : TRUE
      BY <1>0, <3>1
    <3>3. r[1] \in Nodes /\ r[1] \in Ids /\ r[2] \in DOMAIN graph[r[1]].src /\ graph[r[1]].src[r[2]] = t
      BY <3>2, ReadingFacts, Dims
    <3>4. r[2] \in DOMAIN plan[r[1]].src /\ plan[r[1]].src[r[2]] = plan[t].dst
      BY <1>3, <1>4, <3>3 DEF PlanPlaces
    <3>5. Fit(t, plan[t].dst)
      BY <3>3, <3>4 DEF needs_realloc
    <3>6. plan[t].dst.size >= graph[t].size
      BY <1>4, <3>5 DEF Fit, Own
    <3>7. plan[t].dst.size \in Nat /\ graph[t].size \in Nat
      BY <1>3, <1>4, GraphFacts DEF PlanPlaces
    <3>. QED
      BY <3>6, <3>7
  <2>. QED
    BY <2>1, <2>2
<1>5. DOMAIN mem' = 0..buffer - 1
  BY <1>0 DEF Assign
<1>6. \A k \in 1..NLeafs : k \in Ids /\ Own(k)
  <2>1. ASSUME NEW k \in 1..NLeafs PROVE k \in Ids /\ k \notin Nodes
    BY <1>1
  <2>. QED
    BY <2>1, GraphFacts DEF Own
<1>7. ASSUME NEW s \in 1..NLeafs, NEW u \in Nat, Uses(s, u) PROVE mem'[u] = s
  <2>1. PICK L : L = {k \in 1..NLeafs : u \in plan[k].dst.offset .. plan[k].dst.offset + graph[k].size - 1}
    OBVIOUS
  <2>2. ASSUME NEW k \in 1..NLeafs
        PROVE  /\ plan[k].dst.offset \in Nat /\ graph[k].size \in Nat /\ plan[k].dst.size \in Nat
               /\ graph[k].size <= plan[k].dst.size
               /\ plan[k].dst.offset + plan[k].dst.size <= buffer
               /\ k \in Ids /\ Own(k)
    BY <1>3, <1>4, <1>6, GraphFacts DEF PlanPlaces
  <2>3. \A k \in 1..NLeafs : k \in L <=> Uses(k, u)
    <3>1. ASSUME NEW k \in 1..NLeafs PROVE k \in L <=> Uses(k, u)
      BY <2>1, <2>2 DEF Uses, InRange
    <3>. QED
      BY <3>1
  <2>4. ASSUME NEW k \in 1..NLeafs PROVE Uses(k, u) => Reserved(k, u)
    BY <2>2 DEF Uses, Reserved, InRange
  <2>5. ASSUME NEW k \in L PROVE k = s
    <3>1. k \in 1..NLeafs
      BY <2>1
    <3>2. Reserved(k, u) /\ Reserved(s, u)
      BY <1>7, <2>3, <2>4, <3>1
    <3>3. k \in Ids /\ Own(k) /\ s \in Ids /\ Own(s)
      BY <2>2, <3>1
    <3>4. ~(k < s)
      BY <1>1, <1>3, <3>2, <3>3 DEF PlanShares
    <3>5. ~(s < k)
      BY <1>1, <1>3, <3>1, <3>2, <3>3 DEF PlanShares
    <3>. QED
      BY <1>1, <3>1, <3>4, <3>5
  <2>6. s \in L
    BY <1>7, <2>3
  <2>7. L = {s}
    BY <2>5, <2>6
  <2>8. u \in 0..buffer - 1
    <3>1. u < plan[s].dst.offset + graph[s].size
      BY <1>7 DEF Uses, InRange
    <3>. QED
      BY <2>2, <3>1
  <2>9. mem'[u] = IF L = {} THEN 0 ELSE CHOOSE k \in L : TRUE
    BY <1>0, <2>1, <2>8 DEF Assign
  <2>. QED
    BY <2>7, <2>9
<1>8. Holds'
  <2>1. ASSUME NEW s \in Ids, s <= NLeafs, NEW u \in Nat, Uses(s, u)' PROVE mem'[u] = s
    <3>1. Uses(s, u) /\ s \in 1..NLeafs
      BY <1>0, <1>1, <2>1 DEF Uses
    <3>. QED
      BY <1>7, <3>1
  <2>. QED
    BY <1>0, <1>1, <2>1 DEF Holds
<1>9. \A t \in Ids : Own(t)' => graph'[t].size <= plan'[t].dst.size
  <2>1. \A t \in Ids : Own(t)' <=> Own(t)
    BY <1>0 DEF Own, Ids, IsView
  <2>. QED
    BY <1>0, <1>4, <2>1
<1>. QED
  BY <1>0, <1>1, <1>2, <1>5, <1>8, <1>9 DEF Running

LEMMA UnitsFacts ==
  ASSUME GraphOK, PlanPlaces, Running, buffer \in Nat, NEW t \in Ids
  PROVE  /\ Root(t) \in Ids /\ Own(Root(t)) /\ Root(t) <= t
         /\ \A u : u \in Units(t) <=> u \in Nat /\ Uses(Root(t), u)
         /\ \A u \in Nat : Uses(Root(t), u) => Reserved(Root(t), u) /\ u < buffer
<1>0. PICK r : r = Root(t)
  OBVIOUS
<1>1. r \in Ids /\ Own(r) /\ r <= t /\ graph[r].size = graph[t].size
  BY <1>0, ViewFacts DEF Own
<1>2. /\ plan[r].dst.offset \in Nat /\ plan[r].dst.size \in Nat /\ graph[r].size \in Nat
      /\ plan[r].dst.offset + plan[r].dst.size <= buffer /\ graph[r].size <= plan[r].dst.size
  BY <1>1, GraphFacts DEF PlanPlaces, Running
<1>3. Units(t) = plan[r].dst.offset .. plan[r].dst.offset + graph[r].size - 1
  BY <1>0, <1>1 DEF Units, Root
<1>4. \A u : u \in Units(t) <=> u \in Nat /\ Uses(r, u)
  BY <1>2, <1>3 DEF Uses, InRange
<1>5. ASSUME NEW u \in Nat, Uses(r, u) PROVE Reserved(r, u) /\ u < plan[r].dst.offset + plan[r].dst.size
  BY <1>2, <1>5 DEF Uses, Reserved, InRange
<1>6. \A u \in Nat : Uses(r, u) => Reserved(r, u) /\ u < buffer
  <2>1. ASSUME NEW u \in Nat, Uses(r, u) PROVE u < buffer
    <3>1. u < plan[r].dst.offset + plan[r].dst.size
      BY <1>5, <2>1
    <3>. QED
      BY ONLY <1>2, <3>1, u \in Nat, buffer \in Nat
  <2>. QED
    BY <1>5, <2>1
<1>. QED
  BY <1>0, <1>1, <1>4, <1>6

LEMMA RunGoes ==
  ASSUME GraphOK, PlanPlaces, Running, buffer \in Nat, Compute
  PROVE  Running'
<1>0. /\ UNCHANGED <<graph, plan, buffer>> /\ at' = at + 1 /\ at < Len(graph)
      /\ mem' = IF IsView(at + 1) THEN mem
                ELSE [u \in DOMAIN mem |-> IF u \in Units(at + 1) THEN at + 1 ELSE mem[u]]
  BY DEF Compute
<1>1. /\ NLeafs \in Nat /\ Total \in Nat /\ Ids = 1..Total /\ Ids' = Ids
      /\ at \in Nat /\ at >= NLeafs /\ at + 1 <= Total /\ at + 1 \in Ids /\ Len(graph) = Total
  BY <1>0, Dims DEF Ids, Running, PlanPlaces
<1>2. PICK n : n = at + 1
  OBVIOUS
<1>3. DOMAIN mem' = 0..buffer - 1
  BY <1>0 DEF Running
<1>4. (\A t : Own(t)' <=> Own(t)) /\ (\A t, u : Uses(t, u)' <=> Uses(t, u))
  BY <1>0 DEF Own, Ids, IsView, Uses
<1>5. ASSUME NEW s \in Ids, Own(s), s <= n, NEW u \in Nat, Uses(s, u)
      PROVE  mem'[u] = s \/ \E t \in Ids : Own(t) /\ s < t /\ t <= n /\ Uses(t, u)
  <2>0. Root(s) = s /\ u < buffer
    <3>1. Root(s) = s
      BY <1>5 DEF Root, Own
    <3>. QED
      BY <1>5, <3>1, UnitsFacts
  <2>1. u \in DOMAIN mem
    BY <2>0 DEF Running
  <2>2. CASE Own(n) /\ Uses(n, u)
    <3>1. u \in Units(n)
      <4>1. Root(n) = n /\ n \in Ids
        BY <1>1, <1>2, <2>2 DEF Root, Own
      <4>. QED
        BY <2>2, <4>1, UnitsFacts
    <3>2. mem'[u] = n
      BY <1>0, <1>2, <2>1, <2>2, <3>1 DEF Own
    <3>. QED
      BY <1>1, <1>2, <1>5, <2>2, <3>2
  <2>3. CASE ~(Own(n) /\ Uses(n, u))
    <3>1. s # n /\ s <= at
      BY <1>1, <1>2, <1>5, <2>3
    <3>2. mem'[u] = mem[u]
      <4>1. CASE IsView(n)
        BY <1>0, <1>2, <4>1
      <4>2. CASE ~IsView(n)
        <5>1. Own(n) /\ Root(n) = n /\ n \in Ids
          BY <1>1, <1>2, <4>2 DEF Own, Root
        <5>2. u \notin Units(n)
          BY <2>3, <5>1, UnitsFacts
        <5>. QED
          BY <1>0, <1>2, <2>1, <4>2, <5>2
      <4>. QED
        BY <4>1, <4>2
    <3>3. mem[u] = s \/ \E t \in Ids : Own(t) /\ s < t /\ t <= at /\ Uses(t, u)
      BY <1>5, <3>1 DEF Running, Holds
    <3>4. \A t \in Ids : t <= at => t <= n
      BY <1>1, <1>2
    <3>. QED
      BY <3>2, <3>3, <3>4
  <2>. QED
    BY <2>2, <2>3
<1>6. Holds'
  BY <1>0, <1>1, <1>2, <1>4, <1>5 DEF Holds
<1>7. \A t \in Ids : Own(t)' => graph'[t].size <= plan'[t].dst.size
  BY <1>0, <1>4 DEF Running
<1>. QED
  BY <1>0, <1>1, <1>3, <1>6, <1>7 DEF Running

LEMMA InitRun ==
  Init => RunInv
<1>. SUFFICES ASSUME Init PROVE RunInv
  OBVIOUS
<1>1. AllocInv
  BY InitAlloc
<1>2. plan = <<>> /\ buffer = 0 /\ phase = "build"
  BY DEF Init
<1>. QED
  BY <1>1, <1>2 DEF RunInv

LEMMA StepRun ==
  ASSUME ~NewTopology, ~UnreadLeafs
  PROVE  RunInv /\ [Next]_vars => RunInv'
<1>. SUFFICES ASSUME RunInv, [Next]_vars PROVE RunInv'
  OBVIOUS
<1>0. /\ AllocInv /\ GraphOK /\ buffer \in Nat /\ phase \in {"build", "plan", "run"}
      /\ plan # <<>> => PlanPlaces /\ PlanShares
      /\ phase = "run" => Running
  BY DEF RunInv, AllocInv
<1>1. AllocInv'
  BY <1>0, StepAlloc
<1>2. ASSUME UNCHANGED <<graph, plan, buffer>>, phase' = "run" => Running' PROVE RunInv'
  <2>1. plan # <<>> => PlanPlaces' /\ PlanShares'
    BY <1>0, <1>2, PlanStays
  <2>. QED
    BY <1>0, <1>1, <1>2, <2>1 DEF RunInv
<1>3. ASSUME NEW op, NEW src, NEW size, NEW output, AddNode(op, src, size, output)
      PROVE  RunInv'
  <2>1. plan = <<>>
    <3>1. Len(graph) < Total
      BY <1>3 DEF AddNode, Total
    <3>2. Len(graph) \in Nat /\ Total \in Nat
      BY <1>0, Dims
    <3>. QED
      BY <1>0, <3>1, <3>2 DEF PlanPlaces
  <2>2. UNCHANGED <<plan, buffer>> /\ phase' = "build"
    BY <1>3 DEF AddNode
  <2>. QED
    BY <1>0, <1>1, <2>1, <2>2 DEF RunInv
<1>4. CASE alloc_graph
  <2>1. UNCHANGED <<graph, plan, buffer>>
    BY <1>4 DEF alloc_graph
  <2>2. CASE needs_realloc
    <3>1. phase' # "run"
      BY <1>4, <2>2 DEF alloc_graph
    <3>. QED
      BY <1>2, <2>1, <3>1
  <2>3. CASE ~needs_realloc
    BY <1>0, <1>2, <1>4, <2>1, <2>3, RunBegins
  <2>. QED
    BY <2>2, <2>3
<1>5. CASE PlanLeaf
  BY <1>2, <1>5 DEF PlanLeaf
<1>6. CASE PlanNode
  BY <1>2, <1>6 DEF PlanNode
<1>7. CASE UpdateParents
  BY <1>2, <1>7 DEF UpdateParents
<1>8. CASE EndPlan
  <2>1. PlanInv /\ phase' = "build"
    BY <1>0, <1>8 DEF EndPlan, AllocInv
  <2>2. PlanPlaces' /\ PlanShares' /\ buffer' \in Nat
    BY <1>0, <1>8, <2>1, PlanMade
  <2>. QED
    BY <1>1, <2>1, <2>2 DEF RunInv
<1>9. CASE Compute
  <2>1. UNCHANGED <<graph, plan, buffer>> /\ phase = "run"
    BY <1>9 DEF Compute
  <2>2. plan # <<>> /\ Running
    BY <1>0, <2>1 DEF Running
  <2>3. Running'
    BY <1>0, <1>9, <2>2, RunGoes
  <2>. QED
    BY <1>2, <2>1, <2>3
<1>10. CASE NextGraph
  <2>1. graph' \in Rescaled /\ UNCHANGED <<plan, buffer>> /\ phase' = "build"
    BY <1>10 DEF NextGraph
  <2>2. PICK f \in [Sizes -> Sizes] : graph' = Scaled(f)
    BY <2>1 DEF Rescaled
  <2>3. plan # <<>> => PlanPlaces' /\ PlanShares'
    BY <1>0, <2>1, <2>2, PlanScaled
  <2>. QED
    BY <1>0, <1>1, <2>1, <2>3 DEF RunInv
<1>11. CASE UNCHANGED vars
  <2>1. UNCHANGED <<graph, plan, buffer, phase, at, mem>>
    BY <1>11 DEF vars
  <2>2. phase' = "run" => Running'
    <3>1. (\A t : Own(t)' <=> Own(t)) /\ (\A t, u : Uses(t, u)' <=> Uses(t, u)) /\ Ids' = Ids
      BY <2>1 DEF Own, Ids, IsView, Uses
    <3>2. Holds => Holds'
      BY <2>1, <3>1 DEF Holds
    <3>. QED
      BY <1>0, <2>1, <3>1, <3>2 DEF Running
  <2>. QED
    BY <1>2, <2>1, <2>2
<1>. QED
  BY <1>3, <1>4, <1>5, <1>6, <1>7, <1>8, <1>9, <1>10, <1>11 DEF Next

(* A graph that is wired like the one that was planned, every input of      *)
(* which some node reads, is computed on a sound plan (ggml_gallocr_alloc_  *)
(* graph, ggml_gallocr_reserve_n).                                          *)
THEOREM RunsSound ==
  ASSUME ~NewTopology, ~UnreadLeafs
  PROVE  Spec => []RunInv
BY InitRun, StepRun, PTL DEF Spec

LEMMA RunFacts ==
  ASSUME RunInv, phase = "run"
  PROVE  /\ GraphOK /\ PlanPlaces /\ PlanShares /\ Running /\ buffer \in Nat
         /\ Len(graph) = Total /\ Ids = 1..Total /\ Nodes = NLeafs + 1..Total /\ Nodes \subseteq Ids
         /\ NLeafs \in Nat /\ Total \in Nat /\ at \in Nat /\ at >= NLeafs /\ at <= Total
<1>1. GraphOK /\ PlanPlaces /\ PlanShares /\ Running /\ buffer \in Nat
  BY DEF RunInv, AllocInv, Running
<1>. QED
  BY <1>1, Dims DEF PlanPlaces, Running

(* Every tensor lies inside the buffer (ggml_gallocr_init_tensor takes its  *)
(* address from the plan): also when a smaller plan would have done.        *)
THEOREM Inside ==
  ASSUME ~NewTopology, ~UnreadLeafs
  PROVE  Spec => []InsideBuffer
<1>1. RunInv => InsideBuffer
  <2>. SUFFICES ASSUME RunInv, phase = "run", NEW t \in Ids, NEW u \in Units(t) PROVE u < buffer
    BY DEF InsideBuffer
  <2>. QED
    BY RunFacts, UnitsFacts
<1>. QED
  BY <1>1, RunsSound, PTL

(* A tensor computed before is intact unless a later one shares its memory. *)
LEMMA StillThere ==
  ASSUME RunInv, phase = "run", NEW x \in Ids, Root(x) <= at,
         \A t \in Ids : Own(t) /\ Root(x) < t /\ t <= at =>
            \A u \in Nat : ~(Reserved(Root(x), u) /\ Reserved(t, u))
  PROVE  Intact(x)
<1>0. GraphOK /\ PlanPlaces /\ Running /\ buffer \in Nat
  BY RunFacts
<1>1. PICK r : r = Root(x)
  OBVIOUS
<1>2. /\ r \in Ids /\ Own(r)
      /\ \A u : u \in Units(x) <=> u \in Nat /\ Uses(r, u)
      /\ \A u \in Nat : Uses(r, u) => Reserved(r, u)
  BY <1>0, <1>1, UnitsFacts
<1>3. ASSUME NEW u \in Units(x) PROVE mem[u] = r
  <2>1. u \in Nat /\ Uses(r, u) /\ Reserved(r, u)
    BY <1>2
  <2>2. mem[u] = r \/ \E t \in Ids : Own(t) /\ r < t /\ t <= at /\ Uses(t, u)
    BY <1>0, <1>1, <1>2, <2>1 DEF Running, Holds
  <2>3. ASSUME NEW t \in Ids, Own(t), Uses(t, u) PROVE Reserved(t, u)
    <3>1. Root(t) = t
      BY <2>3 DEF Own, Root
    <3>. QED
      BY <1>0, <2>1, <2>3, <3>1, UnitsFacts
  <2>. QED
    BY <1>1, <2>1, <2>2, <2>3
<1>. QED
  BY <1>1, <1>3 DEF Intact, Root

(* Outputs are never freed and never overwritten (ggml_gallocr_free_node).  *)
THEOREM OutputsSafe ==
  ASSUME ~NewTopology, ~UnreadLeafs
  PROVE  Spec => []OutputsKept
<1>1. RunInv => OutputsKept
  <2>. SUFFICES ASSUME RunInv, phase = "run", NEW s \in (NLeafs + 1)..at, graph[s].output PROVE Intact(s)
    BY DEF OutputsKept
  <2>0. GraphOK /\ PlanShares /\ s \in Ids /\ s <= at
    BY RunFacts
  <2>1. ~IsView(s) /\ Root(s) = s /\ Own(s)
    BY <2>0, ViewFacts DEF Root, Own
  <2>2. ASSUME NEW t \in Ids, Own(t), s < t, NEW u \in Nat, Reserved(s, u), Reserved(t, u) PROVE FALSE
    BY <2>0, <2>1, <2>2 DEF PlanShares
  <2>. QED
    BY <2>0, <2>1, <2>2, StillThere
<1>. QED
  BY <1>1, RunsSound, PTL

(* Every node reads what its parents wrote, and writes on a parent only in  *)
(* place (ggml_gallocr_allocate_node, ggml_gallocr_alloc_graph_impl).       *)
THEOREM ReadersSafe ==
  ASSUME ~NewTopology, ~UnreadLeafs
  PROVE  Spec => []ReadsIntact
<1>1. RunInv => ReadsIntact
  <2>. SUFFICES ASSUME RunInv, phase = "run", at < Len(graph), NEW j \in DOMAIN graph[at+1].src
       PROVE  /\ Intact(graph[at+1].src[j])
              /\ \/ IsView(at+1)
                 \/ Units(graph[at+1].src[j]) \cap Units(at+1) = {}
                 \/ graph[at+1].op = "inplace" /\ Units(graph[at+1].src[j]) = Units(at+1)
    BY DEF ReadsIntact
  <2>0. /\ GraphOK /\ PlanPlaces /\ PlanShares /\ Running /\ buffer \in Nat
        /\ NLeafs \in Nat /\ Total \in Nat /\ at \in Nat
        /\ at + 1 \in Nodes /\ at + 1 \in Ids /\ Ids = 1..Total
    BY RunFacts
  <2>1. PICK n : n = at + 1
    OBVIOUS
  <2>2. PICK x : x = graph[n].src[j]
    OBVIOUS
  <2>3. n \in Nodes /\ n \in Ids /\ j \in DOMAIN graph[n].src /\ n \in Nat
    BY <2>0, <2>1
  <2>4. x \in Ids /\ x \in 1..n - 1
    BY <2>0, <2>2, <2>3, GraphFacts
  <2>5. PICK r : r = Root(x)
    OBVIOUS
  <2>6. /\ r \in Ids /\ Own(r) /\ r <= x /\ graph[r].size = graph[x].size
        /\ \A u : u \in Units(x) <=> u \in Nat /\ Uses(r, u)
        /\ \A u \in Nat : Uses(r, u) => Reserved(r, u)
    BY <2>0, <2>4, <2>5, UnitsFacts, ViewFacts
  <2>7. r \in Nat /\ r < n /\ r <= at /\ ReadBy(n, r)
    BY <2>0, <2>1, <2>2, <2>3, <2>4, <2>5, <2>6 DEF ReadBy
  <2>8. ASSUME NEW t \in Ids, Own(t), r < t, NEW u \in Nat, Reserved(r, u), Reserved(t, u)
        PROVE  n < t \/ (n = t /\ Over(r, t))
    BY <2>0, <2>3, <2>6, <2>7, <2>8 DEF PlanShares
  <2>9. Intact(x)
    <3>1. ASSUME NEW t \in Ids, Own(t), r < t, t <= at, NEW u \in Nat, Reserved(r, u), Reserved(t, u) PROVE FALSE
      <4>1. n < t \/ n = t
        BY <2>8, <3>1
      <4>. QED
        BY <2>0, <2>1, <3>1, <4>1
    <3>. QED
      BY <2>4, <2>5, <2>7, <3>1, StillThere
  <2>10. ASSUME ~IsView(n), Units(x) \cap Units(n) # {}
         PROVE  graph[n].op = "inplace" /\ Units(x) = Units(n)
    <3>1. Root(n) = n /\ Own(n)
      BY <2>3, <2>10 DEF Root, Own
    <3>2. PICK u : u \in Units(x) /\ u \in Units(n)
      BY <2>10
    <3>3. /\ \A w : w \in Units(n) <=> w \in Nat /\ Uses(n, w)
          /\ \A w \in Nat : Uses(n, w) => Reserved(n, w)
      BY <2>0, <2>3, <3>1, UnitsFacts
    <3>4. u \in Nat /\ Reserved(r, u) /\ Reserved(n, u)
      BY <2>6, <3>2, <3>3
    <3>5. Over(r, n)
      BY <2>3, <2>7, <2>8, <3>1, <3>4
    <3>6. \A w : Uses(r, w) <=> Uses(n, w)
      BY <3>5 DEF Over, Uses
    <3>7. Units(x) = Units(n)
      BY <2>6, <3>3, <3>6
    <3>. QED
      BY <3>5, <3>7 DEF Over
  <2>. QED
    BY <2>1, <2>2, <2>9, <2>10
<1>. QED
  BY <1>1, RunsSound, PTL
=============================================================================
