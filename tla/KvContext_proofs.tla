-------------------------- MODULE KvContext_proofs --------------------------
(* The KV caches of any size, with any number of sequences, any window and  *)
(* any calls: the counter of used cells is exact, every row is rotated to   *)
(* the position of its cell, and defragmentation leaves no hole before its  *)
(* limit.                                                                   *)
EXTENDS KvContext, FiniteSetTheorems, TLAPS

(***************************************************************************)
(* The inductive invariant.                                                *)
(***************************************************************************)
Row == [tok : Seq(Int), rot : Int]
Cell == [pos : Int, delta : Int, seqs : SUBSET Int, row : Row]

(* A cell is free, or its row, with the shift still to be applied, is that  *)
(* of a token at its position.                                              *)
CellOk(x) ==
  /\ x \in Cell
  /\ x.pos >= 0 <=> x.seqs # {}
  /\ x.seqs # {} => x.row.tok # <<>> /\ x.row.rot + x.delta = x.pos

IsCache(c) ==
  /\ DOMAIN c = {"size", "head", "used", "n", "has_shift", "do_defrag", "do_copy", "cells", "src"}
  /\ c.size \in Nat /\ c.used \in Int
  /\ DOMAIN c.cells = Idx(c)

(* No shift is left to be applied, to free cells neither: a cell that is    *)
(* taken keeps the delta it had.                                            *)
Settled(c) == \A i \in Idx(c) : c.cells[i].delta = 0

Sound(c) ==
  /\ IsCache(c)
  /\ \A i \in Idx(c) : CellOk(c.cells[i])
  /\ ~c.has_shift => Settled(c)
  /\ c.used = Cardinality(Occupied(c))

IInv == Sound(kv_self) /\ Sound(kv_swa) /\ kv_self.size = KvSize /\ kv_swa.size = SwaSize

(***************************************************************************)
(* Sets of numbers.                                                        *)
(***************************************************************************)
LEMMA Least ==
  ASSUME NEW S \in SUBSET Nat, S # {}
  PROVE  Min(S) \in S /\ \A y \in S : Min(S) <= y
<1>1. PICK x \in S : \A y \in S : ~ (<<y, x>> \in OpToRel(<, Nat))
  BY NatLessThanWellFounded, WFMin, Zenon
<1>2. \A y \in S : ~(y < x)
  BY <1>1, Zenon DEF OpToRel
<1>3. \A y \in S : x <= y
  BY <1>2
<1>. QED
  BY <1>3 DEF Min

LEMMA Greatest ==
  ASSUME NEW S \in SUBSET Nat, S # {}, NEW b \in Nat, \A y \in S : y <= b
  PROVE  Max(S) \in S /\ \A y \in S : Max(S) >= y
<1>. DEFINE T == {b - y : y \in S}
<1>1. T \in SUBSET Nat /\ T # {}
  <2>1. \A y \in S : b - y \in Nat
    OBVIOUS
  <2>. QED
    BY <2>1
<1>2. PICK m \in T : \A y \in T : m <= y
  BY <1>1, Least
<1>3. PICK x \in S : m = b - x
  OBVIOUS
<1>4. \A y \in S : x >= y
  BY <1>2, <1>3
<1>. QED
  BY <1>4 DEF Max

(* The cells in use are finitely many.                                      *)
LEMMA FiniteCells ==
  ASSUME NEW c, c.size \in Nat
  PROVE  /\ IsFiniteSet(Idx(c)) /\ IsFiniteSet(Occupied(c))
         /\ \A S \in SUBSET Idx(c) : IsFiniteSet(S) /\ Cardinality(S) \in Nat
<1>1. IsFiniteSet(Idx(c))
  BY FS_Interval DEF Idx
<1>2. \A S \in SUBSET Idx(c) : IsFiniteSet(S)
  BY <1>1, FS_Subset
<1>. QED
  BY <1>1, <1>2, FS_CardinalityType DEF Occupied

(***************************************************************************)
(* The operations on cells.                                                *)
(***************************************************************************)
LEMMA ClearedOk ==
  ASSUME NEW x \in Cell
  PROVE  CellOk(Cleared(x)) /\ Cleared(x).seqs = {} /\ Cleared(x).delta = x.delta
<1>. DEFINE y == Cleared(x)
<1>1. y = [x EXCEPT !.pos = -1, !.seqs = {}, !.row = NoRow]
  BY DEF Cleared
<1>2. NoRow \in Row
  BY DEF NoRow, Row
<1>. HIDE DEF y
<1>3. y \in Cell
  <2>1. -1 \in Int /\ {} \in SUBSET Int
    OBVIOUS
  <2>. QED
    BY <1>1, <1>2, <2>1 DEF Cell
<1>4. y.pos = -1 /\ y.seqs = {} /\ y.delta = x.delta
  BY <1>1 DEF Cell
<1>. QED
  BY <1>3, <1>4 DEF CellOk, y

LEMMA Less ==
  ASSUME NEW S, IsFiniteSet(S), NEW T \in SUBSET S
  PROVE  Cardinality(S \ T) = Cardinality(S) - Cardinality(T)
<1>1. S \cap T = T
  OBVIOUS
<1>. QED
  BY <1>1, FS_Difference

LEMMA ReownedOk ==
  ASSUME NEW x, CellOk(x), x.seqs # {}, NEW T \in SUBSET Int, T # {}, NEW y, y = [x EXCEPT !.seqs = T]
  PROVE  CellOk(y) /\ y.seqs = T /\ y.delta = x.delta
BY DEF CellOk, Cell

LEMMA RepositionedOk ==
  ASSUME NEW x, CellOk(x), NEW p \in Int, NEW y, y = Repositioned(x, p)
  PROVE  /\ y \in Cell /\ y.seqs = x.seqs
         /\ p >= 0 /\ x.seqs # {} => CellOk(y)
<1>1. x \in Cell /\ x.pos \in Int /\ x.delta \in Int
  BY DEF CellOk, Cell
<1>2. x.delta + p - x.pos \in Int
  BY <1>1
<1>3. y \in Cell /\ y.seqs = x.seqs
  BY <1>1, <1>2 DEF Repositioned, Cell
<1>4. y.pos = p /\ y.delta = x.delta + p - x.pos /\ y.row = x.row
  BY <1>1 DEF Repositioned, Cell
<1>5. ASSUME p >= 0, x.seqs # {} PROVE CellOk(y)
  <2>1. x.row.tok # <<>> /\ x.row.rot + x.delta = x.pos /\ x.row.rot \in Int
    BY <1>5, <1>1 DEF CellOk, Cell, Row
  <2>2. x.row.rot + (x.delta + p - x.pos) = p
    BY <1>1, <2>1
  <2>. QED
    BY <1>3, <1>4, <1>5, <2>1, <2>2 DEF CellOk
<1>. QED
  BY <1>3, <1>5

LEMMA RotatedOk ==
  ASSUME NEW x, CellOk(x), NEW y, y = Rotated(x)
  PROVE  CellOk(y) /\ y.seqs = x.seqs /\ y.delta = 0
<1>1. x \in Cell /\ x.delta \in Int /\ x.row \in Row /\ x.row.rot \in Int /\ x.row.tok \in Seq(Int)
  BY DEF CellOk, Cell, Row
<1>. DEFINE r == IF x.row = NoRow THEN NoRow ELSE [tok |-> x.row.tok, rot |-> x.row.rot + x.delta]
<1>2. r \in Row
  <2>1. NoRow \in Row
    BY DEF NoRow, Row
  <2>2. x.row.rot + x.delta \in Int
    BY <1>1
  <2>3. [tok |-> x.row.tok, rot |-> x.row.rot + x.delta] \in Row
    BY <1>1, <2>2 DEF Row
  <2>. QED
    BY <2>1, <2>3
<1>3. y = [x EXCEPT !.delta = 0, !.row = r]
  BY DEF Rotated
<1>4. ASSUME x.seqs # {} PROVE r.tok # <<>> /\ r.rot + 0 = x.pos
  <2>1. x.row.tok # <<>> /\ x.row.rot + x.delta = x.pos
    BY <1>4 DEF CellOk
  <2>2. x.row # NoRow
    BY <2>1 DEF NoRow
  <2>. QED
    BY <1>1, <2>1, <2>2
<1>. HIDE DEF r
<1>5. y \in Cell
  <2>1. 0 \in Int
    OBVIOUS
  <2>. QED
    BY <1>1, <1>2, <1>3, <2>1 DEF Cell
<1>6. y.seqs = x.seqs /\ y.delta = 0 /\ y.row = r /\ y.pos = x.pos
  BY <1>1, <1>3 DEF Cell
<1>. QED
  BY <1>4, <1>5, <1>6 DEF CellOk

(* A token of a batch.                                                      *)
TokenOk(b) == b.pos \in Nat /\ b.seq \in Int /\ b.tok \in Seq(Int) /\ b.tok # <<>>

LEMMA TakingOk ==
  ASSUME NEW x, CellOk(x), x.delta = 0, NEW b, TokenOk(b), NEW y, y = Taking(x, b)
  PROVE  CellOk(y) /\ y.seqs # {} /\ y.delta = 0
<1>1. x \in Cell /\ x.seqs \in SUBSET Int
  BY DEF CellOk, Cell
<1>. DEFINE r == [tok |-> b.tok, rot |-> b.pos]
            S == x.seqs \cup {b.seq}
<1>2. r \in Row /\ r.tok # <<>> /\ r.rot = b.pos /\ S \in SUBSET Int /\ S # {} /\ b.pos \in Int
  BY <1>1 DEF TokenOk, Row
<1>3. y = [x EXCEPT !.pos = b.pos, !.seqs = S, !.row = r]
  BY DEF Taking
<1>. HIDE DEF r, S
<1>4. y \in Cell /\ y.pos = b.pos /\ y.seqs = S /\ y.row = r /\ y.delta = 0
  BY <1>1, <1>2, <1>3 DEF Cell
<1>5. b.pos >= 0 /\ b.pos + 0 = b.pos
  BY DEF TokenOk
<1>. QED
  BY <1>2, <1>4, <1>5 DEF CellOk

(***************************************************************************)
(* The operations on a cache.                                              *)
(***************************************************************************)
Fields == {"size", "head", "used", "n", "has_shift", "do_defrag", "do_copy", "cells", "src"}

(* d is a cache that was made from c.                                       *)
Made(c, d) == DOMAIN d = DOMAIN c /\ d.size = c.size /\ d.used \in Int /\ DOMAIN d.cells = Idx(c)

LEMMA MadeIsCache ==
  ASSUME NEW c, Sound(c), NEW d, Made(c, d)
  PROVE  IsCache(d) /\ Idx(d) = Idx(c)
BY DEF Made, Sound, IsCache, Idx

LEMMA SoundFacts ==
  ASSUME NEW c, Sound(c)
  PROVE  /\ DOMAIN c = Fields /\ c.size \in Nat /\ c.used \in Nat
         /\ DOMAIN c.cells = Idx(c) /\ \A i \in Idx(c) : CellOk(c.cells[i]) /\ c.cells[i] \in Cell
         /\ Occupied(c) \in SUBSET Idx(c) /\ IsFiniteSet(Occupied(c))
         /\ c.used = Cardinality(Occupied(c))
<1>1. /\ c.size \in Nat /\ c.used = Cardinality(Occupied(c)) /\ DOMAIN c = Fields
      /\ DOMAIN c.cells = Idx(c) /\ \A i \in Idx(c) : CellOk(c.cells[i])
  BY DEF Sound, IsCache, Fields
<1>2. IsFiniteSet(Occupied(c)) /\ Occupied(c) \in SUBSET Idx(c)
  BY <1>1, FiniteCells DEF Occupied
<1>3. Cardinality(Occupied(c)) \in Nat
  BY <1>2, FS_CardinalityType
<1>. QED
  BY <1>1, <1>2, <1>3 DEF CellOk

(* What an operation that frees cells has to leave.                         *)
LEMMA Freed ==
  ASSUME NEW c, Sound(c), NEW d, DOMAIN d = DOMAIN c, d.size = c.size, DOMAIN d.cells = Idx(c),
         NEW freed \in SUBSET Occupied(c), d.used = c.used - Cardinality(freed),
         \A i \in Idx(c) : /\ CellOk(d.cells[i])
                           /\ d.cells[i].seqs = {} <=> i \in freed \/ c.cells[i].seqs = {},
         ~d.has_shift => \A i \in Idx(c) : d.cells[i].delta = 0
  PROVE  Sound(d)
<1>1. /\ Occupied(c) \in SUBSET Idx(c) /\ IsFiniteSet(Occupied(c)) /\ c.used = Cardinality(Occupied(c))
      /\ c.used \in Nat
  BY SoundFacts
<1>2. Cardinality(freed) \in Nat
  BY <1>1, FS_Subset, FS_CardinalityType
<1>3. IsCache(d) /\ Idx(d) = Idx(c)
  BY <1>1, <1>2, MadeIsCache DEF Made
<1>4. Occupied(d) = Occupied(c) \ freed
  BY <1>3 DEF Occupied
<1>5. Cardinality(Occupied(d)) = Cardinality(Occupied(c)) - Cardinality(freed)
  BY <1>1, <1>4, Less
<1>. QED
  BY <1>1, <1>3, <1>5 DEF Sound, Settled

(* What one that frees none has to leave.                                   *)
LEMMA Kept ==
  ASSUME NEW c, Sound(c), NEW d, DOMAIN d = DOMAIN c, d.size = c.size, DOMAIN d.cells = Idx(c),
         d.used = c.used,
         \A i \in Idx(c) : CellOk(d.cells[i]) /\ (d.cells[i].seqs = {} <=> c.cells[i].seqs = {}),
         ~d.has_shift => \A i \in Idx(c) : d.cells[i].delta = 0
  PROVE  Sound(d)
<1>0. Idx(d) = Idx(c) /\ d.used \in Int
  BY SoundFacts DEF Idx
<1>1. Occupied(d) = Occupied(c) /\ d.used \in Int
  BY <1>0 DEF Occupied
<1>2. IsCache(d) /\ Idx(d) = Idx(c)
  BY <1>1, MadeIsCache DEF Made
<1>. QED
  BY <1>1, <1>2, SoundFacts DEF Sound, Settled

(* The head, the extent and what is asked for later do not matter here.     *)
LEMMA Aside ==
  ASSUME NEW c, Sound(c), NEW d, DOMAIN d = DOMAIN c, d.size = c.size, d.cells = c.cells,
         d.used = c.used, d.has_shift = c.has_shift
  PROVE  Sound(d)
<1>1. Idx(d) = Idx(c) /\ Occupied(d) = Occupied(c)
  BY DEF Idx, Occupied
<1>. QED
  BY <1>1 DEF Sound, IsCache, Settled

LEMMA SeqRmSound ==
  ASSUME NEW c, Sound(c), NEW s \in Int, NEW p0 \in Int, NEW p1 \in Int, ~hybrid,
         NEW d, d = CellsSeqRm(c, s, p0, p1, hybrid)
  PROVE  Sound(d) /\ d.size = c.size /\ d.has_shift = c.has_shift
<1>. DEFINE hit == InRange(c, s, p0, p1)
            freed == {i \in hit : c.cells[i].seqs = {s}}
<1>1. DOMAIN c = Fields
  BY SoundFacts
<1>2. DOMAIN d = DOMAIN c /\ d.size = c.size /\ d.has_shift = c.has_shift
  BY <1>1 DEF CellsSeqRm, Fields
<1>3. d.used = c.used - Cardinality(freed)
  BY <1>1 DEF CellsSeqRm, Fields
<1>4. d.cells = [i \in Idx(c) |->
                   IF i \in freed THEN Cleared(c.cells[i])
                   ELSE IF i \in hit THEN [c.cells[i] EXCEPT !.seqs = c.cells[i].seqs \ {s}]
                   ELSE c.cells[i]]
  BY <1>1 DEF CellsSeqRm, Fields
<1>5. freed \in SUBSET Occupied(c) /\ hit \in SUBSET Idx(c)
  BY DEF InRange, Occupied
<1>6. ASSUME NEW i \in Idx(c)
      PROVE  /\ CellOk(d.cells[i]) /\ (d.cells[i].seqs = {} <=> i \in freed \/ c.cells[i].seqs = {})
             /\ d.cells[i].delta = c.cells[i].delta
  <2>1. CellOk(c.cells[i]) /\ c.cells[i] \in Cell /\ c.cells[i].seqs \in SUBSET Int
    BY SoundFacts DEF Cell
  <2>2. CASE i \in freed
    BY <1>4, <2>1, <2>2, ClearedOk
  <2>3. CASE i \in hit /\ i \notin freed
    <3>. DEFINE T == c.cells[i].seqs \ {s}
    <3>1. d.cells[i] = [c.cells[i] EXCEPT !.seqs = T] /\ c.cells[i].seqs # {} /\ T \in SUBSET Int /\ T # {}
      BY <1>4, <2>1, <2>3 DEF InRange
    <3>. HIDE DEF T
    <3>. QED
      BY <2>1, <2>3, <3>1, ReownedOk
  <2>4. CASE i \notin hit
    BY <1>4, <2>1, <2>4
  <2>. QED
    BY <2>2, <2>3, <2>4
<1>7. ~d.has_shift => \A i \in Idx(c) : d.cells[i].delta = 0
  BY <1>2, <1>6 DEF Sound, Settled
<1>8. DOMAIN d.cells = Idx(c)
  BY <1>4
<1>. HIDE DEF freed
<1>9. \A i \in Idx(c) : CellOk(d.cells[i]) /\ (d.cells[i].seqs = {} <=> i \in freed \/ c.cells[i].seqs = {})
  BY <1>6
<1>10. Sound(d)
  BY ONLY Sound(c), <1>2, <1>3, <1>5, <1>7, <1>8, <1>9, Freed
<1>. QED
  BY <1>2, <1>10

LEMMA SeqKeepSound ==
  ASSUME NEW c, Sound(c), NEW s \in Int, ~hybrid, NEW d, d = CellsSeqKeep(c, s, hybrid)
  PROVE  Sound(d) /\ d.size = c.size
<1>. DEFINE others == {i \in Idx(c) : s \notin c.cells[i].seqs}
            freed == {i \in others : c.cells[i].pos >= 0}
<1>1. DOMAIN c = Fields
  BY SoundFacts
<1>2. DOMAIN d = DOMAIN c /\ d.size = c.size /\ d.has_shift = c.has_shift
  BY <1>1 DEF CellsSeqKeep, Fields
<1>3. d.used = c.used - Cardinality(freed)
  BY <1>1 DEF CellsSeqKeep, Fields
<1>4. d.cells = [i \in Idx(c) |-> IF i \in others THEN Cleared(c.cells[i])
                                  ELSE [c.cells[i] EXCEPT !.seqs = {s}]]
  BY <1>1 DEF CellsSeqKeep, Fields
<1>5. freed \in SUBSET Occupied(c)
  BY SoundFacts DEF Occupied, CellOk
<1>6. ASSUME NEW i \in Idx(c)
      PROVE  /\ CellOk(d.cells[i]) /\ (d.cells[i].seqs = {} <=> i \in freed \/ c.cells[i].seqs = {})
             /\ d.cells[i].delta = c.cells[i].delta
  <2>1. CellOk(c.cells[i]) /\ c.cells[i] \in Cell /\ c.cells[i].seqs \in SUBSET Int
    BY SoundFacts DEF Cell
  <2>2. CASE i \in others
    <3>1. i \in freed <=> c.cells[i].seqs # {}
      BY <2>1, <2>2 DEF CellOk
    <3>. QED
      BY <1>4, <2>1, <2>2, <3>1, ClearedOk
  <2>3. CASE i \notin others
    <3>. DEFINE T == {s}
    <3>1. d.cells[i] = [c.cells[i] EXCEPT !.seqs = T] /\ c.cells[i].seqs # {} /\ T \in SUBSET Int /\ T # {}
      BY <1>4, <2>1, <2>3
    <3>. HIDE DEF T
    <3>. QED
      BY <2>1, <2>3, <3>1, ReownedOk
  <2>. QED
    BY <2>2, <2>3
<1>7. ~d.has_shift => \A i \in Idx(c) : d.cells[i].delta = 0
  BY <1>2, <1>6 DEF Sound, Settled
<1>8. DOMAIN d.cells = Idx(c)
  BY <1>4
<1>. HIDE DEF freed
<1>9. \A i \in Idx(c) : CellOk(d.cells[i]) /\ (d.cells[i].seqs = {} <=> i \in freed \/ c.cells[i].seqs = {})
  BY <1>6
<1>10. Sound(d)
  BY ONLY Sound(c), <1>2, <1>3, <1>5, <1>7, <1>8, <1>9, Freed
<1>. QED
  BY <1>2, <1>10

LEMMA SeqAddSound ==
  ASSUME NEW c, Sound(c), NEW s \in Int, NEW p0 \in Int, NEW p1 \in Int, NEW m \in Int,
         NEW d, d = CellsSeqAdd(c, s, p0, p1, m)
  PROVE  Sound(d) /\ d.size = c.size
<1>. DEFINE hit == InRange(c, s, p0, p1)
            freed == {i \in hit : c.cells[i].pos + m < 0}
<1>1. DOMAIN c = Fields
  BY SoundFacts
<1>2. DOMAIN d = DOMAIN c /\ d.size = c.size /\ d.has_shift = (c.has_shift \/ hit # {})
  BY <1>1 DEF CellsSeqAdd, Fields
<1>3. d.used = c.used - Cardinality(freed)
  BY <1>1 DEF CellsSeqAdd, Fields
<1>4. d.cells = [i \in Idx(c) |->
                   LET moved == Repositioned(c.cells[i], c.cells[i].pos + m)
                   IN  IF i \in freed THEN Cleared(moved)
                       ELSE IF i \in hit THEN moved ELSE c.cells[i]]
  BY <1>1 DEF CellsSeqAdd, Fields
<1>5. freed \in SUBSET Occupied(c) /\ hit \in SUBSET Idx(c)
  BY DEF InRange, Occupied
<1>6. ASSUME NEW i \in Idx(c)
      PROVE  /\ CellOk(d.cells[i]) /\ (d.cells[i].seqs = {} <=> i \in freed \/ c.cells[i].seqs = {})
             /\ i \notin hit => d.cells[i].delta = c.cells[i].delta
  <2>1. CellOk(c.cells[i]) /\ c.cells[i] \in Cell /\ c.cells[i].pos \in Int
    BY SoundFacts DEF Cell
  <2>. DEFINE p == c.cells[i].pos + m
              moved == Repositioned(c.cells[i], p)
  <2>2. p \in Int
    BY <2>1
  <2>3. moved \in Cell /\ moved.seqs = c.cells[i].seqs /\ (p >= 0 /\ c.cells[i].seqs # {} => CellOk(moved))
    <3>. HIDE DEF p
    <3>. QED
      BY <2>1, <2>2, RepositionedOk
  <2>4. d.cells[i] = IF i \in freed THEN Cleared(moved) ELSE IF i \in hit THEN moved ELSE c.cells[i]
    BY <1>4
  <2>5. i \in hit => c.cells[i].seqs # {} /\ (i \in freed <=> ~(p >= 0))
    BY <2>2 DEF InRange
  <2>. HIDE DEF moved, p
  <2>6. CASE i \in freed
    BY <2>3, <2>4, <2>6, ClearedOk
  <2>7. CASE i \in hit /\ i \notin freed
    BY <2>3, <2>4, <2>5, <2>7
  <2>8. CASE i \notin hit
    BY <2>1, <2>4, <2>8
  <2>. QED
    BY <2>6, <2>7, <2>8
<1>7. ~d.has_shift => \A i \in Idx(c) : d.cells[i].delta = 0
  <2>1. ~d.has_shift => ~c.has_shift /\ hit = {}
    BY <1>2
  <2>. QED
    BY <1>6, <2>1 DEF Sound, Settled
<1>8. DOMAIN d.cells = Idx(c)
  BY <1>4
<1>. HIDE DEF freed
<1>9. \A i \in Idx(c) : CellOk(d.cells[i]) /\ (d.cells[i].seqs = {} <=> i \in freed \/ c.cells[i].seqs = {})
  BY <1>6
<1>10. Sound(d)
  BY ONLY Sound(c), <1>2, <1>3, <1>5, <1>7, <1>8, <1>9, Freed
<1>. QED
  BY <1>2, <1>10

LEMMA SeqDivSound ==
  ASSUME NEW c, Sound(c), NEW s \in Int, NEW p0 \in Nat, NEW p1 \in Int,
         NEW d, d = CellsSeqDiv(c, s, p0, p1, 2)
  PROVE  Sound(d) /\ d.size = c.size
<1>. DEFINE hit == InRange(c, s, p0, p1)
<1>1. DOMAIN c = Fields
  BY SoundFacts
<1>2. /\ DOMAIN d = DOMAIN c /\ d.size = c.size /\ d.has_shift = (c.has_shift \/ hit # {})
      /\ d.used = c.used
  BY <1>1 DEF CellsSeqDiv, Fields
<1>3. d.cells = [i \in Idx(c) |-> IF i \in hit THEN Repositioned(c.cells[i], c.cells[i].pos \div 2)
                                  ELSE c.cells[i]]
  BY <1>1 DEF CellsSeqDiv, Fields
<1>4. ASSUME NEW i \in Idx(c)
      PROVE  /\ CellOk(d.cells[i]) /\ (d.cells[i].seqs = {} <=> c.cells[i].seqs = {})
             /\ i \notin hit => d.cells[i].delta = c.cells[i].delta
  <2>1. CellOk(c.cells[i])
    BY SoundFacts
  <2>2. CASE i \in hit
    <3>. DEFINE p == c.cells[i].pos \div 2
    <3>1. c.cells[i].seqs # {} /\ c.cells[i].pos \in Nat
      BY <2>2 DEF InRange
    <3>2. p \in Int /\ p >= 0 /\ d.cells[i] = Repositioned(c.cells[i], p)
      BY <1>3, <2>2, <3>1
    <3>. HIDE DEF p
    <3>. QED
      BY <2>1, <2>2, <3>1, <3>2, RepositionedOk
  <2>3. CASE i \notin hit
    BY <1>3, <2>1, <2>3
  <2>. QED
    BY <2>2, <2>3
<1>5. ~d.has_shift => \A i \in Idx(c) : d.cells[i].delta = 0
  <2>1. ~d.has_shift => ~c.has_shift /\ hit = {}
    BY <1>2
  <2>. QED
    BY <1>4, <2>1 DEF Sound, Settled
<1>6. DOMAIN d.cells = Idx(c)
  BY <1>3
<1>7. \A i \in Idx(c) : CellOk(d.cells[i]) /\ (d.cells[i].seqs = {} <=> c.cells[i].seqs = {})
  BY <1>4
<1>8. Sound(d)
  BY ONLY Sound(c), <1>2, <1>5, <1>6, <1>7, Kept
<1>. QED
  BY <1>2, <1>8

LEMMA SeqCpSound ==
  ASSUME NEW c, Sound(c), NEW src \in Int, NEW dst \in Int, ~hybrid,
         NEW d, d = CellsSeqCp(c, src, dst, hybrid)
  PROVE  Sound(d) /\ d.size = c.size
<1>1. DOMAIN c = Fields
  BY SoundFacts
<1>2. /\ DOMAIN d = DOMAIN c /\ d.size = c.size /\ d.has_shift = c.has_shift
      /\ d.used = c.used
  BY <1>1 DEF CellsSeqCp, Fields
<1>3. d.cells = [i \in Idx(c) |-> IF src \in c.cells[i].seqs /\ c.cells[i].pos >= 0
                                  THEN [c.cells[i] EXCEPT !.seqs = c.cells[i].seqs \cup {dst}]
                                  ELSE c.cells[i]]
  BY <1>1 DEF CellsSeqCp, Fields
<1>4. ASSUME NEW i \in Idx(c)
      PROVE  /\ CellOk(d.cells[i]) /\ (d.cells[i].seqs = {} <=> c.cells[i].seqs = {})
             /\ d.cells[i].delta = c.cells[i].delta
  <2>1. CellOk(c.cells[i]) /\ c.cells[i].seqs \in SUBSET Int
    BY SoundFacts DEF Cell
  <2>2. CASE src \in c.cells[i].seqs /\ c.cells[i].pos >= 0
    <3>. DEFINE T == c.cells[i].seqs \cup {dst}
    <3>1. d.cells[i] = [c.cells[i] EXCEPT !.seqs = T] /\ c.cells[i].seqs # {} /\ T \in SUBSET Int /\ T # {}
      BY <1>3, <2>1, <2>2
    <3>. HIDE DEF T
    <3>. QED
      BY <2>1, <3>1, ReownedOk
  <2>3. CASE ~(src \in c.cells[i].seqs /\ c.cells[i].pos >= 0)
    BY <1>3, <2>1, <2>3
  <2>. QED
    BY <2>2, <2>3
<1>5. ~d.has_shift => \A i \in Idx(c) : d.cells[i].delta = 0
  BY <1>2, <1>4 DEF Sound, Settled
<1>6. DOMAIN d.cells = Idx(c)
  BY <1>3
<1>7. \A i \in Idx(c) : CellOk(d.cells[i]) /\ (d.cells[i].seqs = {} <=> c.cells[i].seqs = {})
  BY <1>4
<1>8. Sound(d)
  BY ONLY Sound(c), <1>2, <1>5, <1>6, <1>7, Kept
<1>. QED
  BY <1>2, <1>8

LEMMA ClearSound ==
  ASSUME NEW c, Sound(c), NEW d, d = CellsClear(c)
  PROVE  /\ Sound(d) /\ d.size = c.size /\ d.has_shift = c.has_shift
         /\ \A i \in Idx(c) : d.cells[i].seqs = {}
<1>1. DOMAIN c = Fields
  BY SoundFacts
<1>2. /\ DOMAIN d = DOMAIN c /\ d.size = c.size /\ d.has_shift = c.has_shift
      /\ d.used = 0
  BY <1>1 DEF CellsClear, Fields
<1>3. d.cells = [i \in Idx(c) |-> Cleared(c.cells[i])]
  BY <1>1 DEF CellsClear, Fields
<1>4. ASSUME NEW i \in Idx(c)
      PROVE  CellOk(d.cells[i]) /\ d.cells[i].seqs = {} /\ d.cells[i].delta = c.cells[i].delta
  BY <1>3, SoundFacts, ClearedOk
<1>5. ~d.has_shift => \A i \in Idx(c) : d.cells[i].delta = 0
  BY <1>2, <1>4 DEF Sound, Settled
<1>6. DOMAIN d.cells = Idx(c)
  BY <1>3
<1>. DEFINE freed == Occupied(c)
<1>7. \A i \in Idx(c) : CellOk(d.cells[i]) /\ (d.cells[i].seqs = {} <=> i \in freed \/ c.cells[i].seqs = {})
  BY <1>4 DEF Occupied
<1>8. freed \in SUBSET Occupied(c) /\ d.used = c.used - Cardinality(freed)
  <2>1. c.used = Cardinality(freed) /\ c.used \in Nat
    BY SoundFacts
  <2>. QED
    BY <1>2, <2>1
<1>. HIDE DEF freed
<1>9. Sound(d)
  BY ONLY Sound(c), <1>2, <1>5, <1>6, <1>7, <1>8, Freed
<1>. QED
  BY <1>2, <1>4, <1>9

LEMMA KShiftSound ==
  ASSUME NEW c, Sound(c), NEW d, d = KShift(c)
  PROVE  Sound(d) /\ d.size = c.size /\ ~d.has_shift
<1>1. DOMAIN c = Fields
  BY SoundFacts
<1>2. DOMAIN d = DOMAIN c /\ d.size = c.size /\ ~d.has_shift /\ d.used = c.used
  BY <1>1 DEF KShift, Fields
<1>3. d.cells = [i \in Idx(c) |-> Rotated(c.cells[i])]
  BY <1>1 DEF KShift, Fields
<1>4. \A i \in Idx(c) : CellOk(d.cells[i]) /\ d.cells[i].seqs = c.cells[i].seqs /\ d.cells[i].delta = 0
  BY <1>3, SoundFacts, RotatedOk
<1>5. DOMAIN d.cells = Idx(c)
  BY <1>3
<1>6. Sound(d)
  BY <1>2, <1>4, <1>5, Kept
<1>. QED
  BY <1>2, <1>6

LEMMA WipedOk ==
  ASSUME NEW x \in Cell, NEW y, y = [Cleared(x) EXCEPT !.delta = 0]
  PROVE  CellOk(y) /\ y.seqs = {} /\ y.delta = 0
<1>. DEFINE z == Cleared(x)
<1>1. CellOk(z) /\ z.seqs = {} /\ y = [z EXCEPT !.delta = 0]
  BY ClearedOk
<1>. HIDE DEF z
<1>2. z \in Cell /\ 0 \in Int
  BY <1>1 DEF CellOk
<1>3. y \in Cell
  BY <1>1, <1>2 DEF Cell
<1>4. y.seqs = {} /\ y.delta = 0 /\ y.pos = z.pos
  BY <1>1, <1>2 DEF Cell
<1>. QED
  BY <1>1, <1>3, <1>4 DEF CellOk

(* Cells that are wiped, as eviction and the release of a slot do.          *)
LEMMA Wiped ==
  ASSUME NEW c, Sound(c), NEW d, NEW gone \in SUBSET Occupied(c),
         DOMAIN d = DOMAIN c, d.size = c.size, d.has_shift = c.has_shift,
         d.used = c.used - Cardinality(gone),
         d.cells = [i \in Idx(c) |-> IF i \in gone THEN [Cleared(c.cells[i]) EXCEPT !.delta = 0]
                                     ELSE c.cells[i]]
  PROVE  Sound(d)
<1>1. ASSUME NEW i \in Idx(c)
      PROVE  /\ CellOk(d.cells[i]) /\ (d.cells[i].seqs = {} <=> i \in gone \/ c.cells[i].seqs = {})
             /\ d.cells[i].delta = 0 \/ d.cells[i].delta = c.cells[i].delta
  <2>1. CellOk(c.cells[i]) /\ c.cells[i] \in Cell
    BY SoundFacts
  <2>2. CASE i \in gone
    BY <2>1, <2>2, WipedOk
  <2>3. CASE i \notin gone
    BY <2>1, <2>3
  <2>. QED
    BY <2>2, <2>3
<1>2. ~d.has_shift => \A i \in Idx(c) : d.cells[i].delta = 0
  BY <1>1 DEF Sound, Settled
<1>3. DOMAIN d.cells = Idx(c)
  OBVIOUS
<1>4. \A i \in Idx(c) : CellOk(d.cells[i]) /\ (d.cells[i].seqs = {} <=> i \in gone \/ c.cells[i].seqs = {})
  BY <1>1
<1>. QED
  BY <1>2, <1>3, <1>4, Freed

LEMMA SwaEvictSound ==
  ASSUME NEW c, Sound(c), NEW batch, NEW guard, NEW d, d = SwaEvict(c, batch, guard)
  PROVE  Sound(d) /\ d.size = c.size /\ d.has_shift = c.has_shift
<1>. DEFINE dead == {i \in Occupied(c) : \A s \in c.cells[i].seqs :
                       RefPos(c, s, batch) - c.cells[i].pos >= n_swa + guard}
<1>1. DOMAIN c = Fields
  BY SoundFacts
<1>2. DOMAIN d = DOMAIN c /\ d.size = c.size /\ d.has_shift = c.has_shift
  BY <1>1 DEF SwaEvict, Fields
<1>3. d.used = c.used - Cardinality(dead)
  BY <1>1 DEF SwaEvict, Fields
<1>4. d.cells = [i \in Idx(c) |-> IF i \in dead THEN [Cleared(c.cells[i]) EXCEPT !.delta = 0]
                                  ELSE c.cells[i]]
  BY <1>1 DEF SwaEvict, Fields
<1>5. dead \in SUBSET Occupied(c)
  OBVIOUS
<1>. HIDE DEF dead
<1>6. Sound(d)
  BY <1>2, <1>3, <1>4, <1>5, Wiped
<1>. QED
  BY <1>2, <1>6

LEMMA RunLength ==
  ASSUME NEW h \in Nat, NEW n \in Nat
  PROVE  IsFiniteSet(h..h+n-1) /\ Cardinality(h..h+n-1) = n
<1>. DEFINE b == h + n - 1
<1>1. b \in Int /\ (IF h > b THEN 0 ELSE b - h + 1) = n
  OBVIOUS
<1>. HIDE DEF b
<1>2. IsFiniteSet(h..b) /\ Cardinality(h..b) = IF h > b THEN 0 ELSE b - h + 1
  BY <1>1, FS_Interval
<1>. QED
  BY <1>1, <1>2 DEF b

LEMMA SwaReleaseSound ==
  ASSUME NEW c, Sound(c), NEW n \in Nat, c.head \in Nat, c.head..c.head+n-1 \in SUBSET Occupied(c),
         NEW d, d = SwaReleaseSlot(c, n)
  PROVE  Sound(d) /\ d.size = c.size
<1>. DEFINE gone == c.head..c.head+n-1
<1>1. DOMAIN c = Fields
  BY SoundFacts
<1>2. DOMAIN d = DOMAIN c /\ d.size = c.size /\ d.has_shift = c.has_shift
  BY <1>1 DEF SwaReleaseSlot, Fields
<1>3. d.used = c.used - n
  BY <1>1 DEF SwaReleaseSlot, Fields
<1>4. d.cells = [i \in Idx(c) |-> IF i \in gone THEN [Cleared(c.cells[i]) EXCEPT !.delta = 0]
                                  ELSE c.cells[i]]
  BY <1>1 DEF SwaReleaseSlot, Fields
<1>5. Cardinality(gone) = n /\ gone \in SUBSET Occupied(c)
  BY RunLength
<1>. HIDE DEF gone
<1>6. Sound(d)
  BY <1>2, <1>3, <1>4, <1>5, Wiped
<1>. QED
  BY <1>2, <1>6

(* A batch in free cells, none of which has a shift left.                   *)
LEMMA PlaceSound ==
  ASSUME NEW c, Sound(c), ~c.has_shift, NEW batch, NEW n \in Nat, n = Len(batch),
         NEW h \in SlotStarts(c, n), \A j \in 1..n : TokenOk(batch[j]), NEW d, d = Place(c, h, batch)
  PROVE  /\ Sound(d) /\ d.size = c.size /\ ~d.has_shift
         /\ d.head = h /\ h \in Nat /\ h..h+n-1 \in SUBSET Occupied(d)
<1>. DEFINE new == h..h+n-1
<1>1. /\ DOMAIN c = Fields /\ c.size \in Nat /\ c.used \in Nat /\ c.used = Cardinality(Occupied(c))
      /\ Occupied(c) \in SUBSET Idx(c) /\ IsFiniteSet(Occupied(c))
  BY SoundFacts
<1>2. DOMAIN d = DOMAIN c /\ d.size = c.size /\ ~d.has_shift /\ d.head = h
  BY <1>1 DEF Place, Fields
<1>3. d.used = c.used + n
  BY <1>1 DEF Place, Fields
<1>4. d.cells = [i \in Idx(c) |-> IF i \in new THEN Taking(c.cells[i], batch[i-h+1]) ELSE c.cells[i]]
  BY <1>1 DEF Place, Fields
<1>5. h \in Nat /\ h + n <= c.size /\ \A i \in new : c.cells[i].pos < 0
  BY <1>1 DEF SlotStarts, Idx
<1>6. new \in SUBSET Idx(c) /\ \A i \in new : i - h + 1 \in 1..n
  BY <1>1, <1>5 DEF Idx
<1>7. ASSUME NEW i \in Idx(c)
      PROVE  /\ CellOk(d.cells[i]) /\ d.cells[i].delta = 0
             /\ d.cells[i].seqs # {} <=> i \in new \/ i \in Occupied(c)
             /\ i \in new => i \notin Occupied(c)
  <2>1. CellOk(c.cells[i]) /\ c.cells[i].delta = 0 /\ (i \in Occupied(c) <=> c.cells[i].seqs # {})
    BY SoundFacts DEF Sound, Settled, Occupied
  <2>2. CASE i \in new
    <3>. DEFINE b == batch[i-h+1]
    <3>1. TokenOk(b) /\ d.cells[i] = Taking(c.cells[i], b)
      BY <1>4, <1>6, <2>2
    <3>. HIDE DEF b
    <3>2. CellOk(d.cells[i]) /\ d.cells[i].seqs # {} /\ d.cells[i].delta = 0
      BY <2>1, <3>1, TakingOk
    <3>3. c.cells[i].seqs = {}
      BY <1>5, <2>1, <2>2 DEF CellOk, Cell
    <3>. QED
      BY <2>1, <2>2, <3>2, <3>3
  <2>3. CASE i \notin new
    BY <1>4, <2>1, <2>3
  <2>. QED
    BY <2>2, <2>3
<1>8. DOMAIN d.cells = Idx(c) /\ d.used \in Int
  BY <1>1, <1>3, <1>4
<1>9. IsCache(d) /\ Idx(d) = Idx(c)
  BY <1>2, <1>8, MadeIsCache DEF Made
<1>10. IsFiniteSet(new) /\ Cardinality(new) = n
  BY <1>5, RunLength
<1>. HIDE DEF new
<1>11. Occupied(d) = Occupied(c) \cup new /\ Occupied(c) \cap new = {}
  BY <1>1, <1>6, <1>7, <1>9 DEF Occupied
<1>12. Cardinality(Occupied(c) \cup new) = Cardinality(Occupied(c)) + Cardinality(new) - Cardinality({})
  BY <1>1, <1>10, <1>11, FS_Union
<1>13. Cardinality({}) = 0
  BY FS_EmptySet
<1>14. d.used = Cardinality(Occupied(d))
  BY <1>1, <1>3, <1>10, <1>11, <1>12, <1>13
<1>15. Sound(d)
  BY <1>7, <1>9, <1>14 DEF Sound, Settled
<1>. QED
  BY <1>2, <1>5, <1>11, <1>15 DEF new

LEMMA FirstSlotStarts ==
  ASSUME NEW c, NEW n, c.size \in Nat, SlotStarts(c, n) # {}
  PROVE  FirstSlot(c, n) \in SlotStarts(c, n)
<1>1. SlotStarts(c, n) \in SUBSET Nat
  BY DEF SlotStarts, Idx
<1>. DEFINE S == SlotStarts(c, n)
            ahead == {h \in S : h >= c.head}
<1>2. FirstSlot(c, n) = IF ahead # {} THEN Min(ahead) ELSE Min(S)
  BY DEF FirstSlot
<1>3. ahead \in SUBSET S /\ ahead \in SUBSET Nat
  BY <1>1
<1>. HIDE DEF ahead, S
<1>4. ahead # {} => Min(ahead) \in ahead
  BY <1>3, Least
<1>5. Min(S) \in S
  BY <1>1, Least DEF S
<1>. QED
  BY <1>2, <1>3, <1>4, <1>5 DEF S

(***************************************************************************)
(* Defragmentation: different holes are filled with different cells.       *)
(***************************************************************************)
Above(S, m) == {k \in S : k > m}

(* In a finite set there is one element of each rank.                       *)
LEMMA Ranks ==
  ASSUME NEW S \in SUBSET Nat, IsFiniteSet(S), NEW r \in 0..Cardinality(S)-1
  PROVE  \E m \in S : Cardinality(Above(S, m)) = r
<1>. DEFINE n == Cardinality(S)
            f == [m \in S |-> Cardinality(Above(S, m))]
            T == 0..n-1
<1>1. n \in Nat
  BY FS_CardinalityType
<1>2. \A m \in S : IsFiniteSet(Above(S, m)) /\ Cardinality(Above(S, m)) \in Nat
  <2>1. \A m \in S : Above(S, m) \in SUBSET S
    BY DEF Above
  <2>2. \A m \in S : IsFiniteSet(Above(S, m))
    BY <2>1, FS_Subset
  <2>. QED
    BY <2>2, FS_CardinalityType
<1>3. ASSUME NEW a, NEW b, IsFiniteSet(b), a \in SUBSET b, a # b
      PROVE  Cardinality(a) < Cardinality(b)
  <2>1. IsFiniteSet(a) /\ Cardinality(a) <= Cardinality(b) /\ Cardinality(b) # Cardinality(a)
    BY <1>3, FS_Subset
  <2>2. Cardinality(a) \in Nat /\ Cardinality(b) \in Nat
    BY <1>3, <2>1, FS_CardinalityType
  <2>. QED
    BY <2>1, <2>2
<1>4. \A m \in S : Cardinality(Above(S, m)) \in T
  <2>. TAKE m \in S
  <2>1. Above(S, m) \in SUBSET S /\ Above(S, m) # S
    BY DEF Above
  <2>2. Cardinality(Above(S, m)) < n
    BY <1>3, <2>1
  <2>. QED
    BY <1>1, <1>2, <2>2
<1>5. \A a, b \in S : a # b => Cardinality(Above(S, a)) # Cardinality(Above(S, b))
  <2>1. ASSUME NEW a \in S, NEW b \in S, a < b
        PROVE  Cardinality(Above(S, b)) < Cardinality(Above(S, a))
    <3>1. Above(S, b) \in SUBSET Above(S, a) /\ b \in Above(S, a) /\ b \notin Above(S, b)
      <4>1. \A k \in S : k > b => k > a
        BY <2>1
      <4>2. b > a /\ ~(b > b)
        BY <2>1
      <4>. QED
        BY <4>1, <4>2 DEF Above
    <3>2. Above(S, b) # Above(S, a)
      BY <3>1
    <3>. QED
      BY <1>2, <1>3, <3>1, <3>2
  <2>2. ASSUME NEW a \in S, NEW b \in S, a # b
        PROVE  Cardinality(Above(S, a)) # Cardinality(Above(S, b))
    <3>1. a < b \/ b < a
      BY <2>2
    <3>2. Cardinality(Above(S, a)) \in Nat /\ Cardinality(Above(S, b)) \in Nat
      BY <1>2
    <3>. QED
      BY <2>1, <3>1, <3>2
  <2>. QED
    BY <2>2
<1>6. f \in Injection(S, T)
  <2>1. f \in [S -> T]
    BY <1>4
  <2>2. \A a, b \in S : f[a] = f[b] => a = b
    BY <1>5
  <2>. QED
    BY <2>1, <2>2 DEF Injection, IsInjective
<1>7. IsFiniteSet(T) /\ Cardinality(T) = n
  <2>1. 0 + n - 1 = n - 1
    BY <1>1
  <2>. QED
    BY <1>1, <2>1, RunLength
<1>. HIDE DEF f, T
<1>8. f \in Surjection(S, T)
  BY <1>6, <1>7, FS_Injection
<1>9. \E m \in S : f[m] = r
  BY <1>8 DEF Surjection, T
<1>. QED
  BY <1>9 DEF f

LEMMA HolesAndMovers ==
  ASSUME NEW c, Sound(c)
  PROVE  /\ c.used <= c.size /\ Holes(c) \in SUBSET (Idx(c) \ Occupied(c)) /\ Movers(c) \in SUBSET Occupied(c)
         /\ IsFiniteSet(Holes(c)) /\ IsFiniteSet(Movers(c))
         /\ Cardinality(Holes(c)) = Cardinality(Movers(c)) /\ Cardinality(Holes(c)) \in Nat
<1>. DEFINE u == c.used
            O == Occupied(c)
            H == Holes(c)
            M == Movers(c)
            L == O \ M
            F == 0..0+u-1
<1>1. /\ c.size \in Nat /\ u \in Nat /\ u = Cardinality(O) /\ O \in SUBSET Idx(c) /\ IsFiniteSet(O)
  BY SoundFacts
<1>2. IsFiniteSet(Idx(c)) /\ Cardinality(Idx(c)) = c.size
  <2>1. Idx(c) = 0..0+c.size-1
    BY <1>1 DEF Idx
  <2>. QED
    BY <1>1, <2>1, RunLength
<1>3. u <= c.size
  BY <1>1, <1>2, FS_Subset
<1>4. IsFiniteSet(F) /\ Cardinality(F) = u
  BY <1>1, RunLength
<1>5. M \in SUBSET O
  BY DEF Movers
<1>6. H \in SUBSET (Idx(c) \ O) /\ L \in SUBSET F /\ H = F \ L
  <2>1. \A i : i \in O <=> i \in Idx(c) /\ c.cells[i].seqs # {}
    BY DEF Occupied
  <2>2. \A i : i \in M <=> i \in O /\ i >= u
    BY DEF Movers
  <2>3. \A i : i \in H <=> i \in F /\ c.cells[i].seqs = {}
    BY <1>1 DEF Holes
  <2>4. F \in SUBSET Idx(c) /\ \A i \in Idx(c) : i \in F <=> ~(i >= u)
    BY <1>1, <1>3 DEF Idx
  <2>. HIDE DEF F, H, M, O, u
  <2>. QED
    BY <2>1, <2>2, <2>3, <2>4
<1>. HIDE DEF F, H, M, O, u, L
<1>7. Cardinality(L) = u - Cardinality(M)
  BY <1>1, <1>5, Less DEF L
<1>8. Cardinality(H) = u - Cardinality(L)
  BY <1>4, <1>6, Less
<1>9. IsFiniteSet(M) /\ Cardinality(M) \in Nat
  BY <1>1, <1>5, FS_Subset, FS_CardinalityType
<1>10. IsFiniteSet(H)
  BY <1>4, <1>6, FS_Subset
<1>11. Cardinality(H) = Cardinality(M)
  BY <1>1, <1>7, <1>8, <1>9
<1>. QED
  BY <1>3, <1>5, <1>6, <1>9, <1>10, <1>11 DEF u, O, H, M

(* What lies between two holes, and the holes whose cells come later.       *)
Span(g, h) == IF g < h THEN g..h ELSE h..g
Later(c, h) == {g \in Holes(c) : g < Min(RunOf(c, h))} \cup Above(RunOf(c, h), h)

LEMMA RunFacts ==
  ASSUME NEW c, Sound(c), NEW h \in Holes(c)
  PROVE  /\ Holes(c) \in SUBSET Nat
         /\ \A g : g \in RunOf(c, h) <=> g \in Holes(c) /\ \A k \in Span(g, h) : k \in Holes(c)
         /\ h \in RunOf(c, h)
         /\ Min(RunOf(c, h)) \in RunOf(c, h) /\ \A g \in RunOf(c, h) : Min(RunOf(c, h)) <= g
<1>1. Holes(c) \in SUBSET Nat
  BY DEF Holes
<1>2. \A g : g \in RunOf(c, h) <=> g \in Holes(c) /\ \A k \in Span(g, h) : k \in Holes(c)
  BY DEF RunOf, Span
<1>3. h \in RunOf(c, h)
  <2>1. \A k \in Span(h, h) : k = h
    BY <1>1 DEF Span
  <2>. QED
    BY <1>2, <2>1
<1>4. RunOf(c, h) \in SUBSET Nat /\ RunOf(c, h) # {}
  BY <1>1, <1>2, <1>3
<1>5. Min(RunOf(c, h)) \in RunOf(c, h) /\ \A g \in RunOf(c, h) : Min(RunOf(c, h)) <= g
  BY <1>4, Least
<1>. QED
  BY <1>1, <1>2, <1>3, <1>5

LEMMA LaterFacts ==
  ASSUME NEW c, Sound(c), NEW h \in Holes(c)
  PROVE  /\ Later(c, h) \in SUBSET Holes(c) /\ h \notin Later(c, h) /\ IsFiniteSet(Later(c, h))
         /\ Cardinality(Later(c, h)) = Cardinality({g \in Holes(c) : g < Min(RunOf(c, h))})
                                        + Cardinality({g \in RunOf(c, h) : g > h})
<1>. DEFINE lo == Min(RunOf(c, h))
            A == {g \in Holes(c) : g < lo}
            B == {g \in RunOf(c, h) : g > h}
<1>1. /\ Holes(c) \in SUBSET Nat /\ RunOf(c, h) \in SUBSET Holes(c) /\ h \in RunOf(c, h)
      /\ lo \in RunOf(c, h) /\ \A g \in RunOf(c, h) : lo <= g
  BY RunFacts DEF RunOf
<1>. HIDE DEF lo
<1>2. A \in SUBSET Holes(c) /\ B \in SUBSET Holes(c) /\ A \cap B = {} /\ h \notin A /\ h \notin B
  BY <1>1
<1>3. Later(c, h) = A \cup B
  BY DEF Later, Above, lo
<1>. HIDE DEF A, B
<1>4. IsFiniteSet(A) /\ IsFiniteSet(B)
  BY <1>2, HolesAndMovers, FS_Subset
<1>5. Cardinality(A) \in Nat /\ Cardinality(B) \in Nat /\ Cardinality({}) = 0
  BY <1>4, FS_CardinalityType, FS_EmptySet
<1>6. IsFiniteSet(A \cup B) /\ Cardinality(A \cup B) = Cardinality(A) + Cardinality(B) - Cardinality({})
  BY <1>2, <1>4, FS_Union
<1>. QED
  BY <1>2, <1>3, <1>5, <1>6 DEF A, B, lo

(* Sets of holes in strict inclusion.                                       *)
LEMMA Fewer ==
  ASSUME NEW S, IsFiniteSet(S), NEW T \in SUBSET S, NEW x \in S, x \notin T
  PROVE  Cardinality(T) < Cardinality(S)
<1>1. T # S
  OBVIOUS
<1>2. IsFiniteSet(T) /\ Cardinality(T) <= Cardinality(S) /\ Cardinality(S) # Cardinality(T)
  BY <1>1, FS_Subset
<1>3. Cardinality(T) \in Nat /\ Cardinality(S) \in Nat
  BY <1>2, FS_CardinalityType
<1>. QED
  BY <1>2, <1>3

LEMMA LaterDiffers ==
  ASSUME NEW c, Sound(c), NEW g \in Holes(c), NEW h \in Holes(c), g < h
  PROVE  Cardinality(Later(c, g)) # Cardinality(Later(c, h))
<1>. DEFINE H == Holes(c)
            P == RunOf(c, g)
            Q == RunOf(c, h)
            lo == Min(Q)
<1>1. /\ H \in SUBSET Nat /\ g \in P /\ h \in Q
      /\ (\A x : x \in P <=> x \in H /\ \A k \in Span(x, g) : k \in H)
      /\ (\A x : x \in Q <=> x \in H /\ \A k \in Span(x, h) : k \in H)
      /\ lo \in Q /\ \A x \in Q : lo <= x
  BY RunFacts
<1>2. Min(P) \in P /\ \A x \in P : Min(P) <= x
  BY RunFacts
<1>3. /\ Later(c, g) = {x \in H : x < Min(P)} \cup Above(P, g)
      /\ Later(c, h) = {x \in H : x < lo} \cup Above(Q, h)
  BY DEF Later
<1>4. /\ IsFiniteSet(Later(c, g)) /\ IsFiniteSet(Later(c, h))
      /\ Cardinality(Later(c, g)) \in Nat /\ Cardinality(Later(c, h)) \in Nat
      /\ h \notin Later(c, h) /\ g \notin Later(c, g)
  BY LaterFacts, FS_CardinalityType
<1>5. g \in Nat /\ h \in Nat
  BY <1>1
<1>. HIDE DEF P, Q, lo
<1>6. CASE \A k \in g..h : k \in H
  <2>1. \A x : x \in P <=> x \in Q
    <3>1. ASSUME NEW x \in P PROVE x \in Q
      <4>1. x \in H /\ \A k \in Span(x, g) : k \in H
        BY <1>1
      <4>2. \A k \in Span(x, h) : k \in Span(x, g) \/ k \in g..h
        BY <1>1, <1>5, <4>1 DEF Span
      <4>. QED
        BY <1>1, <1>6, <4>1, <4>2
    <3>2. ASSUME NEW x \in Q PROVE x \in P
      <4>1. x \in H /\ \A k \in Span(x, h) : k \in H
        BY <1>1
      <4>2. \A k \in Span(x, g) : k \in Span(x, h) \/ k \in g..h
        BY <1>1, <1>5, <4>1 DEF Span
      <4>. QED
        BY <1>1, <1>6, <4>1, <4>2
    <3>. QED
      BY <3>1, <3>2
  <2>2. P = Q
    BY <2>1
  <2>3. Above(Q, h) \in SUBSET Above(P, g) /\ h \in Above(P, g)
    <3>1. \A x \in Q : x \in Nat
      BY <1>1
    <3>. QED
      BY <1>1, <1>5, <2>2, <3>1 DEF Above
  <2>4. Later(c, h) \in SUBSET Later(c, g) /\ h \in Later(c, g)
    BY <1>3, <2>2, <2>3 DEF lo
  <2>. QED
    BY <1>4, <2>4, Fewer
<1>7. CASE ~\A k \in g..h : k \in H
  <2>1. PICK w \in g..h : w \notin H
    BY <1>7
  <2>2. lo \in H /\ lo <= h /\ lo \in Nat /\ \A k \in Span(lo, h) : k \in H
    BY <1>1
  <2>3. g < lo /\ w < lo
    <3>1. lo < h \/ lo = h
      BY <1>5, <2>2
    <3>2. \A k \in lo..h : k \in H
      BY <1>5, <2>2, <3>1 DEF Span
    <3>. QED
      BY <1>5, <2>1, <2>2, <3>2
  <2>4. ASSUME NEW x \in P PROVE x < lo
    <3>1. x \in H /\ x \in Nat /\ \A k \in Span(x, g) : k \in H
      BY <1>1
    <3>2. ASSUME ~(x < lo) PROVE FALSE
      <4>1. w \in Span(x, g)
        BY <1>5, <2>1, <2>2, <2>3, <3>1, <3>2 DEF Span
      <4>. QED
        BY <2>1, <3>1, <4>1
    <3>. QED
      BY <3>2
  <2>5. Later(c, g) \in SUBSET Later(c, h)
    <3>1. Min(P) < lo /\ Min(P) \in Nat /\ lo \in Nat
      BY <1>1, <1>2, <2>2, <2>4
    <3>2. \A x \in H : x < Min(P) => x < lo
      BY <1>1, <3>1
    <3>3. \A x \in P : x \in H /\ x < lo
      BY <1>1, <2>4
    <3>. QED
      BY <1>3, <3>2, <3>3 DEF Above
  <2>6. g \in Later(c, h)
    BY <1>3, <2>3
  <2>. QED
    BY <1>4, <2>5, <2>6, Fewer
<1>. QED
  BY <1>6, <1>7

LEMMA MoverFacts ==
  ASSUME NEW c, Sound(c)
  PROVE  /\ \A h \in Holes(c) : MoverFor(c, h) \in Movers(c)
         /\ \A g, h \in Holes(c) : g # h => MoverFor(c, g) # MoverFor(c, h)
<1>1. ASSUME NEW h \in Holes(c)
      PROVE  /\ MoverFor(c, h) \in Movers(c)
             /\ Cardinality(Above(Movers(c), MoverFor(c, h))) = Cardinality(Later(c, h))
  <2>. DEFINE r == Cardinality({g \in Holes(c) : g < Min(RunOf(c, h))})
                     + Cardinality({g \in RunOf(c, h) : g > h})
              M == Movers(c)
  <2>1. r = Cardinality(Later(c, h)) /\ Later(c, h) \in SUBSET Holes(c) /\ h \notin Later(c, h)
        /\ IsFiniteSet(Later(c, h))
    BY LaterFacts
  <2>2. MoverFor(c, h) = CHOOSE m \in M : Cardinality(Above(M, m)) = r
    BY DEF MoverFor, Above
  <2>. HIDE DEF r, M
  <2>3. /\ IsFiniteSet(Holes(c)) /\ IsFiniteSet(M) /\ Cardinality(Holes(c)) = Cardinality(M)
        /\ Cardinality(M) \in Nat /\ M \in SUBSET Nat
    <3>1. Occupied(c) \in SUBSET Nat
      BY DEF Occupied, Idx
    <3>. QED
      BY <3>1, HolesAndMovers DEF M
  <2>4. r < Cardinality(M) /\ r \in Nat
    <3>1. Cardinality(Later(c, h)) < Cardinality(Holes(c)) /\ Cardinality(Later(c, h)) \in Nat
      BY <2>1, <2>3, Fewer, FS_CardinalityType
    <3>. QED
      BY <2>1, <2>3, <3>1
  <2>5. r \in 0..Cardinality(M)-1
    BY <2>3, <2>4
  <2>6. \E m \in M : Cardinality(Above(M, m)) = r
    BY <2>3, <2>5, Ranks
  <2>. QED
    BY <2>1, <2>2, <2>6 DEF M
<1>2. ASSUME NEW g \in Holes(c), NEW h \in Holes(c), g # h
      PROVE  MoverFor(c, g) # MoverFor(c, h)
  <2>1. g < h \/ h < g
    BY <1>2, RunFacts
  <2>2. Cardinality(Later(c, g)) # Cardinality(Later(c, h))
    BY <2>1, LaterDiffers
  <2>. QED
    BY <1>1, <2>2
<1>. QED
  BY <1>1, <1>2

(* The cells that move.                                                     *)
Left(c, mm) == {MoverFor(c, h) : h \in Filled(c, mm)}

LEMMA DefragSound ==
  ASSUME NEW c, Sound(c), NEW mm, ~hybrid, NEW d, d = Defragged(c, mm, hybrid)
  PROVE  /\ Sound(d) /\ d.size = c.size /\ d.has_shift = c.has_shift
         /\ Filled(c, mm) \in SUBSET Holes(c) /\ Left(c, mm) \in SUBSET Occupied(c)
         /\ Cardinality(Left(c, mm)) = Cardinality(Filled(c, mm))
         /\ Occupied(d) = (Occupied(c) \ Left(c, mm)) \cup Filled(c, mm)
         /\ \A i \in Occupied(c) \ Left(c, mm) : d.cells[i] = c.cells[i]
         /\ \A h \in Filled(c, mm) : d.cells[h] = c.cells[MoverFor(c, h)]
<1>. DEFINE filled == Filled(c, mm)
            moved == {MoverFor(c, h) : h \in filled}
            f == [h \in filled |-> MoverFor(c, h)]
            O == Occupied(c)
<1>1. /\ DOMAIN c = Fields /\ c.used \in Nat /\ c.used = Cardinality(O)
      /\ O \in SUBSET Idx(c) /\ IsFiniteSet(O)
  BY SoundFacts
<1>2. DOMAIN d = DOMAIN c /\ d.size = c.size /\ d.has_shift = c.has_shift /\ d.used = c.used
  BY <1>1 DEF Defragged, Fields
<1>3. d.cells = [i \in Idx(c) |-> IF i \in filled THEN c.cells[MoverFor(c, i)]
                                  ELSE IF i \in moved THEN NewCell ELSE c.cells[i]]
  BY <1>1 DEF Defragged, Fields
<1>4. filled \in SUBSET Holes(c)
  BY DEF Filled
<1>5. /\ filled \in SUBSET Idx(c) /\ filled \cap O = {} /\ IsFiniteSet(filled)
      /\ (\A h \in filled : MoverFor(c, h) \in O)
      /\ \A g, h \in filled : g # h => MoverFor(c, g) # MoverFor(c, h)
  BY <1>4, HolesAndMovers, MoverFacts, FS_Subset
<1>. HIDE DEF filled
<1>6. moved \in SUBSET O
  BY <1>5
<1>7. Cardinality(moved) = Cardinality(filled)
  <2>1. f \in [filled -> moved] /\ (\A a, b \in filled : f[a] = f[b] => a = b)
        /\ \A m \in moved : \E h \in filled : f[h] = m
    BY <1>5
  <2>. HIDE DEF f, moved
  <2>2. f \in Injection(filled, moved) /\ f \in Surjection(filled, moved)
    BY <2>1 DEF Injection, IsInjective, Surjection
  <2>. QED
    BY <1>5, <2>2, FS_Surjection
<1>8. ASSUME NEW i \in Idx(c)
      PROVE  /\ CellOk(d.cells[i])
             /\ d.cells[i].seqs # {} <=> i \in filled \/ (i \in O /\ i \notin moved)
             /\ ~c.has_shift => d.cells[i].delta = 0
  <2>1. /\ \A j \in Idx(c) : CellOk(c.cells[j]) /\ (~c.has_shift => c.cells[j].delta = 0)
        /\ \A j \in Idx(c) : j \in O <=> c.cells[j].seqs # {}
    BY SoundFacts DEF Sound, Settled, Occupied
  <2>2. CASE i \in filled
    <3>1. MoverFor(c, i) \in O /\ MoverFor(c, i) \in Idx(c) /\ d.cells[i] = c.cells[MoverFor(c, i)]
      BY <1>1, <1>3, <1>5, <2>2
    <3>. QED
      BY <2>1, <2>2, <3>1
  <2>3. CASE i \notin filled /\ i \in moved
    <3>1. d.cells[i] = NewCell
      BY <1>3, <2>3
    <3>2. CellOk(NewCell) /\ NewCell.seqs = {} /\ NewCell.delta = 0
      <4>1. NoRow \in Row /\ -1 \in Int /\ 0 \in Int
        BY DEF NoRow, Row
      <4>2. NewCell \in Cell
        BY <4>1 DEF NewCell, Cell
      <4>. QED
        BY <4>2 DEF NewCell, CellOk
    <3>. QED
      BY <2>3, <3>1, <3>2
  <2>4. CASE i \notin filled /\ i \notin moved
    BY <1>3, <2>1, <2>4
  <2>. QED
    BY <2>2, <2>3, <2>4
<1>9. DOMAIN d.cells = Idx(c) /\ d.used \in Int
  BY <1>1, <1>2, <1>3
<1>10. IsCache(d) /\ Idx(d) = Idx(c)
  BY <1>2, <1>9, MadeIsCache DEF Made
<1>. HIDE DEF moved
<1>11. Occupied(d) = (O \ moved) \cup filled /\ (O \ moved) \cap filled = {}
  BY <1>1, <1>5, <1>8, <1>10 DEF Occupied
<1>12. IsFiniteSet(O \ moved) /\ Cardinality(O \ moved) = c.used - Cardinality(moved)
  <2>1. IsFiniteSet(O \ moved)
    BY <1>1, FS_Difference
  <2>2. Cardinality(O \ moved) = Cardinality(O) - Cardinality(moved)
    BY <1>1, <1>6, Less
  <2>. QED
    BY <1>1, <2>1, <2>2
<1>13. Cardinality(moved) \in Nat /\ Cardinality({}) = 0
  BY <1>1, <1>6, FS_Subset, FS_CardinalityType, FS_EmptySet
<1>14. Cardinality(Occupied(d)) = Cardinality(O \ moved) + Cardinality(filled) - Cardinality({})
  BY <1>5, <1>11, <1>12, FS_Union
<1>15. d.used = Cardinality(Occupied(d))
  BY <1>1, <1>2, <1>7, <1>12, <1>13, <1>14
<1>16. Sound(d)
  BY <1>2, <1>8, <1>10, <1>15 DEF Sound, Settled
<1>17. \A i \in O \ moved : d.cells[i] = c.cells[i]
  BY <1>1, <1>3, <1>5
<1>18. \A h \in filled : d.cells[h] = c.cells[MoverFor(c, h)]
  BY <1>3, <1>5
<1>19. Left(c, mm) = moved /\ Filled(c, mm) = filled
  BY DEF Left, moved, filled
<1>. QED
  BY <1>2, <1>4, <1>6, <1>7, <1>11, <1>16, <1>17, <1>18, <1>19

(* Below the r-th element from below there are enough others.               *)
LEMMA FirstOnes ==
  ASSUME NEW B \in SUBSET Nat, IsFiniteSet(B), NEW k \in Nat, k <= Cardinality(B),
         NEW F, F = {g \in B : Cardinality(B) - Cardinality(Above(B, g)) <= k}
  PROVE  IsFiniteSet(F) /\ Cardinality(F) >= k
<1>. DEFINE n == Cardinality(B)
            low == n - k
            T == low..low+k-1
            G == {g \in B : Cardinality(Above(B, g)) \in T}
            f == [g \in G |-> Cardinality(Above(B, g))]
<1>1. n \in Nat /\ low \in Nat /\ low + k - 1 = n - 1
  BY FS_CardinalityType
<1>2. IsFiniteSet(G) /\ G \in SUBSET B
  BY FS_Subset
<1>3. \A r \in T : \E g \in G : f[g] = r
  <2>1. ASSUME NEW r \in T PROVE \E g \in B : Cardinality(Above(B, g)) = r
    <3>1. r \in 0..Cardinality(B)-1
      BY <1>1
    <3>. QED
      BY <3>1, Ranks
  <2>. QED
    BY <2>1
<1>4. f \in [G -> T]
  OBVIOUS
<1>. HIDE DEF f
<1>5. f \in Surjection(G, T)
  BY <1>3, <1>4 DEF Surjection
<1>. HIDE DEF G
<1>6. Cardinality(T) <= Cardinality(G)
  BY <1>2, <1>5, FS_Surjection
<1>. HIDE DEF low
<1>7. Cardinality(T) = k
  BY <1>1, RunLength
<1>8. G \in SUBSET F /\ F \in SUBSET B
  <2>1. \A g \in G : Cardinality(Above(B, g)) \in T
    BY DEF G
  <2>2. \A g \in G : n - Cardinality(Above(B, g)) <= k
    BY <1>1, <2>1 DEF low
  <2>. QED
    BY <1>2, <2>2
<1>9. IsFiniteSet(F)
  BY <1>8, FS_Subset
<1>10. Cardinality(G) <= Cardinality(F) /\ Cardinality(G) \in Nat /\ Cardinality(F) \in Nat
  BY <1>2, <1>8, <1>9, FS_Subset, FS_CardinalityType
<1>. QED
  BY <1>6, <1>7, <1>9, <1>10

(* All holes are filled, or as many as the limit on blocks lets.            *)
LEMMA DefragDone ==
  ASSUME NEW c, Sound(c), NEW mm \in Nat, ~hybrid, NEW d, d = Defragged(c, mm, hybrid)
  PROVE  \/ Occupied(d) = 0..c.used-1
         \/ Cardinality(Occupied(d) \ Occupied(c)) >= mm
<1>. DEFINE H == Holes(c)
            O == Occupied(c)
            M == Movers(c)
            filled == Filled(c, mm)
            left == Left(c, mm)
<1>1. /\ filled \in SUBSET H /\ left \in SUBSET O /\ Cardinality(left) = Cardinality(filled)
      /\ Occupied(d) = (O \ left) \cup filled
  BY ONLY Sound(c), ~hybrid, d = Defragged(c, mm, hybrid), DefragSound
<1>2. /\ c.used <= c.size /\ H \in SUBSET (Idx(c) \ O) /\ M \in SUBSET O
      /\ IsFiniteSet(H) /\ IsFiniteSet(M) /\ Cardinality(H) = Cardinality(M)
  BY HolesAndMovers
<1>3. c.size \in Nat /\ c.used \in Nat
  BY SoundFacts
<1>4. CASE filled = H
  <2>1. left \in SUBSET M
    BY <1>1, MoverFacts DEF Left
  <2>. HIDE DEF left, filled, M, H
  <2>2. left = M
    BY <1>1, <1>2, <1>4, <2>1, FS_Subset
  <2>3. Occupied(d) = (O \ M) \cup H
    BY <1>1, <1>4, <2>2
  <2>4. (O \ M) \cup H = 0..c.used-1
    BY <1>2, <1>3 DEF M, H, Movers, Holes, Occupied, Idx
  <2>. QED
    BY <2>3, <2>4
<1>5. CASE filled # H
  <2>1. PICK h \in H : h \notin filled
    BY <1>1, <1>5
  <2>. DEFINE B == {g \in H : g <= h /\ StartsBlock(c, g)}
              F == {g \in B : Cardinality(B) - Cardinality(Above(B, g)) <= mm}
  <2>2. H \in SUBSET Nat
    BY <1>2 DEF Idx
  <2>3. ~(Cardinality(B) <= mm)
    BY <2>1 DEF Filled
  <2>4. B \in SUBSET Nat /\ IsFiniteSet(B) /\ B \in SUBSET H
    BY <1>2, <2>2, FS_Subset
  <2>5. Cardinality(B) \in Nat
    BY <2>4, FS_CardinalityType
  <2>6. ASSUME NEW g \in F PROVE g \in filled
    <3>. DEFINE up == {k \in H : k <= g /\ StartsBlock(c, k)}
    <3>1. g \in B /\ g \in H /\ g <= h /\ g \in Nat /\ h \in Nat
      BY <2>2
    <3>2. up = B \ Above(B, g) /\ Above(B, g) \in SUBSET B
      BY <2>2, <3>1 DEF Above
    <3>. HIDE DEF up
    <3>3. Cardinality(up) = Cardinality(B) - Cardinality(Above(B, g))
      <4>. DEFINE A == Above(B, g)
      <4>1. A \in SUBSET B /\ up = B \ A
        BY <3>2
      <4>. HIDE DEF A, B
      <4>2. Cardinality(B \ A) = Cardinality(B) - Cardinality(A)
        BY ONLY <2>4, <4>1, Less
      <4>. QED
        BY <4>1, <4>2 DEF A
    <3>4. Cardinality(up) <= mm
      BY <3>3
    <3>. QED
      BY <3>1, <3>4 DEF Filled, up
  <2>7. F = {g \in B : Cardinality(B) - Cardinality(Above(B, g)) <= mm}
    OBVIOUS
  <2>. HIDE DEF B, F
  <2>8. IsFiniteSet(F) /\ Cardinality(F) >= mm
    <3>1. mm <= Cardinality(B)
      BY <2>3, <2>5
    <3>. QED
      BY ONLY mm \in Nat, <2>4, <2>7, <3>1, FirstOnes
  <2>9. Occupied(d) \ O = filled
    <3>. HIDE DEF filled, left, H
    <3>. QED
      BY <1>1, <1>2
  <2>. HIDE DEF filled, H
  <2>10. IsFiniteSet(filled) /\ F \in SUBSET filled
    BY <1>1, <1>2, <2>6, FS_Subset
  <2>11. Cardinality(F) <= Cardinality(filled) /\ Cardinality(F) \in Nat /\ Cardinality(filled) \in Nat
    BY <2>8, <2>10, FS_Subset, FS_CardinalityType
  <2>12. Cardinality(filled) >= mm
    BY ONLY <2>8, <2>11, mm \in Nat
  <2>13. Cardinality(Occupied(d) \ Occupied(c)) = Cardinality(filled)
    BY ONLY <2>9 DEF O
  <2>. QED
    BY ONLY <2>12, <2>13
<1>. QED
  BY <1>4, <1>5

(***************************************************************************)
(* Every call keeps the invariant.                                         *)
(***************************************************************************)
LEMMA UpdatedSound ==
  ASSUME IInv, ~hybrid, NEW self, self = UpdatedSelf, NEW swa, swa = UpdatedSwa
  PROVE  /\ Sound(self) /\ self.size = KvSize /\ ~self.has_shift
         /\ Sound(swa) /\ swa.size = SwaSize /\ (swa_kv_active => ~swa.has_shift)
<1>1. Sound(kv_self) /\ Sound(kv_swa) /\ kv_self.size = KvSize /\ kv_swa.size = SwaSize
  BY DEF IInv
<1>. DEFINE a == IF ShiftDue THEN KShift(kv_self) ELSE kv_self
<1>2. Sound(a) /\ a.size = KvSize /\ ~a.has_shift
  <2>1. CASE ShiftDue
    BY <1>1, <2>1, KShiftSound
  <2>2. CASE ~ShiftDue
    BY <1>1, <2>2 DEF ShiftDue
  <2>. QED
    BY <2>1, <2>2
<1>3. self = IF a.do_defrag THEN Defragged(a, max_moves, hybrid) ELSE a
  BY DEF UpdatedSelf
<1>. HIDE DEF a
<1>4. Sound(self) /\ self.size = KvSize /\ ~self.has_shift
  <2>1. CASE a.do_defrag
    <3>1. self = Defragged(a, max_moves, hybrid)
      BY <1>3, <2>1
    <3>2. Sound(a)
      BY <1>2
    <3>3. Sound(self) /\ self.size = a.size /\ self.has_shift = a.has_shift
      BY ONLY <3>1, <3>2, ~hybrid, DefragSound
    <3>. QED
      BY <1>2, <3>3
  <2>2. CASE ~a.do_defrag
    BY <1>2, <1>3, <2>2
  <2>. QED
    BY <2>1, <2>2
<1>5. Sound(swa) /\ swa.size = SwaSize /\ (swa_kv_active => ~swa.has_shift)
  <2>1. CASE swa_kv_active /\ ShiftDue
    BY <1>1, <2>1, KShiftSound DEF UpdatedSwa
  <2>2. CASE ~(swa_kv_active /\ ShiftDue)
    BY <1>1, <2>2 DEF ShiftDue, UpdatedSwa
  <2>. QED
    BY <2>1, <2>2
<1>. QED
  BY <1>4, <1>5

(* Moves of the head, and the extent of a decode.                           *)
LEMMA HeadsSound ==
  ASSUME NEW c, Sound(c), NEW n
  PROVE  /\ Sound(SearchFrom(c, n)) /\ SearchFrom(c, n).size = c.size /\ SearchFrom(c, n).has_shift = c.has_shift
         /\ Sound(Advanced(c, n)) /\ Advanced(c, n).size = c.size
         /\ Sound(GaveUp(c, n)) /\ GaveUp(c, n).size = c.size
         /\ Sound(SwaGaveUp(c, n)) /\ SwaGaveUp(c, n).size = c.size
         /\ SwaGaveUp(c, n).has_shift = c.has_shift
         /\ Sound(WithExtent(c)) /\ WithExtent(c).size = c.size
         /\ Sound(SwaWithExtent(c)) /\ SwaWithExtent(c).size = c.size
         /\ SwaWithExtent(c).head = c.head /\ Occupied(SwaWithExtent(c)) = Occupied(c)
<1>1. DOMAIN c = Fields
  BY SoundFacts
<1>2. ASSUME NEW v, NEW d, d = [c EXCEPT !.head = v]
      PROVE  Sound(d) /\ d.size = c.size /\ d.has_shift = c.has_shift
  <2>1. DOMAIN d = DOMAIN c /\ d.size = c.size /\ d.cells = c.cells /\ d.used = c.used
        /\ d.has_shift = c.has_shift
    BY <1>1, <1>2 DEF Fields
  <2>. QED
    BY <2>1, Aside
<1>3. ASSUME NEW v, NEW d, d = [c EXCEPT !.n = v]
      PROVE  Sound(d) /\ d.size = c.size /\ d.head = c.head /\ Occupied(d) = Occupied(c)
  <2>1. DOMAIN d = DOMAIN c /\ d.size = c.size /\ d.cells = c.cells /\ d.used = c.used
        /\ d.has_shift = c.has_shift /\ d.head = c.head
    BY <1>1, <1>3 DEF Fields
  <2>2. Occupied(d) = Occupied(c)
    BY <2>1 DEF Occupied, Idx
  <2>. QED
    BY <2>1, <2>2, Aside
<1>4. Sound(SearchFrom(c, n)) /\ SearchFrom(c, n).size = c.size /\ SearchFrom(c, n).has_shift = c.has_shift
  BY <1>2 DEF SearchFrom
<1>5. Sound(Advanced(c, n)) /\ Advanced(c, n).size = c.size
  BY <1>2 DEF Advanced
<1>6. Sound(GaveUp(c, n)) /\ GaveUp(c, n).size = c.size
  BY <1>2 DEF GaveUp
<1>7. /\ Sound(SwaGaveUp(c, n)) /\ SwaGaveUp(c, n).size = c.size
      /\ SwaGaveUp(c, n).has_shift = c.has_shift
  BY <1>2 DEF SwaGaveUp
<1>8. Sound(WithExtent(c)) /\ WithExtent(c).size = c.size
  BY <1>3 DEF WithExtent
<1>9. /\ Sound(SwaWithExtent(c)) /\ SwaWithExtent(c).size = c.size
      /\ SwaWithExtent(c).head = c.head /\ Occupied(SwaWithExtent(c)) = Occupied(c)
  BY <1>3 DEF SwaWithExtent
<1>. QED
  BY <1>4, <1>5, <1>6, <1>7, <1>8, <1>9

(* The room made for a ubatch in the sliding cache.                         *)
LEMMA MadeRoomSound ==
  ASSUME NEW c, Sound(c), NEW batch, NEW d, d = SwaMadeRoom(c, batch)
  PROVE  Sound(d) /\ d.size = c.size /\ d.has_shift = c.has_shift
<1>1. PICK n, g, b, k : /\ n = Len(batch) /\ g = SwaEvict(c, batch, swa_kv_guard)
                        /\ b = SwaGaveUp(g, n) /\ k = SwaEvict(b, batch, 0)
  OBVIOUS
<1>2. d = IF SlotStarts(g, n) # {} THEN g ELSE k
  BY <1>1 DEF SwaMadeRoom
<1>3. Sound(g) /\ g.size = c.size /\ g.has_shift = c.has_shift
  BY <1>1, SwaEvictSound
<1>4. Sound(b) /\ b.size = g.size /\ b.has_shift = g.has_shift
  BY <1>1, <1>3, HeadsSound
<1>5. Sound(k) /\ k.size = b.size /\ k.has_shift = b.has_shift
  BY <1>1, <1>4, SwaEvictSound
<1>. QED
  BY <1>2, <1>3, <1>4, <1>5

LEMMA UBatchTokens ==
  ASSUME NEW n \in Nat, NEW q \in [1..n -> Seqs]
  PROVE  Len(UBatch(q)) = n /\ Len(q) = n /\ \A i \in 1..n : TokenOk(UBatch(q)[i])
<1>1. MaxPos \in Nat /\ NSeq \in Nat
  BY KvAssumption
<1>2. \A s : PosNext(s) \in Nat
  <2>. TAKE s
  <2>. DEFINE S == PosOf(kv_self, s)
  <2>1. S \in SUBSET Nat /\ \A p \in S : p <= MaxPos
    BY <1>1 DEF PosOf, InRange
  <2>2. PosNext(s) = IF S = {} THEN 0 ELSE Max(S) + 1
    BY DEF PosNext
  <2>. HIDE DEF S
  <2>3. S # {} => Max(S) \in Nat
    BY <1>1, <2>1, Greatest
  <2>. QED
    BY <2>2, <2>3
<1>3. DOMAIN q = 1..n
  OBVIOUS
<1>4. ASSUME NEW i \in 1..n PROVE TokenOk(UBatch(q)[i])
  <2>. DEFINE S == {j \in 1..i-1 : q[j] = q[i]}
              p == PosNext(q[i]) + Cardinality(S)
  <2>1. Cardinality(S) \in Nat
    <3>1. IsFiniteSet(1..i-1) /\ S \in SUBSET (1..i-1)
      BY FS_Interval
    <3>. HIDE DEF S
    <3>. QED
      BY <3>1, FS_Subset, FS_CardinalityType
  <2>2. UBatch(q)[i] = [seq |-> q[i], pos |-> p, tok |-> <<q[i], p>>]
    BY <1>3 DEF UBatch
  <2>. HIDE DEF S
  <2>3. p \in Nat
    BY <1>2, <2>1
  <2>. HIDE DEF p
  <2>4. q[i] \in Int
    BY <1>1 DEF Seqs
  <2>5. <<q[i], p>> \in Seq(Int) /\ <<q[i], p>> # <<>>
    BY <2>3, <2>4
  <2>. QED
    BY <2>2, <2>3, <2>4, <2>5 DEF TokenOk
<1>5. Len(UBatch(q)) = n /\ Len(q) = n
  <2>1. DOMAIN UBatch(q) = 1..n
    BY <1>3 DEF UBatch
  <2>2. Len(q) = n
    BY <1>3
  <2>3. UBatch(q) = [i \in 1..n |-> UBatch(q)[i]]
    BY <2>1 DEF UBatch
  <2>4. Len([i \in 1..n |-> UBatch(q)[i]]) = n
    OBVIOUS
  <2>. QED
    BY <2>2, <2>3, <2>4
<1>. QED
  BY <1>4, <1>5

LEMMA DecodeKeeps ==
  ASSUME IInv, ~hybrid, NEW n \in 1..MaxBatch, NEW q \in [1..n -> Seqs], llama_decode(q)
  PROVE  IInv'
<1>. DEFINE batch == UBatch(q)
            a     == UpdatedSelf
            b     == UpdatedSwa
            self  == SearchFrom(a, n)
            room  == SwaMadeRoom(b, batch)
            own   == Place(self, FirstSlot(self, n), batch)
            put   == Place(room, FirstSlot(room, n), batch)
            swa   == SwaWithExtent(put)
            self_takes == SlotStarts(self, n) # {}
            swa_takes  == swa_kv_active => SlotStarts(room, n) # {}
<1>1. n \in Nat
  BY KvAssumption
<1>2. Len(batch) = n /\ Len(q) = n /\ \A i \in 1..n : TokenOk(batch[i])
  BY <1>1, UBatchTokens
<1>3. \/ ~swa_takes /\ kv_self' = self /\ kv_swa' = SwaGaveUp(room, n)
      \/ /\ swa_takes /\ ~self_takes /\ kv_self' = GaveUp(self, n)
         /\ kv_swa' = IF swa_kv_active THEN SwaReleaseSlot(swa, n) ELSE kv_swa
      \/ /\ swa_takes /\ self_takes /\ kv_self' = Advanced(WithExtent(own), n)
         /\ kv_swa' = IF swa_kv_active THEN swa ELSE kv_swa
  BY <1>2 DEF llama_decode
<1>4. Sound(kv_swa) /\ kv_swa.size = SwaSize
  BY DEF IInv
<1>5. /\ Sound(a) /\ a.size = KvSize /\ ~a.has_shift
      /\ Sound(b) /\ b.size = SwaSize /\ (swa_kv_active => ~b.has_shift)
  BY UpdatedSound
<1>. HIDE DEF batch, a, b
<1>6. Sound(self) /\ self.size = KvSize /\ ~self.has_shift
  BY <1>5, HeadsSound
<1>7. Sound(room) /\ room.size = SwaSize /\ (swa_kv_active => ~room.has_shift)
  BY <1>5, MadeRoomSound
<1>. HIDE DEF self, room
<1>8. ASSUME self_takes PROVE Sound(own) /\ own.size = KvSize
  <2>. DEFINE h == FirstSlot(self, n)
  <2>1. self.size \in Nat
    BY <1>6, SoundFacts
  <2>2. h \in SlotStarts(self, n)
    BY <1>8, <2>1, FirstSlotStarts
  <2>3. own = Place(self, h, batch)
    OBVIOUS
  <2>. HIDE DEF h, own
  <2>4. Sound(own) /\ own.size = self.size
    BY ONLY <1>1, <1>2, <1>6, <2>2, <2>3, PlaceSound
  <2>. QED
    BY <1>6, <2>4
<1>9. ASSUME swa_kv_active, swa_takes
      PROVE  /\ Sound(put) /\ put.size = SwaSize
             /\ put.head \in Nat /\ put.head..put.head+n-1 \in SUBSET Occupied(put)
  <2>. DEFINE h == FirstSlot(room, n)
  <2>1. room.size \in Nat /\ ~room.has_shift
    BY <1>7, <1>9, SoundFacts
  <2>2. h \in SlotStarts(room, n)
    BY <1>9, <2>1, FirstSlotStarts
  <2>3. put = Place(room, h, batch)
    OBVIOUS
  <2>. HIDE DEF h, put
  <2>4. PICK x, y, z : x = batch /\ y = room /\ z = put
    OBVIOUS
  <2>5. /\ Sound(y) /\ ~y.has_shift /\ h \in SlotStarts(y, n) /\ z = Place(y, h, x)
        /\ n \in Nat /\ Len(x) = n /\ \A i \in 1..n : TokenOk(x[i])
    BY <1>1, <1>2, <1>7, <2>1, <2>2, <2>3, <2>4
  <2>6. /\ Sound(z) /\ z.size = y.size
        /\ z.head = h /\ h \in Nat /\ h..h+n-1 \in SUBSET Occupied(z)
    BY ONLY <2>5, PlaceSound
  <2>. QED
    BY <1>7, <2>4, <2>6
<1>. HIDE DEF own, put
<1>10. ASSUME swa_kv_active, swa_takes
       PROVE  /\ Sound(swa) /\ swa.size = SwaSize
              /\ swa.head \in Nat /\ swa.head..swa.head+n-1 \in SUBSET Occupied(swa)
  BY <1>9, <1>10, HeadsSound
<1>. HIDE DEF swa
<1>11. CASE ~swa_takes /\ kv_self' = self /\ kv_swa' = SwaGaveUp(room, n)
  BY <1>6, <1>7, <1>11, HeadsSound DEF IInv
<1>12. CASE /\ swa_takes /\ ~self_takes /\ kv_self' = GaveUp(self, n)
            /\ kv_swa' = IF swa_kv_active THEN SwaReleaseSlot(swa, n) ELSE kv_swa
  <2>1. Sound(kv_self') /\ kv_self'.size = KvSize
    BY <1>6, <1>12, HeadsSound
  <2>2. Sound(kv_swa') /\ kv_swa'.size = SwaSize
    <3>1. CASE swa_kv_active
      <4>. DEFINE d == SwaReleaseSlot(swa, n)
      <4>1. Sound(swa) /\ swa.head \in Nat /\ swa.head..swa.head+n-1 \in SUBSET Occupied(swa)
            /\ swa.size = SwaSize
        BY <1>10, <1>12, <3>1
      <4>2. d = SwaReleaseSlot(swa, n) /\ kv_swa' = d
        BY <1>12, <3>1
      <4>. HIDE DEF d
      <4>3. Sound(d) /\ d.size = swa.size
        BY ONLY <1>1, <4>1, <4>2, SwaReleaseSound
      <4>. QED
        BY <4>1, <4>2, <4>3
    <3>2. CASE ~swa_kv_active
      BY <1>4, <1>12, <3>2
    <3>. QED
      BY <3>1, <3>2
  <2>. QED
    BY <2>1, <2>2 DEF IInv
<1>13. CASE /\ swa_takes /\ self_takes /\ kv_self' = Advanced(WithExtent(own), n)
            /\ kv_swa' = IF swa_kv_active THEN swa ELSE kv_swa
  <2>1. Sound(WithExtent(own)) /\ WithExtent(own).size = KvSize
    BY <1>8, <1>13, HeadsSound
  <2>2. Sound(kv_self') /\ kv_self'.size = KvSize
    BY <1>13, <2>1, HeadsSound
  <2>3. Sound(kv_swa') /\ kv_swa'.size = SwaSize
    BY <1>4, <1>10, <1>13
  <2>. QED
    BY <2>2, <2>3 DEF IInv
<1>. QED
  BY <1>3, <1>11, <1>12, <1>13

LEMMA UpdateKeeps ==
  ASSUME IInv, ~hybrid, llama_kv_cache_update
  PROVE  IInv'
<1>. DEFINE a == UpdatedSelf
            b == UpdatedSwa
<1>1. kv_self' = a /\ kv_swa' = b
  BY DEF llama_kv_cache_update
<1>2. Sound(a) /\ a.size = KvSize /\ Sound(b) /\ b.size = SwaSize
  BY UpdatedSound
<1>. HIDE DEF a, b
<1>. QED
  BY <1>1, <1>2 DEF IInv

LEMMA DefragKeeps ==
  ASSUME IInv, llama_kv_cache_defrag
  PROVE  IInv'
<1>. DEFINE d == [kv_self EXCEPT !.do_defrag = TRUE]
<1>1. kv_self' = d /\ kv_swa' = kv_swa
  BY DEF llama_kv_cache_defrag
<1>2. Sound(kv_self) /\ DOMAIN kv_self = Fields
  BY SoundFacts DEF IInv
<1>3. /\ DOMAIN d = DOMAIN kv_self /\ d.size = kv_self.size /\ d.cells = kv_self.cells
      /\ d.used = kv_self.used /\ d.has_shift = kv_self.has_shift
  BY <1>2 DEF Fields
<1>. HIDE DEF d
<1>4. Sound(d)
  BY <1>2, <1>3, Aside
<1>. QED
  BY <1>1, <1>3, <1>4 DEF IInv

(* A call that does something sound to each of the caches.                  *)
LEMMA BothKeep ==
  ASSUME IInv, NEW x, NEW y, OnBoth(x, y), Sound(x), x.size = kv_self.size,
         Sound(y), y.size = kv_swa.size
  PROVE  IInv'
BY DEF IInv, OnBoth

LEMMA RemovedSound ==
  ASSUME ~hybrid, NEW c, Sound(c), NEW s \in Int, NEW p0 \in Int, NEW p1 \in Int,
         NEW d, d = Removed(c, s, p0, p1)
  PROVE  Sound(d) /\ d.size = c.size /\ d.has_shift = c.has_shift
<1>. DEFINE rest == CellsSeqRm(c, s, p0, p1, hybrid)
            end == MaxPos + 1
            all == CellsSeqRm(rest, s, 0, end, hybrid)
<1>1. rest = CellsSeqRm(c, s, p0, p1, hybrid)
  OBVIOUS
<1>2. d = IF Covered(s, p0, p1) THEN rest ELSE all
  BY DEF Removed
<1>3. 0 \in Int /\ end \in Int
  BY KvAssumption
<1>. HIDE DEF rest, end
<1>4. Sound(rest) /\ rest.size = c.size /\ rest.has_shift = c.has_shift
  BY ONLY <1>1, ~hybrid, Sound(c), s \in Int, p0 \in Int, p1 \in Int, SeqRmSound
<1>5. all = CellsSeqRm(rest, s, 0, end, hybrid)
  OBVIOUS
<1>. HIDE DEF all
<1>6. Sound(all) /\ all.size = rest.size /\ all.has_shift = rest.has_shift
  BY ONLY <1>3, <1>4, <1>5, ~hybrid, s \in Int, SeqRmSound
<1>. QED
  BY <1>2, <1>4, <1>6

LEMMA ClearKeeps ==
  ASSUME IInv, llama_kv_cache_clear
  PROVE  IInv'
<1>. DEFINE x == CellsClear(kv_self)
            y == CellsClear(kv_swa)
<1>1. OnBoth(x, y)
  BY DEF llama_kv_cache_clear
<1>2. Sound(kv_self) /\ Sound(kv_swa)
  BY DEF IInv
<1>3. x = CellsClear(kv_self) /\ y = CellsClear(kv_swa)
  OBVIOUS
<1>. HIDE DEF x, y
<1>4. Sound(x) /\ x.size = kv_self.size
  BY ONLY <1>2, <1>3, ClearSound
<1>5. Sound(y) /\ y.size = kv_swa.size
  BY ONLY <1>2, <1>3, ClearSound
<1>. QED
  BY <1>1, <1>4, <1>5, BothKeep

LEMMA SeqKeepKeeps ==
  ASSUME IInv, ~hybrid, NEW s \in Seqs, llama_kv_cache_seq_keep(s)
  PROVE  IInv'
<1>. DEFINE x == CellsSeqKeep(kv_self, s, hybrid)
            y == CellsSeqKeep(kv_swa, s, hybrid)
<1>1. OnBoth(x, y)
  BY DEF llama_kv_cache_seq_keep
<1>2. Sound(kv_self) /\ Sound(kv_swa) /\ s \in Int
  BY KvAssumption DEF IInv, Seqs
<1>3. x = CellsSeqKeep(kv_self, s, hybrid) /\ y = CellsSeqKeep(kv_swa, s, hybrid)
  OBVIOUS
<1>. HIDE DEF x, y
<1>4. Sound(x) /\ x.size = kv_self.size
  BY ONLY <1>2, <1>3, ~hybrid, SeqKeepSound
<1>5. Sound(y) /\ y.size = kv_swa.size
  BY ONLY <1>2, <1>3, ~hybrid, SeqKeepSound
<1>. QED
  BY <1>1, <1>4, <1>5, BothKeep

LEMMA SeqCpKeeps ==
  ASSUME IInv, ~hybrid, NEW s \in Seqs, NEW dst \in Seqs, llama_kv_cache_seq_cp(s, dst)
  PROVE  IInv'
<1>. DEFINE x == CellsSeqCp(kv_self, s, dst, hybrid)
            y == CellsSeqCp(kv_swa, s, dst, hybrid)
<1>1. OnBoth(x, y)
  BY DEF llama_kv_cache_seq_cp
<1>2. Sound(kv_self) /\ Sound(kv_swa) /\ s \in Int /\ dst \in Int
  BY KvAssumption DEF IInv, Seqs
<1>3. x = CellsSeqCp(kv_self, s, dst, hybrid) /\ y = CellsSeqCp(kv_swa, s, dst, hybrid)
  OBVIOUS
<1>. HIDE DEF x, y
<1>4. Sound(x) /\ x.size = kv_self.size
  BY ONLY <1>2, <1>3, ~hybrid, SeqCpSound
<1>5. Sound(y) /\ y.size = kv_swa.size
  BY ONLY <1>2, <1>3, ~hybrid, SeqCpSound
<1>. QED
  BY <1>1, <1>4, <1>5, BothKeep

LEMMA SeqRmKeeps ==
  ASSUME IInv, ~hybrid, NEW s \in Seqs, NEW p0 \in 0..MaxPos, llama_kv_cache_seq_rm(s, p0)
  PROVE  IInv'
<1>. DEFINE x == Removed(kv_self, s, p0, MaxPos + 1)
            y == Removed(kv_swa, s, p0, MaxPos + 1)
<1>1. OnBoth(x, y)
  BY DEF llama_kv_cache_seq_rm
<1>2. Sound(kv_self) /\ Sound(kv_swa) /\ s \in Int /\ p0 \in Int /\ MaxPos + 1 \in Int
  BY KvAssumption DEF IInv, Seqs
<1>3. x = Removed(kv_self, s, p0, MaxPos + 1) /\ y = Removed(kv_swa, s, p0, MaxPos + 1)
  OBVIOUS
<1>. HIDE DEF x, y
<1>4. Sound(x) /\ x.size = kv_self.size
  BY ONLY <1>2, <1>3, ~hybrid, RemovedSound
<1>5. Sound(y) /\ y.size = kv_swa.size
  BY ONLY <1>2, <1>3, ~hybrid, RemovedSound
<1>. QED
  BY <1>1, <1>4, <1>5, BothKeep

LEMMA SeqAddKeeps ==
  ASSUME IInv, NEW s \in Seqs, NEW p0 \in 0..MaxPos, NEW p1 \in p0+1..MaxPos+1, NEW m \in Shifts,
         llama_kv_cache_seq_add(s, p0, p1, m)
  PROVE  IInv'
<1>. DEFINE x == CellsSeqAdd(kv_self, s, p0, p1, m)
            y == CellsSeqAdd(kv_swa, s, p0, p1, m)
<1>1. OnBoth(x, y)
  BY DEF llama_kv_cache_seq_add
<1>2. Sound(kv_self) /\ Sound(kv_swa) /\ s \in Int /\ p0 \in Int /\ p1 \in Int /\ m \in Int
  BY KvAssumption DEF IInv, Seqs
<1>3. x = CellsSeqAdd(kv_self, s, p0, p1, m) /\ y = CellsSeqAdd(kv_swa, s, p0, p1, m)
  OBVIOUS
<1>. HIDE DEF x, y
<1>4. Sound(x) /\ x.size = kv_self.size
  BY ONLY <1>2, <1>3, SeqAddSound
<1>5. Sound(y) /\ y.size = kv_swa.size
  BY ONLY <1>2, <1>3, SeqAddSound
<1>. QED
  BY <1>1, <1>4, <1>5, BothKeep

LEMMA SeqDivKeeps ==
  ASSUME IInv, NEW s \in Seqs, NEW p0 \in 0..MaxPos, NEW p1 \in p0+1..MaxPos+1,
         llama_kv_cache_seq_div(s, p0, p1, 2)
  PROVE  IInv'
<1>. DEFINE x == CellsSeqDiv(kv_self, s, p0, p1, 2)
            y == CellsSeqDiv(kv_swa, s, p0, p1, 2)
<1>1. OnBoth(x, y)
  BY DEF llama_kv_cache_seq_div
<1>2. Sound(kv_self) /\ Sound(kv_swa) /\ s \in Int /\ p0 \in Nat /\ p1 \in Int
  BY KvAssumption DEF IInv, Seqs
<1>3. x = CellsSeqDiv(kv_self, s, p0, p1, 2) /\ y = CellsSeqDiv(kv_swa, s, p0, p1, 2)
  OBVIOUS
<1>. HIDE DEF x, y
<1>4. Sound(x) /\ x.size = kv_self.size
  BY ONLY <1>2, <1>3, SeqDivSound, ZenonT(40)
<1>5. Sound(y) /\ y.size = kv_swa.size
  BY ONLY <1>2, <1>3, SeqDivSound, ZenonT(40)
<1>. QED
  BY <1>1, <1>4, <1>5, BothKeep

LEMMA ContextShiftKeeps ==
  ASSUME IInv, ~hybrid, NEW s \in Seqs, NEW keep \in 0..MaxPos, NEW p1 \in keep+1..MaxPos+1,
         ContextShift(s, keep, p1 - keep)
  PROVE  IInv'
<1>. DEFINE m == p1 - keep
            from == keep + m
            end == MaxPos + 1
            neg == -m
            ra == Removed(kv_self, s, keep, from)
            rb == Removed(kv_swa, s, keep, from)
            x == CellsSeqAdd(ra, s, from, end, neg)
            y == CellsSeqAdd(rb, s, from, end, neg)
<1>1. OnBoth(x, y)
  BY DEF ContextShift
<1>2. Sound(kv_self) /\ Sound(kv_swa) /\ s \in Int /\ keep \in Int /\ from \in Int /\ end \in Int /\ neg \in Int
  BY KvAssumption DEF IInv, Seqs
<1>3. ra = Removed(kv_self, s, keep, from) /\ rb = Removed(kv_swa, s, keep, from)
  OBVIOUS
<1>4. x = CellsSeqAdd(ra, s, from, end, neg) /\ y = CellsSeqAdd(rb, s, from, end, neg)
  OBVIOUS
<1>. HIDE DEF m, from, end, neg, ra, rb, x, y
<1>5. Sound(ra) /\ ra.size = kv_self.size
  BY ONLY <1>2, <1>3, ~hybrid, RemovedSound
<1>6. Sound(rb) /\ rb.size = kv_swa.size
  BY ONLY <1>2, <1>3, ~hybrid, RemovedSound
<1>7. Sound(x) /\ x.size = ra.size
  BY ONLY <1>2, <1>4, <1>5, SeqAddSound
<1>8. Sound(y) /\ y.size = rb.size
  BY ONLY <1>2, <1>4, <1>6, SeqAddSound
<1>. QED
  BY <1>1, <1>5, <1>6, <1>7, <1>8, BothKeep

LEMMA FileTokensOk ==
  ASSUME NEW s \in Int, NEW n \in Nat
  PROVE  Len(FromFile(s, n)) = n /\ \A i \in 1..n : TokenOk(FromFile(s, n)[i])
<1>1. Len(FromFile(s, n)) = n
  BY DEF FromFile
<1>2. ASSUME NEW i \in 1..n PROVE TokenOk(FromFile(s, n)[i])
  <2>. DEFINE p == i - 1
              k == -1
  <2>1. p \in Nat /\ k \in Int
    OBVIOUS
  <2>2. FromFile(s, n)[i] = [seq |-> s, pos |-> p, tok |-> <<k, p>>]
    BY DEF FromFile
  <2>. HIDE DEF p, k
  <2>3. <<k, p>> \in Seq(Int) /\ <<k, p>> # <<>>
    BY <2>1
  <2>. QED
    BY <2>1, <2>2, <2>3 DEF TokenOk
<1>. QED
  BY <1>1, <1>2

LEMMA StateSeqSetKeeps ==
  ASSUME IInv, ~hybrid, NEW s \in Seqs, NEW n \in FileTokens, llama_state_seq_set_data(s, n)
  PROVE  IInv'
<1>. DEFINE end == MaxPos + 1
            c == CellsSeqRm(kv_self, s, 0, end, hybrid)
            h == FirstSlot(c, n)
            batch == FromFile(s, n)
            d == Place(c, h, batch)
<1>1. /\ ~kv_self.has_shift /\ kv_swa' = kv_swa
      /\ kv_self' = IF SlotStarts(c, n) # {} THEN d ELSE GaveUp(c, n)
  BY DEF llama_state_seq_set_data
<1>2. /\ Sound(kv_self) /\ kv_self.size = KvSize /\ Sound(kv_swa) /\ kv_swa.size = SwaSize
      /\ s \in Int /\ 0 \in Int /\ end \in Int /\ n \in Nat
  BY KvAssumption DEF IInv, Seqs
<1>3. c = CellsSeqRm(kv_self, s, 0, end, hybrid)
  OBVIOUS
<1>4. Len(batch) = n /\ \A i \in 1..n : TokenOk(batch[i])
  BY <1>2, FileTokensOk
<1>. HIDE DEF end, c, batch
<1>5. Sound(c) /\ c.size = kv_self.size /\ c.has_shift = kv_self.has_shift
  BY ONLY <1>2, <1>3, ~hybrid, SeqRmSound
<1>6. CASE SlotStarts(c, n) # {}
  <2>1. c.size \in Nat /\ ~c.has_shift
    BY <1>1, <1>5, SoundFacts
  <2>2. h \in SlotStarts(c, n) /\ d = Place(c, h, batch)
    BY <1>6, <2>1, FirstSlotStarts
  <2>. HIDE DEF h, d
  <2>3. Sound(d) /\ d.size = c.size
    BY ONLY <1>2, <1>4, <1>5, <2>1, <2>2, PlaceSound
  <2>. QED
    BY <1>1, <1>2, <1>5, <1>6, <2>3 DEF IInv
<1>7. CASE SlotStarts(c, n) = {}
  BY <1>1, <1>2, <1>5, <1>7, HeadsSound DEF IInv
<1>. QED
  BY <1>6, <1>7

LEMMA StateSetKeeps ==
  ASSUME IInv, NEW s \in Seqs, NEW n \in FileTokens, llama_state_set_data(s, n)
  PROVE  IInv'
<1>. DEFINE c == CellsClear(kv_self)
            batch == FromFile(s, n)
            d == Place(c, 0, batch)
<1>1. ~kv_self.has_shift /\ n <= KvSize /\ kv_self' = d /\ kv_swa' = kv_swa
  BY DEF llama_state_set_data
<1>2. /\ Sound(kv_self) /\ kv_self.size = KvSize /\ Sound(kv_swa) /\ kv_swa.size = SwaSize
      /\ s \in Int /\ n \in Nat /\ KvSize \in Nat \ {0}
  BY KvAssumption DEF IInv, Seqs
<1>3. c = CellsClear(kv_self) /\ d = Place(c, 0, batch)
  OBVIOUS
<1>4. Len(batch) = n /\ \A i \in 1..n : TokenOk(batch[i])
  BY <1>2, FileTokensOk
<1>. HIDE DEF c, batch, d
<1>5. /\ Sound(c) /\ c.size = kv_self.size /\ c.has_shift = kv_self.has_shift
      /\ \A i \in Idx(kv_self) : c.cells[i].seqs = {}
  BY ONLY <1>2, <1>3, ClearSound
<1>6. 0 \in SlotStarts(c, n)
  <2>1. Idx(c) = 0..KvSize-1 /\ Idx(kv_self) = Idx(c)
    BY <1>2, <1>5 DEF Idx
  <2>2. \A i \in Idx(c) : CellOk(c.cells[i]) /\ c.cells[i].seqs = {}
    BY <1>5, <2>1, SoundFacts
  <2>3. \A i \in Idx(c) : c.cells[i].pos < 0
    BY <2>2 DEF CellOk, Cell
  <2>4. \A i \in 0..0+n-1 : c.cells[i].pos < 0
    BY <1>1, <1>2, <2>1, <2>3
  <2>. QED
    BY <1>1, <1>2, <1>5, <2>1, <2>4 DEF SlotStarts
<1>7. Sound(d) /\ d.size = c.size
  <2>1. ~c.has_shift
    BY <1>1, <1>5
  <2>. QED
    BY ONLY <1>2, <1>3, <1>4, <1>5, <1>6, <2>1, PlaceSound
<1>. QED
  BY <1>1, <1>2, <1>5, <1>7 DEF IInv

LEMMA InitSound == Init => IInv
<1>1. ASSUME NEW size \in Nat, NEW c, c = NewCache(size) PROVE Sound(c) /\ c.size = size
  <2>1. /\ DOMAIN c = Fields /\ c.size = size /\ c.used = 0 /\ ~c.has_shift
        /\ c.cells = [i \in 0..size-1 |-> NewCell]
    BY <1>1 DEF NewCache, Fields
  <2>2. Idx(c) = 0..size-1 /\ IsCache(c)
    BY <2>1 DEF Idx, IsCache, Fields
  <2>3. NoRow \in Row /\ -1 \in Int /\ {} \in SUBSET Int
    BY DEF NoRow, Row
  <2>4. NewCell \in Cell /\ NewCell.pos = -1 /\ NewCell.seqs = {} /\ NewCell.delta = 0
    BY <2>3 DEF NewCell, Cell
  <2>5. CellOk(NewCell)
    BY <2>4 DEF CellOk
  <2>6. \A i \in Idx(c) : c.cells[i] = NewCell
    BY <2>1, <2>2
  <2>7. Occupied(c) = {} /\ Settled(c)
    BY <2>4, <2>6 DEF Occupied, Settled
  <2>8. Cardinality({}) = 0
    BY FS_EmptySet
  <2>. QED
    BY <2>1, <2>2, <2>5, <2>6, <2>7, <2>8 DEF Sound
<1>2. KvSize \in Nat /\ SwaSize \in Nat
  BY KvAssumption
<1>. QED
  BY <1>1, <1>2 DEF Init, IInv

LEMMA StepSound ==
  ASSUME ~hybrid
  PROVE  IInv /\ [Next]_vars => IInv'
<1>. SUFFICES ASSUME IInv, [Next]_vars PROVE IInv'
  OBVIOUS
<1>1. ASSUME NEW s \in Seqs, OnSequence(s) PROVE IInv'
  <2>1. CASE llama_kv_cache_seq_keep(s)
    BY <2>1, SeqKeepKeeps
  <2>2. CASE \E dst \in Seqs : llama_kv_cache_seq_cp(s, dst)
    BY <2>2, SeqCpKeeps
  <2>3. CASE \E p0 \in 0..MaxPos : llama_kv_cache_seq_rm(s, p0)
    BY <2>3, SeqRmKeeps
  <2>4. CASE \E p0 \in 0..MaxPos : \E p1 \in p0+1..MaxPos+1 :
               \/ \E d \in Shifts : llama_kv_cache_seq_add(s, p0, p1, d)
               \/ llama_kv_cache_seq_div(s, p0, p1, 2)
               \/ ContextShift(s, p0, p1 - p0)
    <3>0. PICK p0 \in 0..MaxPos : \E p1 \in p0+1..MaxPos+1 :
               \/ \E d \in Shifts : llama_kv_cache_seq_add(s, p0, p1, d)
               \/ llama_kv_cache_seq_div(s, p0, p1, 2)
               \/ ContextShift(s, p0, p1 - p0)
      BY <2>4
    <3>1. PICK p1 \in p0+1..MaxPos+1 :
               \/ \E d \in Shifts : llama_kv_cache_seq_add(s, p0, p1, d)
               \/ llama_kv_cache_seq_div(s, p0, p1, 2)
               \/ ContextShift(s, p0, p1 - p0)
      BY <3>0
    <3>2. CASE \E d \in Shifts : llama_kv_cache_seq_add(s, p0, p1, d)
      BY <3>2, SeqAddKeeps
    <3>3. CASE llama_kv_cache_seq_div(s, p0, p1, 2)
      BY <3>3, SeqDivKeeps
    <3>4. CASE ContextShift(s, p0, p1 - p0)
      BY <3>4, ContextShiftKeeps
    <3>. QED
      BY <3>1, <3>2, <3>3, <3>4
  <2>5. CASE \E n \in FileTokens : llama_state_seq_set_data(s, n) \/ llama_state_set_data(s, n)
    BY <2>5, StateSeqSetKeeps, StateSetKeeps
  <2>. QED
    BY <1>1, <2>1, <2>2, <2>3, <2>4, <2>5 DEF OnSequence
<1>2. CASE \E n \in 1..MaxBatch : \E q \in [1..n -> Seqs] : llama_decode(q)
  BY <1>2, DecodeKeeps
<1>3. CASE llama_kv_cache_update
  BY <1>3, UpdateKeeps
<1>4. CASE llama_kv_cache_defrag
  BY <1>4, DefragKeeps
<1>5. CASE llama_kv_cache_clear
  BY <1>5, ClearKeeps
<1>6. CASE UNCHANGED vars
  BY <1>6 DEF IInv, vars
<1>. QED
  BY <1>1, <1>2, <1>3, <1>4, <1>5, <1>6 DEF Next

(***************************************************************************)
(* The theorems.                                                           *)
(***************************************************************************)

(* `used`, which removals, shifts out of the front, evictions, refusals and *)
(* restores all correct on their own, is the number of cells in use, and    *)
(* the cells in use are the ones the allocators find taken: always, and so  *)
(* when llama_kv_cache_defrag_internal asserts it.                          *)
THEOREM UsedIsExact ==
  ASSUME ~hybrid
  PROVE  Spec => []UsedExact
<1>1. IInv => UsedExact
  BY DEF IInv, Sound, CellOk, UsedExact
<1>. QED
  BY <1>1, InitSound, StepSound, PTL DEF Spec

(* The key of every cell in use is, with the shift that K-shift is still to *)
(* apply, rotated to the position of the cell: also when the cell was freed *)
(* with a shift pending and taken again, was moved by a defragmentation or  *)
(* was restored.                                                            *)
THEOREM RowsRotatedRight ==
  ASSUME ~hybrid
  PROVE  Spec => []RowsAtTheirPositions
<1>1. IInv => RowsAtTheirPositions
  BY DEF IInv, Sound, CellOk, Occupied, RowsAtTheirPositions
<1>. QED
  BY <1>1, InitSound, StepSound, PTL DEF Spec

(* A defragmentation leaves the cells in use without a hole from the first  *)
(* one on, or has filled as many holes as it may move blocks: the runs of   *)
(* holes and of cells, and the limit, are kept apart correctly for every    *)
(* way in which a cache of any size can be fragmented.                      *)
THEOREM Compacts ==
  ASSUME ~hybrid
  PROVE  Spec => DefragCompacts
<1>. DEFINE A == llama_kv_cache_update /\ kv_self.do_defrag =>
                   \/ Occupied(kv_self') = 0..kv_self.used-1
                   \/ Cardinality(Occupied(kv_self') \ Occupied(kv_self)) >= max_moves
<1>1. ASSUME IInv, llama_kv_cache_update, kv_self.do_defrag
      PROVE  \/ Occupied(kv_self') = 0..kv_self.used-1
             \/ Cardinality(Occupied(kv_self') \ Occupied(kv_self)) >= max_moves
  <2>. DEFINE a == IF ShiftDue THEN KShift(kv_self) ELSE kv_self
              d == Defragged(a, max_moves, hybrid)
  <2>1. Sound(kv_self)
    BY <1>1 DEF IInv
  <2>2. Sound(a) /\ a.used = kv_self.used /\ a.do_defrag = kv_self.do_defrag
        /\ Occupied(a) = Occupied(kv_self)
    <3>1. CASE ShiftDue
      <4>. DEFINE k == KShift(kv_self)
      <4>1. DOMAIN kv_self = Fields
        BY <2>1, SoundFacts
      <4>2. /\ k.used = kv_self.used /\ k.do_defrag = kv_self.do_defrag /\ k.size = kv_self.size
            /\ k.cells = [i \in Idx(kv_self) |-> Rotated(kv_self.cells[i])]
        BY <4>1 DEF KShift, Fields
      <4>3. Sound(k)
        BY <2>1, KShiftSound
      <4>. HIDE DEF k
      <4>4. \A i \in Idx(kv_self) : k.cells[i].seqs = kv_self.cells[i].seqs
        BY <2>1, <4>2, SoundFacts, RotatedOk
      <4>5. Occupied(k) = Occupied(kv_self)
        BY <4>2, <4>4 DEF Occupied, Idx
      <4>. QED
        BY <3>1, <4>2, <4>3, <4>5 DEF k
    <3>2. CASE ~ShiftDue
      BY <2>1, <3>2
    <3>. QED
      BY <3>1, <3>2
  <2>3. kv_self' = IF a.do_defrag THEN d ELSE a
    BY <1>1 DEF llama_kv_cache_update, UpdatedSelf
  <2>4. d = Defragged(a, max_moves, hybrid) /\ max_moves \in Nat
    BY KvAssumption
  <2>. HIDE DEF a, d
  <2>5. kv_self' = d
    BY <1>1, <2>2, <2>3
  <2>6. Occupied(d) = 0..a.used-1 \/ Cardinality(Occupied(d) \ Occupied(a)) >= max_moves
    BY ONLY <2>2, <2>4, ~hybrid, DefragDone
  <2>. QED
    BY <2>2, <2>5, <2>6
<1>2. IInv /\ [Next]_vars => [A]_vars
  BY <1>1
<1>3. Spec => []IInv /\ [][Next]_vars
  BY InitSound, StepSound, PTL DEF Spec
<1>4. Spec => [][A]_vars
  <2>. HIDE DEF A
  <2>. QED
    BY <1>2, <1>3, PTL
<1>. QED
  BY <1>4 DEF DefragCompacts
=============================================================================
